---------------------------- MODULE MarketPromise ----------------------------
(***************************************************************************)
(* What the market program promises of one market address to whoever bets, *)
(* settles or keeps house there, with accounts, stakes, oracles and        *)
(* signers left out: a market is open until it is settled or voided once,  *)
(* a void has to wait for the grace period, the address is free again only *)
(* after the claims window, and a receipt, once made, stays.               *)
(*                                                                         *)
(* ChainPromise shows that the programs keep this promise; Matchkeeper is  *)
(* the agent as a client of it.                                            *)
(***************************************************************************)
EXTENDS Integers

CONSTANTS
    Markets,      \* market addresses
    CloseTimes,   \* closing times a market may be opened with
    GracePeriod,  \* how long after closing a market cannot be voided
    CloseGrace,   \* how long after its verdict a market stays
    MaxClock      \* bound on the modelled time

VARIABLES
    time,  \* the cluster's clock
    book   \* the public record of each market address

promiseVars == <<time, book>>

ASSUME PromiseAssumption ==
    /\ CloseTimes \subseteq Nat
    /\ {GracePeriod, CloseGrace, MaxClock} \subseteq Nat

Decided == {"settled", "void"}
Stages == {"none", "open"} \cup Decided

Entry == [stage: Stages, receipt: BOOLEAN, closesAt: Nat, decidedAt: Nat]

NoMarket(receipt) ==
    [stage |-> "none", receipt |-> receipt, closesAt |-> 0, decidedAt |-> 0]

PromiseInit ==
    /\ time = 0
    /\ book = [m \in Markets |-> NoMarket(FALSE)]

Pass ==
    /\ time < MaxClock
    /\ time' = time + 1
    /\ UNCHANGED book

Open(m, closesAt) ==
    /\ book[m].stage = "none"
    /\ closesAt > time
    /\ book' = [book EXCEPT ![m].stage = "open", ![m].closesAt = closesAt]
    /\ UNCHANGED time

(* A receipt is made once per address, in any stage but the first.         *)
Prove(m) ==
    /\ book[m].stage # "none"
    /\ ~book[m].receipt
    /\ book' = [book EXCEPT ![m].receipt = TRUE]
    /\ UNCHANGED time

Decide(m, verdict) ==
    /\ book[m].stage = "open"
    /\ book' = [book EXCEPT ![m].stage = verdict, ![m].decidedAt = time]
    /\ UNCHANGED time

CanVoid(m) == book[m].stage = "open" /\ time > book[m].closesAt + GracePeriod

Void(m) == CanVoid(m) /\ Decide(m, "void")

Forget(m) ==
    /\ book[m].stage \in Decided
    /\ time > book[m].decidedAt + CloseGrace
    /\ book' = [book EXCEPT ![m] = NoMarket(@.receipt)]
    /\ UNCHANGED time

PromiseNext ==
    \/ Pass
    \/ \E m \in Markets :
          \/ \E c \in CloseTimes : Open(m, c)
          \/ Prove(m)
          \/ Decide(m, "settled")
          \/ Void(m)
          \/ Forget(m)

PromiseSpec == PromiseInit /\ [][PromiseNext]_promiseVars

=============================================================================
