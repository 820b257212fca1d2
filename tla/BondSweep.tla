------------------------------ MODULE BondSweep ------------------------------
(***************************************************************************)
(* The sweep of a creator's balances (apps/agent/src/claims.ts): one scan  *)
(* of the chain finds the wallet's decided markets; those past the claims  *)
(* window are closed, the others' bonds claimed, a few to a transaction.   *)
(* It works on what the scan saw, while markets are decided and the week   *)
(* keeper, which has the same wallet, claims bonds of its own.             *)
(***************************************************************************)
EXTENDS MarketPromise, FiniteSets

CONSTANT ClaimsPerTx   \* CLAIMS_PER_TX

VARIABLES
    bonds,  \* markets whose bond is claimed (bond_claimed of the account)
    sweep   \* what the scan found and no batch has taken up yet

sweepVars == <<promiseVars, bonds, sweep>>

ASSUME SweepAssumption == ClaimsPerTx \in Nat \ {0}

Swept == [closable |-> {}, bondOnly |-> {}]

SweepInit == PromiseInit /\ bonds = {} /\ sweep = Swept

Closable_FromClosing(m) == time > book[m].closesAt + CloseGrace   \* mutant
Closable(m) == time > book[m].decidedAt + CloseGrace

ClaimBond(m) ==
    /\ book[m].stage \in Decided /\ m \notin bonds
    /\ bonds' = bonds \cup {m}

(* findDeadMarkets, when a pass begins.                                    *)
Scan ==
    /\ sweep = Swept
    /\ LET dead == {m \in Markets : book[m].stage \in Decided}
           closable == {m \in dead : Closable(m)}
           bondOnly == (dead \ closable) \ bonds
       IN  sweep' = [closable |-> closable, bondOnly |-> bondOnly]
    /\ sweep' # sweep
    /\ UNCHANGED <<promiseVars, bonds>>

(* sendBatch: the next few markets of a list, as many as fit.              *)
Chunks(list) ==
    {c \in SUBSET list : Cardinality(c) = IF Cardinality(list) < ClaimsPerTx
                                          THEN Cardinality(list)
                                          ELSE ClaimsPerTx} \ {{}}

(* A batch takes effect as a whole; one that fails is left to the next pass*)
BatchDone_Retried(kind, chunk) ==   \* mutant: goes on until the batch lands
    UNCHANGED sweep
BatchDone(kind, chunk) == sweep' = [sweep EXCEPT ![kind] = @ \ chunk]

(* A closed account takes its bond_claimed with it.                        *)
BondsLeft_Kept(chunk) == bonds   \* mutant: the account of the address keeps it
BondsLeft(chunk) == bonds \ chunk

CloseBatch(chunk) ==
    /\ chunk \in Chunks(sweep.closable)
    /\ BatchDone("closable", chunk)
    /\ \A m \in chunk : book[m].stage \in Decided
    /\ \A m \in chunk : time > book[m].decidedAt + CloseGrace
    /\ book' = [m \in Markets |-> IF m \in chunk THEN NoMarket(book[m].receipt)
                                                 ELSE book[m]]
    /\ bonds' = BondsLeft(chunk)
    /\ UNCHANGED time

ClaimBatch(chunk) ==
    /\ sweep.closable = {}
    /\ chunk \in Chunks(sweep.bondOnly)
    /\ BatchDone("bondOnly", chunk)
    /\ \A m \in chunk : book[m].stage \in Decided /\ m \notin bonds
    /\ bonds' = bonds \cup chunk
    /\ UNCHANGED promiseVars

BatchFails ==
    /\ \E kind \in DOMAIN sweep : \E chunk \in Chunks(sweep[kind]) :
          /\ kind = "bondOnly" => sweep.closable = {}
          /\ BatchDone(kind, chunk)
    /\ UNCHANGED <<promiseVars, bonds>>

-----------------------------------------------------------------------------
SweepStep ==
    \/ Scan
    \/ \E chunk \in SUBSET Markets : CloseBatch(chunk) \/ ClaimBatch(chunk)
    \/ BatchFails

(* Everyone else, and claimReceipts of the week keeper.                    *)
OthersStep ==
    /\ UNCHANGED sweep
    /\ \/ Pass /\ UNCHANGED bonds
       \/ \E m \in Markets :
             \/ \E c \in CloseTimes : Open(m, c) /\ UNCHANGED bonds
             \/ (Decide(m, "settled") \/ Void(m)) /\ UNCHANGED bonds
             \/ ClaimBond(m) /\ UNCHANGED promiseVars

SweepNext == SweepStep \/ OthersStep

SweepSpec == SweepInit /\ [][SweepNext]_sweepVars

(* The sweep comes round again and again, and a batch that could land each *)
(* time does not fail for ever.                                            *)
FairSweepSpec ==
    /\ SweepSpec
    /\ WF_sweepVars(SweepStep)
    /\ SF_sweepVars(\E chunk \in SUBSET Markets : CloseBatch(chunk) \/ ClaimBatch(chunk))

-----------------------------------------------------------------------------
SweepTypeOK ==
    /\ time \in 0..MaxClock
    /\ book \in [Markets -> Entry]
    /\ bonds \subseteq {m \in Markets : book[m].stage \in Decided}
    /\ sweep \in [closable: SUBSET Markets, bondOnly: SUBSET Markets]

(* What a scan found closable stays closable until a batch takes it up     *)
(* (claims.ts, sweepCreatorBonds): time and what others do can spoil a     *)
(* claim of a bond, never a close.                                         *)
ClosesCannotSpoil ==
    \A m \in sweep.closable :
        book[m].stage \in Decided /\ time > book[m].decidedAt + CloseGrace

(* No creator balance is stranded: every decided market of the wallet has  *)
(* its bond claimed or is closed in the end, although a batch reverts      *)
(* whole when one of its bonds was claimed since the scan.                 *)
BondsReclaimed ==
    \A m \in Markets :
        book[m].stage \in Decided ~> (book[m].stage = "none" \/ m \in bonds)

=============================================================================
