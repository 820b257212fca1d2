---------------------------- MODULE ChainPromise ----------------------------
(***************************************************************************)
(* The programs of Chain keep the promise of MarketPromise: each account   *)
(* and receipt is read as one entry of the public record.                  *)
(***************************************************************************)
EXTENDS Chain

Stage(status) ==
    CASE status = STATUS_SETTLED -> "settled"
      [] status = STATUS_VOID -> "void"
      [] OTHER -> "open"

PublicEntry(m) ==
    LET proven == resolution[m] # NoAccount
    IN  IF Exists(m)
        THEN [stage |-> Stage(market[m].status), receipt |-> proven,
              closesAt |-> market[m].closesAt,
              decidedAt |-> market[m].settlesAt]
        ELSE [stage |-> "none", receipt |-> proven,
              closesAt |-> 0, decidedAt |-> 0]

PublicBook == [m \in Markets |-> PublicEntry(m)]

Promise == INSTANCE MarketPromise WITH time <- clock, book <- PublicBook

(* Every behaviour of the programs is one the promise allows, a step of    *)
(* theirs being one step of the promise or none: whatever instruction is   *)
(* sent by whom, a market is decided once, voided only past its grace      *)
(* period, and forgotten only past its claims window.                      *)
KeepsPromise == Promise!PromiseSpec

=============================================================================
