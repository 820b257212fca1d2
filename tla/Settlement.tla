----------------------------- MODULE Settlement -----------------------------
(***************************************************************************)
(* The settlement program (programs/settlement/src/lib.rs).  Its only      *)
(* instruction calls a validator program and, if the validator's answer    *)
(* agrees with the claimed outcome, creates the market's one resolution    *)
(* receipt.  The program has no instruction that changes or closes a       *)
(* receipt, so a receipt outlives the market account it was made for.      *)
(***************************************************************************)
EXTENDS Market

VARIABLE resolution   \* the Resolution account of each market address

Receipt == [outcome: Sides, validator: Validators, resolvedAt: Nat]

ASSUME NoReceiptAssumption == NoAccount \notin Receipt

SettlementInit == resolution = [m \in Markets |-> NoAccount]

(* resolve_market: the keeper chooses the validator and its instruction    *)
(* data, so the answer `validated` is any answer that validator gives; a   *)
(* validator that rejects the proof reverts the transaction.  `init` of    *)
(* the receipt fails when the address is taken.                            *)
ResolveMarket(m, validator, outcome, validated) ==
    /\ Exists(m)
    /\ validated = (outcome = SIDE_YES)
    /\ resolution[m] = NoAccount
    /\ resolution' = [resolution EXCEPT ![m] =
          [outcome |-> outcome, validator |-> validator,
           resolvedAt |-> clock]]
    /\ UNCHANGED marketVars

=============================================================================
