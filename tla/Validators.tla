----------------------------- MODULE Validators -----------------------------
(***************************************************************************)
(* The two validator programs of the repository, as functions from what    *)
(* resolve_market hands them to their answer: "yes" or "no" when the       *)
(* predicate holds or not, "reject" when the program reverts.  Reference   *)
(* time, window and threshold are the caller's instruction data.           *)
(***************************************************************************)
EXTENDS Integers

CONSTANT None   \* no value: no observation, no signature, no account

Answers == {"yes", "no"}
Answer(holds) == IF holds THEN "yes" ELSE "no"

WithinWindow(t, referenceTs, window) ==
    /\ t >= referenceTs
    /\ t <= referenceTs + window

(* validate_price: `update` is a PriceUpdateV2 account of the receiver.    *)
ValidatePrice(update, claim) ==
    IF /\ update # None
       /\ WithinWindow(update.publishTime, claim.referenceTs, claim.window)
    THEN Answer(update.price >= claim.threshold)
    ELSE "reject"

OP_GTE == "gte"
OP_LTE == "lte"
OP_EQ == "eq"

Holds(op, value, threshold) ==
    CASE op = OP_GTE -> value >= threshold
      [] op = OP_LTE -> value <= threshold
      [] op = OP_EQ -> value = threshold

(* validate_attestation: `precompile` is the instruction right before, the *)
(* signer and message the ed25519 precompile has verified; `config` is the *)
(* authority pinned by the Config account that was passed.                 *)
ValidateAttestation(config, precompile, observation, claim) ==
    IF /\ precompile # None
       /\ precompile.signer = config
       /\ precompile.message = observation
       /\ WithinWindow(observation.obsTs, claim.referenceTs, claim.window)
       /\ claim.op \in {OP_GTE, OP_LTE, OP_EQ}
    THEN Answer(Holds(claim.op, observation.value, claim.threshold))
    ELSE "reject"

(* resolve_market accepts the proof when the answer is the claimed outcome.*)
ProofAccepted(answer, outcome) == answer \in Answers /\ answer = outcome

=============================================================================
