----------------------------- MODULE MCSettleTx -----------------------------
(***************************************************************************)
(* Two settlements, each with an address of its own to look up.            *)
(***************************************************************************)
EXTENDS SettleTx

CONSTANTS s1, s2, a1, a2

OwnAddresses == [s \in {s1, s2} |-> IF s = s1 THEN {a1} ELSE {a2}]

=============================================================================
