------------------------------ MODULE MCChain ------------------------------
(***************************************************************************)
(* Symmetry sets for the runs of Chain.  Wallets, validators, session keys *)
(* and market addresses are interchangeable: no action names one.          *)
(***************************************************************************)
EXTENDS ChainPromise, TLC

Symmetry ==
    Permutations(Users) \cup Permutations(SessionKeys)
        \cup Permutations(Markets) \cup Permutations(Validators)

=============================================================================
