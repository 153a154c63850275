-------------------------- MODULE MCOnchainMultisig --------------------------
(***************************************************************************)
(* An instance of OnchainMultisig for TLC.  Runs are interchangeable and   *)
(* so are transfers; owners are not, since one of them is the creator.     *)
(***************************************************************************)
EXTENDS OnchainMultisig, TLC

Symmetry == Permutations(Runs) \cup Permutations(Payloads)
=============================================================================
