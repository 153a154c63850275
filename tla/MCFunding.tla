----------------------------- MODULE MCFunding -----------------------------
(***************************************************************************)
(* Finite instance of Funding: balances on both sides of what the scripts  *)
(* compare with and of what the node asks for.                             *)
(***************************************************************************)
EXTENDS Funding

MCNoAccount == -1
MCBalances == {MCNoAccount, 30, 1010}
=============================================================================
