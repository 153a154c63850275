----------------------------- MODULE MCRpcNode -----------------------------
(***************************************************************************)
(* Finite instance of RpcNode: the server and a test, whose genesis gives  *)
(* an account to alice, of whom the server's genesis does not know.        *)
(***************************************************************************)
EXTENDS RpcNode

CONSTANTS server, test, chain, validators, alice, r1, r2

MCWriteSet ==
  [p \in Procs |->
    IF p = server THEN [k \in {chain, validators} |-> IF k = chain THEN "testing" ELSE "s"]
                  ELSE [k \in {chain, validators, alice} |-> IF k = chain THEN "testing" ELSE "t"]]

\* The first sender is known to every genesis.
MCSender == [r \in Requests |-> IF r = r1 THEN validators ELSE alice]
=============================================================================
