----------------------------- MODULE MCGenesis -----------------------------
(***************************************************************************)
(* Finite instances of Genesis: the server and a test, whose genesis gives *)
(* a balance to an account that the server's genesis does not know.        *)
(***************************************************************************)
EXTENDS Genesis

CONSTANTS server, test,             \* the callers
          chain, validators, alice  \* the keys

MCWriteSet ==
  [p \in Procs |->
    IF p = server THEN [k \in {chain, validators} |-> IF k = chain THEN "testing" ELSE "s"]
                  ELSE [k \in {chain, validators, alice} |-> IF k = chain THEN "testing" ELSE "t"]]
=============================================================================
