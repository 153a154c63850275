----------------------------- MODULE MCTxCodec -----------------------------
(***************************************************************************)
(* An instance of TxCodec: transfers that differ in an argument, one call  *)
(* with a type argument, both forms of a multisig payload, and a script.   *)
(***************************************************************************)
EXTENDS TxCodec

Transfer(amount) == create_entry_func("supra_account", "transfer", <<"recipient", amount>>, <<>>)
Calls == {Transfer("10"), Transfer("20"), create_entry_func("multisig_account", "vote", <<"10">>, <<>>)}
TypedCall == create_entry_func("coin", "transfer", <<"recipient", "10">>, <<<<"TypeTag", "SupraCoin">>>>)
Code == <<"Script", [code |-> <<"bytes", "code">>, ty_args |-> <<"list", <<>>>>, args |-> <<"list", <<>>>>]>>

MCContents ==
  Calls \cup {TypedCall, Code, Multisig(Address("0xad"), None)}
        \cup {Multisig(Address("0xad"), MultiSigTransactionPayload(f)) : f \in Calls}
=============================================================================
