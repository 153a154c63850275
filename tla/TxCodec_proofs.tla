--------------------------- MODULE TxCodec_proofs ---------------------------
(***************************************************************************)
(* Proofs about TxCodec, for any accounts, contents and sequence numbers.  *)
(***************************************************************************)
EXTENDS TxCodec, TLAPS

(***************************************************************************)
(* JSON: paths.                                                            *)
(***************************************************************************)
\* The keys of the objects that are posted.
Names == {"raw_txn", "authenticator", "Ed25519", "MultiEd25519", "public_key", "signature",
          "sender", "sequence_number", "payload", "max_gas_amount", "gas_unit_price",
          "expiration_timestamp_secs", "chain_id", "EntryFunction", "Multisig",
          "multisig_address", "transaction_payload",
          "module", "address", "name", "function", "ty_args", "args"}

\* A set of leaves, each with a path that is not empty.
IsDict(D) == \A e \in D : e = <<e[1], e[2]>> /\ e[1] \in Seq(Names) /\ e[1] # <<>>

\* A path is read back from the path below a key, and so is the key.
LEMMA PathUnder ==
  ASSUME NEW k \in Names, NEW p \in Seq(Names)
  PROVE  /\ <<k>> \o p \in Seq(Names) /\ <<k>> \o p # <<>>
         /\ (<<k>> \o p)[1] = k /\ SubSeq(<<k>> \o p, 2, Len(<<k>> \o p)) = p
  OBVIOUS

LEMMA PathInjective ==
  ASSUME NEW k \in Names, NEW p \in Seq(Names), NEW l \in Names, NEW q \in Seq(Names),
         <<k>> \o p = <<l>> \o q
  PROVE  k = l /\ p = q
  BY PathUnder

LEMMA UnderElement ==
  ASSUME NEW D, IsDict(D), NEW key \in Names, NEW e
  PROVE  e \in Under(key, D) <=>
           \E p, v : p \in Seq(Names) /\ e = <<<<key>> \o p, v>> /\ <<p, v>> \in D
<1>1. ASSUME e \in Under(key, D)
      PROVE  \E p, v : p \in Seq(Names) /\ e = <<<<key>> \o p, v>> /\ <<p, v>> \in D
  <2>1. PICK f \in D : e = <<<<key>> \o f[1], f[2]>>
    BY <1>1 DEF Under
  <2>2. f = <<f[1], f[2]>> /\ f[1] \in Seq(Names)
    BY DEF IsDict
  <2> QED
    BY <2>1, <2>2
<1>2. ASSUME NEW p \in Seq(Names), NEW v, e = <<<<key>> \o p, v>>, <<p, v>> \in D
      PROVE  e \in Under(key, D)
  BY <1>2 DEF Under
<1> QED
  BY <1>1, <1>2

LEMMA UnderAt ==
  ASSUME NEW D, IsDict(D), NEW p \in Seq(Names), NEW k \in Names, NEW key \in Names, NEW v
  PROVE  <<<<k>> \o p, v>> \in Under(key, D) <=> k = key /\ <<p, v>> \in D
<1>1. ASSUME <<<<k>> \o p, v>> \in Under(key, D) PROVE k = key /\ <<p, v>> \in D
  <2>1. PICK q, w : q \in Seq(Names) /\ <<<<k>> \o p, v>> = <<<<key>> \o q, w>> /\ <<q, w>> \in D
    BY <1>1, UnderElement
  <2>2. <<k>> \o p = <<key>> \o q /\ v = w
    BY <2>1
  <2> QED
    BY <2>1, <2>2, PathInjective
<1>2. ASSUME k = key, <<p, v>> \in D PROVE <<<<k>> \o p, v>> \in Under(key, D)
  BY <1>2, UnderElement
<1> QED
  BY <1>1, <1>2

\* The paths begin with the key that they are under.
LEMMA UnderDict ==
  ASSUME NEW D, IsDict(D), NEW key \in Names
  PROVE  IsDict(Under(key, D)) /\ \A e \in Under(key, D) : e[1][1] = key
<1> SUFFICES ASSUME NEW e \in Under(key, D)
             PROVE  e = <<e[1], e[2]>> /\ e[1] \in Seq(Names) /\ e[1] # <<>> /\ e[1][1] = key
  BY DEF IsDict
<1>1. PICK p, v : p \in Seq(Names) /\ e = <<<<key>> \o p, v>> /\ <<p, v>> \in D
  BY UnderElement
<1>2. PICK q \in Seq(Names) : q = <<key>> \o p /\ q # <<>> /\ q[1] = key
  BY <1>1, PathUnder
<1>3. e = <<q, v>>
  BY <1>1, <1>2
<1>4. e[1] = q /\ e[2] = v
  BY <1>3
<1> QED
  BY <1>2, <1>3, <1>4

LEMMA LeafDict ==
  ASSUME NEW key \in Names, NEW v
  PROVE  /\ IsDict(Leaf(key, v))
         /\ \A e \in Leaf(key, v) : e[1] = <<key>> /\ e[1][1] = key /\ e[2] = v
<1>1. <<key>> \in Seq(Names) /\ <<key>> # <<>>
  OBVIOUS
<1> QED
  BY <1>1 DEF Leaf, IsDict

LEMMA UnionDict ==
  ASSUME NEW D, NEW E, IsDict(D), IsDict(E)
  PROVE  IsDict(D \cup E)
  BY DEF IsDict

LEMMA UnderLonger ==
  ASSUME NEW D, IsDict(D), NEW key \in Names, NEW e \in Under(key, D)
  PROVE  e[1] # <<key>>
<1>1. PICK p, v : p \in Seq(Names) /\ e = <<<<key>> \o p, v>> /\ <<p, v>> \in D
  BY UnderElement
<1>2. p # <<>>
  BY <1>1 DEF IsDict
<1>3. Len(<<key>> \o p) # Len(<<key>>)
  BY <1>1, <1>2
<1> QED
  BY <1>1, <1>3

\* What is under one key is read back from what is under it.
LEMMA UnderSubset ==
  ASSUME NEW D, NEW E, IsDict(D), IsDict(E), NEW key \in Names, Under(key, D) \subseteq Under(key, E)
  PROVE  D \subseteq E
<1> SUFFICES ASSUME NEW e \in D PROVE e \in E
  OBVIOUS
<1>1. e = <<e[1], e[2]>> /\ e[1] \in Seq(Names)
  BY DEF IsDict
<1>2. <<<<key>> \o e[1], e[2]>> \in Under(key, E)
  BY <1>1, UnderAt
<1> QED
  BY <1>1, <1>2, UnderAt
-----------------------------------------------------------------------------
(***************************************************************************)
(* JSON: what payload_to_dict writes is what the node reads.               *)
(***************************************************************************)
\* The fields of a function and of its module.
LEMMA FunctionFields ==
  ASSUME NEW f, IsEntryFunction(f)
  PROVE  /\ Class(f) = "EntryFunction" /\ DOMAIN Val(f) = {"module", "function", "ty_args", "args"}
         /\ Val(f)["function"] = Val(f).function
         /\ Class(Val(f).function) = "str" /\ Class(Val(f).ty_args) = "list"
         /\ Class(Val(f).args) = "list"
         /\ Val(Val(f).args) = [i \in DOMAIN Val(Val(f).args) |-> <<"bytes", Val(Val(Val(f).args)[i])>>]
         /\ Class(Val(f).module) = "ModuleId" /\ DOMAIN Val(Val(f).module) = {"address", "name"}
         /\ Val(Val(f).module).address = Address("0x1")
         /\ Class(Val(Val(f).module).name) = "str"
<1>1. PICK module, function, args, tys : f = create_entry_func(module, function, args, tys)
  BY DEF IsEntryFunction
<1>2. Val(f) = [module |-> <<"ModuleId", [address |-> Address("0x1"), name |-> Str(module)]>>,
                function |-> Str(function), ty_args |-> <<"list", tys>>,
                args |-> <<"list", [i \in DOMAIN args |-> <<"bytes", args[i]>>]>>]
      /\ Class(f) = "EntryFunction"
  BY <1>1 DEF create_entry_func, Class, Val
<1>3. /\ Val(f).function = Str(function) /\ Val(f).ty_args = <<"list", tys>>
      /\ Val(f).module = <<"ModuleId", [address |-> Address("0x1"), name |-> Str(module)]>>
      /\ Val(f).args = <<"list", [i \in DOMAIN args |-> <<"bytes", args[i]>>]>>
      /\ DOMAIN Val(f) = {"module", "function", "ty_args", "args"}
  BY <1>2
<1>4. /\ Val(Val(f).module) = [address |-> Address("0x1"), name |-> Str(module)]
      /\ Class(Val(f).module) = "ModuleId"
  BY <1>3 DEF Val, Class
<1>5. /\ Val(Val(f).args) = [i \in DOMAIN args |-> <<"bytes", args[i]>>]
      /\ Class(Val(f).args) = "list"
  BY <1>3 DEF Val, Class
<1>6. Val(Val(f).args) = [i \in DOMAIN Val(Val(f).args) |-> <<"bytes", Val(Val(Val(f).args)[i])>>]
  BY <1>5 DEF Val
<1> QED
  BY <1>2, <1>3, <1>4, <1>5, <1>6 DEF Class, Str

\* The tree below a function, by its keys.
ModuleTree(m) == Leaf("address", Str("0x1")) \cup Leaf("name", Val(m).name)
ArgsJson(f) == <<"list", [i \in DOMAIN Val(Val(f).args) |-> <<"list", Val(Val(Val(f).args)[i])>>]>>
FunctionTree(f) ==
  Under("module", ModuleTree(Val(f).module)) \cup Leaf("function", Val(f).function)
  \cup Leaf("ty_args", Val(f).ty_args) \cup Leaf("args", ArgsJson(f))

LEMMA TwoKeys == ASSUME NEW k \in Names, NEW l \in Names PROVE <<k>> \o <<l>> = <<k, l>>
<1>1. /\ <<k>> \o <<l>> \in Seq(Names) /\ Len(<<k>> \o <<l>>) = 2
      /\ (<<k>> \o <<l>>)[1] = k /\ (<<k>> \o <<l>>)[2] = l
  OBVIOUS
<1>2. ASSUME NEW s \in Seq(Names), Len(s) = 2 PROVE s = <<s[1], s[2]>>
  BY <1>2
<1> QED
  BY <1>1, <1>2

LEMMA UnderUnion == ASSUME NEW key, NEW D, NEW E PROVE Under(key, D \cup E) = Under(key, D) \cup Under(key, E)
  BY DEF Under

LEMMA UnderLeaf ==
  ASSUME NEW key \in Names, NEW k \in Names, NEW v
  PROVE  Under(key, Leaf(k, v)) = {<<<<key, k>>, v>>}
<1> SUFFICES ASSUME NEW x PROVE x \in Under(key, Leaf(k, v)) <=> x = <<<<key, k>>, v>>
  OBVIOUS
<1>1. x \in Under(key, Leaf(k, v)) <=> \E e \in Leaf(k, v) : x = <<<<key>> \o e[1], e[2]>>
  BY DEF Under
<1>2. \A e : e \in Leaf(k, v) <=> e = <<<<k>>, v>>
  BY DEF Leaf
<1>3. x \in Under(key, Leaf(k, v)) <=> x = <<<<key>> \o <<<<k>>, v>>[1], <<<<k>>, v>>[2]>>
  BY <1>1, <1>2, Zenon
<1>4. <<<<k>>, v>>[1] = <<k>> /\ <<<<k>>, v>>[2] = v
  OBVIOUS
<1> QED
  BY <1>3, <1>4, TwoKeys

LEMMA FunctionTreeJson == ASSUME NEW f PROVE FunctionJson(f) = FunctionTree(f)
<1>1. "module" \in Names /\ "address" \in Names /\ "name" \in Names
  BY DEF Names
<1>2. /\ Under("module", Leaf("address", Str("0x1"))) = {<<<<"module", "address">>, Str("0x1")>>}
      /\ Under("module", Leaf("name", Val(Val(f).module).name)) = {<<<<"module", "name">>, Val(Val(f).module).name>>}
  BY <1>1, UnderLeaf
<1>3. Under("module", ModuleTree(Val(f).module)) =
        {<<<<"module", "address">>, Str("0x1")>>} \cup {<<<<"module", "name">>, Val(Val(f).module).name>>}
  BY <1>2, UnderUnion DEF ModuleTree
<1> QED
  BY <1>3 DEF FunctionJson, FunctionTree, Leaf, ArgsJson

\* A module is written alike at either depth.
LEMMA ModuleEntries ==
  ASSUME NEW m, DOMAIN Val(m) = {"address", "name"},
         Val(m).address = Address("0x1"), Class(Val(m).name) = "str"
  PROVE  ModuleDict(m) = ModuleTree(m) /\ FunctionDict(m) = ModuleTree(m)
<1>1. /\ Entry("address", Val(m)["address"], ModuleDict) = Leaf("address", Str("0x1"))
      /\ Entry("name", Val(m)["name"], ModuleDict) = Leaf("name", Val(m).name)
  BY DEF Entry, Address, Class, Val, JsonKey
<1>2. /\ Entry("address", Val(m)["address"], LAMBDA x : {}) = Leaf("address", Str("0x1"))
      /\ Entry("name", Val(m)["name"], LAMBDA x : {}) = Leaf("name", Val(m).name)
  BY DEF Entry, Address, Class, Val, JsonKey
<1>3. /\ FunctionDict(m) = UNION {Entry(k, Val(m)[k], ModuleDict) : k \in {"address", "name"}}
      /\ ModuleDict(m) = UNION {Entry(k, Val(m)[k], LAMBDA x : {}) : k \in {"address", "name"}}
  BY DEF ModuleDict, FunctionDict, Entries
<1>4. /\ FunctionDict(m) = Entry("address", Val(m)["address"], ModuleDict) \cup Entry("name", Val(m)["name"], ModuleDict)
      /\ ModuleDict(m) = Entry("address", Val(m)["address"], LAMBDA x : {}) \cup Entry("name", Val(m)["name"], LAMBDA x : {})
  BY <1>3
<1> QED
  BY <1>1, <1>2, <1>4 DEF ModuleTree

\* So is a function, in a multisig payload or by itself.
LEMMA FunctionEntries ==
  ASSUME NEW f, IsEntryFunction(f)
  PROVE  FunctionDict(f) = FunctionTree(f) /\ ContentDict(f) = FunctionTree(f)
<1>1. PICK m : m = Val(f).module
  OBVIOUS
<1>2. ModuleDict(m) = ModuleTree(m) /\ FunctionDict(m) = ModuleTree(m) /\ Class(m) = "ModuleId"
  BY <1>1, FunctionFields, ModuleEntries
<1>3. /\ Entry("module", m, ModuleDict) = Under("module", ModuleTree(m))
      /\ Entry("module", m, FunctionDict) = Under("module", ModuleTree(m))
  BY <1>2 DEF Entry
<1>4. /\ Entry("function", Val(f).function, ModuleDict) = Leaf("function", Val(f).function)
      /\ Entry("function", Val(f).function, FunctionDict) = Leaf("function", Val(f).function)
      /\ Entry("ty_args", Val(f).ty_args, ModuleDict) = Leaf("ty_args", Val(f).ty_args)
      /\ Entry("ty_args", Val(f).ty_args, FunctionDict) = Leaf("ty_args", Val(f).ty_args)
  BY FunctionFields DEF Entry, JsonKey
<1>5. [i \in DOMAIN Val(Val(f).args) |-> AsList(Val(Val(f).args)[i])] =
        [i \in DOMAIN Val(Val(f).args) |-> <<"list", Val(Val(Val(f).args)[i])>>]
  <2> SUFFICES ASSUME NEW i \in DOMAIN Val(Val(f).args) PROVE AsList(Val(Val(f).args)[i]) = <<"list", Val(Val(Val(f).args)[i])>>
    OBVIOUS
  <2>1. PICK args : args = Val(Val(f).args)
    OBVIOUS
  <2>2. args = [j \in DOMAIN args |-> <<"bytes", Val(args[j])>>]
    BY <2>1, FunctionFields
  <2>3. args[i] = <<"bytes", Val(args[i])>>
    BY <2>1, <2>2
  <2>4. Class(args[i]) = "bytes"
    BY <2>3 DEF Class
  <2> QED
    BY <2>1, <2>4 DEF AsList
<1>6. /\ Entry("args", Val(f).args, ModuleDict) = Leaf("args", ArgsJson(f))
      /\ Entry("args", Val(f).args, FunctionDict) = Leaf("args", ArgsJson(f))
  BY <1>5, FunctionFields DEF Entry, ArgsJson
<1>7. DOMAIN Val(f) = {"module", "function", "ty_args", "args"}
  BY FunctionFields
<1>8. /\ FunctionDict(f) = UNION {Entry(k, Val(f)[k], ModuleDict) : k \in {"module", "function", "ty_args", "args"}}
      /\ ContentDict(f) = UNION {Entry(k, Val(f)[k], FunctionDict) : k \in {"module", "function", "ty_args", "args"}}
  BY <1>7 DEF ContentDict, FunctionDict, Entries
<1>9. /\ FunctionDict(f) = Entry("module", Val(f)["module"], ModuleDict) \cup Entry("function", Val(f)["function"], ModuleDict)
                           \cup Entry("ty_args", Val(f)["ty_args"], ModuleDict) \cup Entry("args", Val(f)["args"], ModuleDict)
      /\ ContentDict(f) = Entry("module", Val(f)["module"], FunctionDict) \cup Entry("function", Val(f)["function"], FunctionDict)
                           \cup Entry("ty_args", Val(f)["ty_args"], FunctionDict) \cup Entry("args", Val(f)["args"], FunctionDict)
  BY <1>8
<1> QED
  BY <1>1, <1>3, <1>4, <1>6, <1>9 DEF FunctionTree

\* The fields of a multisig payload.
LEMMA MultisigFields ==
  ASSUME NEW c, IsMultisig(c)
  PROVE  /\ Class(c) = "Multisig" /\ DOMAIN Val(c) = {"multisig_address", "transaction_payload"}
         /\ Val(c).multisig_address = Address(Val(Val(c).multisig_address))
         /\ Val(c).transaction_payload = Inner(c)
         /\ \/ Inner(c) = None
            \/ /\ Inner(c) # None /\ Class(Inner(c)) = "MultiSigTransactionPayload"
               /\ Inner(c) = MultiSigTransactionPayload(Inner(Inner(c)))
               /\ IsEntryFunction(Inner(Inner(c))) /\ Val(Inner(Inner(c))).ty_args = <<"list", <<>>>>
<1>1. PICK a, p : p = Inner(c) /\ c = Multisig(Address(a), p)
  BY DEF IsMultisig
<1>2. Val(c) = [multisig_address |-> Address(a), transaction_payload |-> p] /\ Class(c) = "Multisig"
  BY <1>1 DEF Multisig, Val, Class
<1>3. DOMAIN Val(c) = {"multisig_address", "transaction_payload"} /\ Val(c).multisig_address = Address(a)
      /\ Val(c).transaction_payload = p
  BY <1>2
<1>4. Val(Address(a)) = a
  BY DEF Address, Val
<1>5. ASSUME Inner(c) # None
      PROVE  /\ Class(Inner(c)) = "MultiSigTransactionPayload"
             /\ Inner(c) = MultiSigTransactionPayload(Inner(Inner(c)))
             /\ IsEntryFunction(Inner(Inner(c))) /\ Val(Inner(Inner(c))).ty_args = <<"list", <<>>>>
  BY <1>5 DEF IsMultisig, MultiSigTransactionPayload, Class
<1> QED
  BY <1>1, <1>2, <1>3, <1>4, <1>5

\* The trees below a payload and below a transaction.
MultisigTree(c) ==
  Leaf("multisig_address", Str(Val(Val(c).multisig_address)))
  \cup IF Inner(c) = None THEN Leaf("transaction_payload", None)
       ELSE Under("transaction_payload", Under("EntryFunction", FunctionTree(Inner(Inner(c)))))
PayloadTree(c) == IF Class(c) = "EntryFunction" THEN Under("EntryFunction", FunctionTree(c))
                                                ELSE Under("Multisig", MultisigTree(c))

LEMMA PayloadTreeJson == ASSUME NEW c PROVE PayloadJson(c) = PayloadTree(c)
  BY FunctionTreeJson DEF PayloadJson, PayloadTree, MultisigTree

LEMMA MultisigEntries == ASSUME NEW c, IsMultisig(c) PROVE ContentDict(c) = MultisigTree(c)
<1>1. ContentDict(c) = UNION {Entry(k, Val(c)[k], FunctionDict) : k \in {"multisig_address", "transaction_payload"}}
  BY MultisigFields DEF ContentDict, Entries
<1>2. ContentDict(c) = Entry("multisig_address", Val(c)["multisig_address"], FunctionDict)
                       \cup Entry("transaction_payload", Val(c)["transaction_payload"], FunctionDict)
  BY <1>1
<1>3. Entry("multisig_address", Val(c).multisig_address, FunctionDict) =
        Leaf("multisig_address", Str(Val(Val(c).multisig_address)))
  <2>1. Class(Val(c).multisig_address) = "AccountAddress"
    BY MultisigFields DEF Address, Class
  <2> QED
    BY <2>1 DEF Entry
<1>4. CASE Inner(c) = None
  <2>1. Entry("transaction_payload", None, FunctionDict) = Leaf("transaction_payload", None)
    BY DEF Entry, None, Class, JsonKey
  <2> QED
    BY <1>2, <1>3, <1>4, <2>1, MultisigFields DEF MultisigTree
<1>5. CASE Inner(c) # None
  <2>1. /\ Class(Inner(c)) = "MultiSigTransactionPayload" /\ IsEntryFunction(Inner(Inner(c)))
        /\ Val(c).transaction_payload = Inner(c)
    BY <1>5, MultisigFields
  <2>2. Entry("transaction_payload", Inner(c), FunctionDict) =
          Under("transaction_payload", Under("EntryFunction", FunctionTree(Inner(Inner(c)))))
    BY <2>1, FunctionEntries DEF Entry
  <2> QED
    BY <1>2, <1>3, <1>5, <2>1, <2>2 DEF MultisigTree
<1> QED
  BY <1>4, <1>5

\* What has a JSON.
Postable(c) == IsEntryFunction(c) \/ IsMultisig(c)

LEMMA PostableFields ==
  ASSUME NEW c, Postable(c)
  PROVE  /\ Class(c) \in {"EntryFunction", "Multisig"}
         /\ Class(c) = "EntryFunction" <=> IsEntryFunction(c)
         /\ Class(c) = "Multisig" <=> IsMultisig(c)
  BY FunctionFields, MultisigFields DEF Postable

LEMMA PayloadEntries ==
  ASSUME NEW c, Postable(c)
  PROVE  Under(Class(c), ContentDict(c)) = PayloadTree(c)
<1>1. CASE IsEntryFunction(c)
  BY <1>1, FunctionFields, FunctionEntries DEF PayloadTree
<1>2. CASE IsMultisig(c)
  BY <1>2, MultisigFields, MultisigEntries DEF PayloadTree
<1> QED
  BY <1>1, <1>2 DEF Postable

RawTree(a, n, c) ==
  Leaf("sender", Str(a)) \cup Leaf("sequence_number", Int(n))
  \cup Under("payload", PayloadTree(c))
  \cup Leaf("max_gas_amount", MaxGas) \cup Leaf("gas_unit_price", GasPrice)
  \cup Leaf("expiration_timestamp_secs", Expiry) \cup Leaf("chain_id", ChainId)

LEMMA RawFields ==
  ASSUME NEW a, NEW n, NEW c, NEW id, NEW r, r = RawTransaction(a, n, c, id)
  PROVE  /\ Class(r) = "RawTransaction" /\ Payload(r) = c /\ SenderOf(r) = a
         /\ DOMAIN Val(r) = {"sender", "sequence_number", "payload", "max_gas_amount", "gas_unit_price",
                             "expiration_timestamps_secs", "chain_id"}
         /\ Val(r).sender = Address(a) /\ Val(r).sequence_number = Int(n)
         /\ Val(r).payload = TransactionPayload(c) /\ Val(r).max_gas_amount = MaxGas
         /\ Val(r).gas_unit_price = GasPrice /\ Val(r).expiration_timestamps_secs = Expiry
         /\ Val(r).chain_id = id
<1>1. /\ Class(r) = "RawTransaction"
      /\ Val(r) = [sender |-> Address(a), sequence_number |-> Int(n),
                   payload |-> TransactionPayload(c),
                   max_gas_amount |-> MaxGas, gas_unit_price |-> GasPrice,
                   expiration_timestamps_secs |-> Expiry, chain_id |-> id]
  BY DEF RawTransaction, Class, Val
<1>2. /\ DOMAIN Val(r) = {"sender", "sequence_number", "payload", "max_gas_amount", "gas_unit_price",
                          "expiration_timestamps_secs", "chain_id"}
      /\ Val(r).sender = Address(a) /\ Val(r).sequence_number = Int(n)
      /\ Val(r).payload = TransactionPayload(c) /\ Val(r).max_gas_amount = MaxGas
      /\ Val(r).gas_unit_price = GasPrice /\ Val(r).expiration_timestamps_secs = Expiry
      /\ Val(r).chain_id = id
  BY <1>1
<1>3. Val(TransactionPayload(c)).value = c /\ Val(Address(a)) = a
  BY DEF TransactionPayload, Address, Val
<1> QED
  BY <1>1, <1>2, <1>3 DEF Payload, SenderOf

LEMMA IntClasses ==
  /\ \A n : Class(Int(n)) = "int"
  /\ Class(MaxGas) = "int" /\ Class(GasPrice) = "int" /\ Class(Expiry) = "int" /\ Class(ChainId) = "int"
<1>1. \A n : Class(Int(n)) = "int"
  BY DEF Class, Int
<1> QED
  BY <1>1, SMT DEF MaxGas, GasPrice, Expiry, ChainId

\* What the script writes of a transaction.
LEMMA RawEntries ==
  ASSUME NEW a, NEW n, NEW c, Postable(c), NEW r, r = RawTransaction(a, n, c, ChainId)
  PROVE  payload_to_dict(r) = RawTree(a, n, c)
<1>1. payload_to_dict(r) =
        UNION {Entry(k, Val(r)[k], ContentDict) :
                 k \in {"sender", "sequence_number", "payload", "max_gas_amount", "gas_unit_price",
                        "expiration_timestamps_secs", "chain_id"}}
  BY RawFields DEF payload_to_dict, Entries
<1>2. payload_to_dict(r) =
        Entry("sender", Val(r)["sender"], ContentDict)
        \cup Entry("sequence_number", Val(r)["sequence_number"], ContentDict)
        \cup Entry("payload", Val(r)["payload"], ContentDict)
        \cup Entry("max_gas_amount", Val(r)["max_gas_amount"], ContentDict)
        \cup Entry("gas_unit_price", Val(r)["gas_unit_price"], ContentDict)
        \cup Entry("expiration_timestamps_secs", Val(r)["expiration_timestamps_secs"], ContentDict)
        \cup Entry("chain_id", Val(r)["chain_id"], ContentDict)
  BY <1>1
<1>3. Entry("sender", Address(a), ContentDict) = Leaf("sender", Str(a))
  BY DEF Entry, Address, Class, Val
<1>4. /\ Entry("sequence_number", Int(n), ContentDict) = Leaf("sequence_number", Int(n))
      /\ Entry("max_gas_amount", MaxGas, ContentDict) = Leaf("max_gas_amount", MaxGas)
      /\ Entry("gas_unit_price", GasPrice, ContentDict) = Leaf("gas_unit_price", GasPrice)
      /\ Entry("expiration_timestamps_secs", Expiry, ContentDict) = Leaf("expiration_timestamp_secs", Expiry)
      /\ Entry("chain_id", ChainId, ContentDict) = Leaf("chain_id", ChainId)
  BY IntClasses DEF Entry, JsonKey
<1>5. Entry("payload", TransactionPayload(c), ContentDict) = Under("payload", PayloadTree(c))
  <2>1. Class(TransactionPayload(c)) = "TransactionPayload" /\ Val(TransactionPayload(c)).value = c
    BY DEF TransactionPayload, Class, Val
  <2> QED
    BY <2>1, PayloadEntries DEF Entry
<1> QED
  BY <1>2, <1>3, <1>4, <1>5, RawFields DEF RawTree

\* What the node reads of one.
LEMMA RawTreeJson ==
  ASSUME NEW a, NEW n, NEW c, NEW r, r = RawTransaction(a, n, c, ChainId)
  PROVE  RawJson(r) = RawTree(a, n, c)
<1>1. PICK Numbers :
        Numbers = UNION {Leaf(k, Val(r)[k]) : k \in {"sequence_number", "max_gas_amount", "gas_unit_price", "chain_id"}}
  OBVIOUS
<1>2. Numbers = Leaf("sequence_number", Val(r)["sequence_number"]) \cup Leaf("max_gas_amount", Val(r)["max_gas_amount"])
                \cup Leaf("gas_unit_price", Val(r)["gas_unit_price"]) \cup Leaf("chain_id", Val(r)["chain_id"])
  BY <1>1
<1>3. RawJson(r) =
        Leaf("sender", Str(SenderOf(r)))
        \cup Leaf("expiration_timestamp_secs", Val(r).expiration_timestamps_secs)
        \cup Under("payload", PayloadJson(Payload(r))) \cup Numbers
  BY <1>1 DEF RawJson
<1>4. /\ Val(r)["sequence_number"] = Int(n) /\ Val(r)["max_gas_amount"] = MaxGas
      /\ Val(r)["gas_unit_price"] = GasPrice /\ Val(r)["chain_id"] = ChainId
      /\ SenderOf(r) = a /\ Val(r).expiration_timestamps_secs = Expiry /\ PayloadJson(Payload(r)) = PayloadTree(c)
  BY RawFields, PayloadTreeJson
<1> QED
  BY <1>2, <1>3, <1>4 DEF RawTree
-----------------------------------------------------------------------------
(***************************************************************************)
(* JSON: the node reads one transaction only.                              *)
(***************************************************************************)
LEMMA KeyNames ==
  /\ {"raw_txn", "authenticator", "Ed25519", "MultiEd25519", "public_key", "signature"} \subseteq Names
  /\ {"sender", "sequence_number", "payload", "max_gas_amount", "gas_unit_price",
      "expiration_timestamp_secs", "chain_id"} \subseteq Names
  /\ {"EntryFunction", "Multisig", "multisig_address", "transaction_payload"} \subseteq Names
  /\ {"module", "address", "name", "function", "ty_args", "args"} \subseteq Names
BY DEF Names

\* The leaves of the trees, by the first keys of their paths.
LEMMA ModuleHeads ==
  ASSUME NEW m
  PROVE  /\ IsDict(ModuleTree(m))
         /\ \A e \in ModuleTree(m) : e[1][1] = "name" => e[2] = Val(m).name
<1>1. "address" \in Names /\ "name" \in Names
  BY KeyNames
<1>2. /\ IsDict(Leaf("address", Str("0x1"))) /\ \A e \in Leaf("address", Str("0x1")) : e[1][1] = "address"
      /\ IsDict(Leaf("name", Val(m).name)) /\ \A e \in Leaf("name", Val(m).name) : e[2] = Val(m).name
  BY <1>1, LeafDict
<1> QED
  BY <1>2, UnionDict DEF ModuleTree

LEMMA FunctionHeads ==
  ASSUME NEW f
  PROVE  /\ IsDict(FunctionTree(f))
         /\ \A e \in FunctionTree(f) :
              /\ e[1][1] = "module" => e \in Under("module", ModuleTree(Val(f).module))
              /\ e[1][1] = "function" => e[2] = Val(f).function
              /\ e[1][1] = "ty_args" => e[2] = Val(f).ty_args
              /\ e[1][1] = "args" => e[2] = ArgsJson(f)
<1>1. "module" \in Names /\ "function" \in Names /\ "ty_args" \in Names /\ "args" \in Names
  BY KeyNames
<1>2. /\ IsDict(Leaf("function", Val(f).function))
      /\ \A e \in Leaf("function", Val(f).function) : e[1][1] = "function" /\ e[2] = Val(f).function
      /\ IsDict(Leaf("ty_args", Val(f).ty_args))
      /\ \A e \in Leaf("ty_args", Val(f).ty_args) : e[1][1] = "ty_args" /\ e[2] = Val(f).ty_args
      /\ IsDict(Leaf("args", ArgsJson(f)))
      /\ \A e \in Leaf("args", ArgsJson(f)) : e[1][1] = "args" /\ e[2] = ArgsJson(f)
  BY <1>1, LeafDict
<1>3. /\ IsDict(Under("module", ModuleTree(Val(f).module)))
      /\ \A e \in Under("module", ModuleTree(Val(f).module)) : e[1][1] = "module"
  BY <1>1, ModuleHeads, UnderDict
<1>4. IsDict(FunctionTree(f))
  BY <1>2, <1>3, UnionDict DEF FunctionTree
<1>5. ASSUME NEW e \in FunctionTree(f)
      PROVE  /\ e[1][1] = "module" => e \in Under("module", ModuleTree(Val(f).module))
             /\ e[1][1] = "function" => e[2] = Val(f).function
             /\ e[1][1] = "ty_args" => e[2] = Val(f).ty_args
             /\ e[1][1] = "args" => e[2] = ArgsJson(f)
  BY <1>2, <1>3 DEF FunctionTree
<1> QED
  BY <1>4, <1>5

LEMMA MultisigHeads ==
  ASSUME NEW c
  PROVE  /\ IsDict(MultisigTree(c))
         /\ \A e \in MultisigTree(c) :
              /\ e[1][1] = "multisig_address" => e[2] = Str(Val(Val(c).multisig_address))
              /\ e[1][1] = "transaction_payload" =>
                   e \in IF Inner(c) = None THEN Leaf("transaction_payload", None)
                         ELSE Under("transaction_payload", Under("EntryFunction", FunctionTree(Inner(Inner(c)))))
<1>1. "multisig_address" \in Names /\ "transaction_payload" \in Names /\ "EntryFunction" \in Names
  BY KeyNames
<1>2. /\ IsDict(Leaf("multisig_address", Str(Val(Val(c).multisig_address))))
      /\ \A e \in Leaf("multisig_address", Str(Val(Val(c).multisig_address))) :
           e[1][1] = "multisig_address" /\ e[2] = Str(Val(Val(c).multisig_address))
      /\ IsDict(Leaf("transaction_payload", None))
      /\ \A e \in Leaf("transaction_payload", None) : e[1][1] = "transaction_payload"
  BY <1>1, LeafDict
<1>3. IsDict(Under("EntryFunction", FunctionTree(Inner(Inner(c)))))
  BY <1>1, FunctionHeads, UnderDict
<1>4. /\ IsDict(Under("transaction_payload", Under("EntryFunction", FunctionTree(Inner(Inner(c))))))
      /\ \A e \in Under("transaction_payload", Under("EntryFunction", FunctionTree(Inner(Inner(c))))) :
           e[1][1] = "transaction_payload"
  BY <1>1, <1>3, UnderDict
<1>5. IsDict(MultisigTree(c))
  BY <1>2, <1>4, UnionDict DEF MultisigTree
<1> QED
  BY <1>2, <1>4, <1>5 DEF MultisigTree

LEMMA PayloadHeads ==
  ASSUME NEW c
  PROVE  /\ IsDict(PayloadTree(c))
         /\ \A e \in PayloadTree(c) :
              /\ e[1][1] = "EntryFunction" <=> Class(c) = "EntryFunction"
<1>1. "EntryFunction" \in Names /\ "Multisig" \in Names
  BY KeyNames
<1>2. /\ IsDict(Under("EntryFunction", FunctionTree(c)))
      /\ \A e \in Under("EntryFunction", FunctionTree(c)) : e[1][1] = "EntryFunction"
      /\ IsDict(Under("Multisig", MultisigTree(c)))
      /\ \A e \in Under("Multisig", MultisigTree(c)) : e[1][1] = "Multisig"
  BY <1>1, FunctionHeads, MultisigHeads, UnderDict
<1> QED
  BY <1>2 DEF PayloadTree

LEMMA RawHeads ==
  ASSUME NEW a, NEW n, NEW c
  PROVE  /\ IsDict(RawTree(a, n, c))
         /\ \A e \in RawTree(a, n, c) :
              /\ e[1][1] = "sender" => e[2] = Str(a)
              /\ e[1][1] = "sequence_number" => e[2] = Int(n)
              /\ e[1][1] = "payload" => e \in Under("payload", PayloadTree(c))
<1>1. {"sender", "sequence_number", "payload", "max_gas_amount", "gas_unit_price",
       "expiration_timestamp_secs", "chain_id"} \subseteq Names
  BY KeyNames
<1>2. /\ IsDict(Leaf("sender", Str(a))) /\ \A e \in Leaf("sender", Str(a)) : e[1][1] = "sender" /\ e[2] = Str(a)
      /\ IsDict(Leaf("sequence_number", Int(n)))
      /\ \A e \in Leaf("sequence_number", Int(n)) : e[1][1] = "sequence_number" /\ e[2] = Int(n)
  BY <1>1, LeafDict
<1>3. /\ IsDict(Leaf("max_gas_amount", MaxGas)) /\ \A e \in Leaf("max_gas_amount", MaxGas) : e[1][1] = "max_gas_amount"
      /\ IsDict(Leaf("gas_unit_price", GasPrice)) /\ \A e \in Leaf("gas_unit_price", GasPrice) : e[1][1] = "gas_unit_price"
      /\ IsDict(Leaf("expiration_timestamp_secs", Expiry))
      /\ \A e \in Leaf("expiration_timestamp_secs", Expiry) : e[1][1] = "expiration_timestamp_secs"
      /\ IsDict(Leaf("chain_id", ChainId)) /\ \A e \in Leaf("chain_id", ChainId) : e[1][1] = "chain_id"
  BY <1>1, LeafDict
<1>4. IsDict(Under("payload", PayloadTree(c))) /\ \A e \in Under("payload", PayloadTree(c)) : e[1][1] = "payload"
  BY <1>1, PayloadHeads, UnderDict
<1>5. IsDict(RawTree(a, n, c))
  BY <1>2, <1>3, <1>4, UnionDict DEF RawTree
<1>6. ASSUME NEW e \in RawTree(a, n, c)
      PROVE  /\ e[1][1] = "sender" => e[2] = Str(a)
             /\ e[1][1] = "sequence_number" => e[2] = Int(n)
             /\ e[1][1] = "payload" => e \in Under("payload", PayloadTree(c))
  BY <1>2, <1>3, <1>4 DEF RawTree
<1> QED
  BY <1>5, <1>6

LEMMA LeafIn == ASSUME NEW k, NEW v PROVE /\ <<<<k>>, v>> \in Leaf(k, v)
                                         /\ <<<<k>>, v>>[1][1] = k /\ <<<<k>>, v>>[2] = v
  BY DEF Leaf

LEMMA StrInjective == ASSUME NEW s, NEW t, Str(s) = Str(t) PROVE s = t
  BY DEF Str

\* The arguments are read back from their lists of numbers.
LEMMA ArgsInjective ==
  ASSUME NEW f, IsEntryFunction(f), NEW g, IsEntryFunction(g), ArgsJson(f) = ArgsJson(g)
  PROVE  [i \in DOMAIN Val(Val(f).args) |-> Val(Val(Val(f).args)[i])]
           = [i \in DOMAIN Val(Val(g).args) |-> Val(Val(Val(g).args)[i])]
<1>1. PICK p, q : p = Val(Val(f).args) /\ q = Val(Val(g).args)
  OBVIOUS
<1>2. [i \in DOMAIN p |-> <<"list", Val(p[i])>>] = [i \in DOMAIN q |-> <<"list", Val(q[i])>>]
  BY <1>1 DEF ArgsJson
<1>3. DOMAIN p = DOMAIN q
  BY <1>2
<1>4. ASSUME NEW i \in DOMAIN p PROVE Val(p[i]) = Val(q[i])
  <2>1. <<"list", Val(p[i])>> = <<"list", Val(q[i])>>
    BY <1>2, <1>3
  <2> QED
    BY <2>1
<1>5. [i \in DOMAIN p |-> Val(p[i])] = [i \in DOMAIN q |-> Val(q[i])]
  BY <1>3, <1>4
<1> QED
  BY <1>1, <1>5

LEMMA FunctionInjective ==
  ASSUME NEW f, IsEntryFunction(f), NEW g, IsEntryFunction(g), FunctionTree(f) \subseteq FunctionTree(g)
  PROVE  f = g
<1>1. Val(f).function = Val(g).function /\ Val(f).ty_args = Val(g).ty_args /\ ArgsJson(f) = ArgsJson(g)
  <2>1. Leaf("function", Val(f).function) \subseteq FunctionTree(g)
        /\ Leaf("ty_args", Val(f).ty_args) \subseteq FunctionTree(g)
        /\ Leaf("args", ArgsJson(f)) \subseteq FunctionTree(g)
    BY DEF FunctionTree
  <2>2. /\ <<<<"function">>, Val(f).function>> \in FunctionTree(g)
        /\ <<<<"ty_args">>, Val(f).ty_args>> \in FunctionTree(g)
        /\ <<<<"args">>, ArgsJson(f)>> \in FunctionTree(g)
    BY <2>1, LeafIn
  <2> QED
    BY <2>2, FunctionHeads, LeafIn
<1>2. Val(Val(f).module).name = Val(Val(g).module).name
  <2>1. "module" \in Names
    BY KeyNames
  <2>2. \A e \in Under("module", ModuleTree(Val(f).module)) : e[1][1] = "module"
    BY <2>1, ModuleHeads, UnderDict
  <2>3. Under("module", ModuleTree(Val(f).module)) \subseteq FunctionTree(g)
    BY DEF FunctionTree
  <2>4. Under("module", ModuleTree(Val(f).module)) \subseteq Under("module", ModuleTree(Val(g).module))
    BY <2>2, <2>3, FunctionHeads
  <2>5. ModuleTree(Val(f).module) \subseteq ModuleTree(Val(g).module)
    BY <2>1, <2>4, ModuleHeads, UnderSubset
  <2>6. <<<<"name">>, Val(Val(f).module).name>> \in ModuleTree(Val(g).module)
    BY <2>5, LeafIn DEF ModuleTree
  <2> QED
    BY <2>6, ModuleHeads, LeafIn
<1>3. [i \in DOMAIN Val(Val(f).args) |-> Val(Val(Val(f).args)[i])]
           = [i \in DOMAIN Val(Val(g).args) |-> Val(Val(Val(g).args)[i])]
  BY <1>1, ArgsInjective
<1>4. /\ f = create_entry_func(Val(Val(Val(f).module).name), Val(Val(f).function),
               [i \in DOMAIN Val(Val(f).args) |-> Val(Val(Val(f).args)[i])], Val(Val(f).ty_args))
      /\ g = create_entry_func(Val(Val(Val(g).module).name), Val(Val(g).function),
               [i \in DOMAIN Val(Val(g).args) |-> Val(Val(Val(g).args)[i])], Val(Val(g).ty_args))
  BY DEF IsEntryFunction
<1> QED
  BY <1>1, <1>2, <1>3, <1>4

LEMMA MultisigInjective ==
  ASSUME NEW c, IsMultisig(c), NEW d, IsMultisig(d), MultisigTree(c) \subseteq MultisigTree(d)
  PROVE  c = d
<1>0. "transaction_payload" \in Names /\ "EntryFunction" \in Names
  BY KeyNames
<1>1. Val(c).multisig_address = Val(d).multisig_address
  <2>1. <<<<"multisig_address">>, Str(Val(Val(c).multisig_address))>> \in MultisigTree(d)
    BY LeafIn DEF MultisigTree
  <2>2. Str(Val(Val(c).multisig_address)) = Str(Val(Val(d).multisig_address))
    BY <2>1, LeafIn, MultisigHeads
  <2> QED
    BY <2>2, StrInjective, MultisigFields
<1> DEFINE Below(x) == Under("EntryFunction", FunctionTree(Inner(Inner(x))))
<1>2. IsDict(Below(c)) /\ IsDict(Below(d))
  BY <1>0, FunctionHeads, UnderDict
<1>3. \A e \in Under("transaction_payload", Below(c)) : e[1][1] = "transaction_payload"
  BY <1>0, <1>2, UnderDict
<1>4. Inner(c) = Inner(d)
  <2>1. CASE Inner(c) = None
    <3>1. <<<<"transaction_payload">>, None>> \in MultisigTree(d)
      BY <2>1, LeafIn DEF MultisigTree
    <3>2. ASSUME Inner(d) # None PROVE FALSE
      <4>1. <<<<"transaction_payload">>, None>> \in Under("transaction_payload", Below(d))
        BY <3>1, <3>2, LeafIn, MultisigHeads
      <4> QED
        BY <1>0, <1>2, <4>1, UnderLonger, LeafIn
    <3> QED
      BY <2>1, <3>2
  <2>2. CASE Inner(c) # None
    <3>1. Under("transaction_payload", Below(c)) \subseteq MultisigTree(d)
      BY <2>2 DEF MultisigTree
    <3>2. PICK e : e \in Under("transaction_payload", Below(c))
      <4>1. FunctionTree(Inner(Inner(c))) # {}
        BY LeafIn DEF FunctionTree
      <4>2. Below(c) # {}
        BY <4>1 DEF Under
      <4> QED
        BY <4>2 DEF Under
    <3>3. Inner(d) # None
      <4> SUFFICES ASSUME Inner(d) = None PROVE FALSE
        OBVIOUS
      <4>1. e \in Leaf("transaction_payload", None)
        BY <1>3, <3>1, <3>2, MultisigHeads
      <4> QED
        BY <1>0, <1>2, <3>2, <4>1, UnderLonger, LeafDict
    <3>4. Under("transaction_payload", Below(c)) \subseteq Under("transaction_payload", Below(d))
      BY <1>3, <3>1, <3>3, MultisigHeads
    <3>5. Below(c) \subseteq Below(d)
      BY <1>0, <1>2, <3>4, UnderSubset
    <3>6. FunctionTree(Inner(Inner(c))) \subseteq FunctionTree(Inner(Inner(d)))
      BY <1>0, <3>5, FunctionHeads, UnderSubset
    <3>7. Inner(Inner(c)) = Inner(Inner(d))
      BY <2>2, <3>3, <3>6, MultisigFields, FunctionInjective
    <3> QED
      BY <2>2, <3>3, <3>7, MultisigFields
  <2> QED
    BY <2>1, <2>2
<1> QED
  BY <1>1, <1>4 DEF IsMultisig

\* So the node rebuilds no other transaction from the JSON of one.
LEMMA PayloadInjective ==
  ASSUME NEW c, Postable(c), NEW d, Postable(d), PayloadTree(c) \subseteq PayloadTree(d)
  PROVE  c = d
<1>0. "EntryFunction" \in Names /\ "Multisig" \in Names
  BY KeyNames
<1>1. PICK e : e \in PayloadTree(c)
  <2>1. FunctionTree(c) # {} /\ MultisigTree(c) # {}
    BY LeafIn DEF FunctionTree, MultisigTree
  <2> QED
    BY <2>1 DEF PayloadTree, Under
<1>2. Class(c) = "EntryFunction" <=> Class(d) = "EntryFunction"
  BY <1>1, PayloadHeads
<1>3. CASE IsEntryFunction(c)
  <2>1. IsEntryFunction(d) /\ PayloadTree(c) = Under("EntryFunction", FunctionTree(c))
        /\ PayloadTree(d) = Under("EntryFunction", FunctionTree(d))
    BY <1>2, <1>3, PostableFields DEF PayloadTree
  <2>2. FunctionTree(c) \subseteq FunctionTree(d)
    BY <1>0, <2>1, FunctionHeads, UnderSubset
  <2> QED
    BY <1>3, <2>1, <2>2, FunctionInjective
<1>4. CASE ~IsEntryFunction(c)
  <2>1. IsMultisig(c) /\ IsMultisig(d) /\ PayloadTree(c) = Under("Multisig", MultisigTree(c))
        /\ PayloadTree(d) = Under("Multisig", MultisigTree(d))
    BY <1>2, <1>4, PostableFields DEF PayloadTree
  <2>2. MultisigTree(c) \subseteq MultisigTree(d)
    BY <1>0, <2>1, MultisigHeads, UnderSubset
  <2> QED
    BY <2>1, <2>2, MultisigInjective
<1> QED
  BY <1>3, <1>4

LEMMA RawInjective ==
  ASSUME NEW a, NEW n, NEW c, Postable(c), NEW b, NEW m, NEW d, Postable(d),
         NEW D, D = RawTree(a, n, c), NEW E, E = RawTree(b, m, d), D \subseteq E
  PROVE  a = b /\ n = m /\ c = d
<1>1. <<<<"sender">>, Str(a)>> \in RawTree(b, m, d) /\ <<<<"sequence_number">>, Int(n)>> \in RawTree(b, m, d)
  BY LeafIn DEF RawTree
<1>2. Str(a) = Str(b) /\ Int(n) = Int(m)
  BY <1>1, LeafIn, RawHeads
<1>3. "payload" \in Names
  BY KeyNames
<1>4. \A e \in Under("payload", PayloadTree(c)) : e[1][1] = "payload"
  BY <1>3, PayloadHeads, UnderDict
<1>5. Under("payload", PayloadTree(c)) \subseteq RawTree(b, m, d)
  BY DEF RawTree
<1>6. Under("payload", PayloadTree(c)) \subseteq Under("payload", PayloadTree(d))
  BY <1>4, <1>5, RawHeads
<1>7. PayloadTree(c) \subseteq PayloadTree(d)
  BY <1>3, <1>6, PayloadHeads, UnderSubset
<1>8. n = m
  BY <1>2 DEF Int
<1> QED
  BY <1>2, <1>7, <1>8, StrInjective, PayloadInjective
-----------------------------------------------------------------------------
(***************************************************************************)
(* What can be sent.                                                       *)
(***************************************************************************)
AllJson(D) == \A e \in D : IsJson(e[2])

LEMMA LeafJson == ASSUME NEW k, NEW v, IsJson(v) PROVE AllJson(Leaf(k, v))
  BY DEF AllJson, Leaf

LEMMA UnderJson == ASSUME NEW key, NEW D, AllJson(D) PROVE AllJson(Under(key, D))
<1> SUFFICES ASSUME NEW x \in Under(key, D) PROVE IsJson(x[2])
  BY DEF AllJson
<1>1. PICK e \in D : x = <<<<key>> \o e[1], e[2]>>
  BY DEF Under
<1>2. x[2] = e[2] /\ IsJson(e[2])
  BY <1>1 DEF AllJson
<1> QED
  BY <1>2

LEMMA UnionJson == ASSUME NEW D, AllJson(D), NEW E, AllJson(E) PROVE AllJson(D \cup E)
  BY DEF AllJson

LEMMA Scalars == /\ \A s : IsJson(Str(s)) /\ \A n : IsJson(Int(n))
                 /\ IsJson(None) /\ IsJson(<<"list", <<>>>>)
<1>1. /\ \A s : Class(Str(s)) = "str" /\ \A n : Class(Int(n)) = "int" /\ Class(None) = "NoneType"
      /\ Class(<<"list", <<>>>>) = "list" /\ Val(<<"list", <<>>>>) = <<>>
  BY DEF Class, Val, Str, Int, None
<1>2. DOMAIN <<>> = {}
  OBVIOUS
<1> QED
  BY <1>1, <1>2 DEF IsJson

\* Functions without type arguments.
LEMMA FunctionSent ==
  ASSUME NEW f, IsEntryFunction(f), Val(f).ty_args = <<"list", <<>>>>
  PROVE  AllJson(FunctionTree(f))
<1>1. IsJson(Str("0x1")) /\ IsJson(Val(f).function) /\ IsJson(Val(Val(f).module).name) /\ IsJson(Val(f).ty_args)
  BY Scalars, FunctionFields DEF IsJson
<1>2. IsJson(ArgsJson(f))
  <2>1. PICK v : v = [i \in DOMAIN Val(Val(f).args) |-> <<"list", Val(Val(Val(f).args)[i])>>]
    OBVIOUS
  <2>2. Class(ArgsJson(f)) = "list" /\ Val(ArgsJson(f)) = v
    BY <2>1 DEF ArgsJson, Class, Val
  <2>3. \A i \in DOMAIN v : Class(v[i]) = "list"
    BY <2>1 DEF Class
  <2> QED
    BY <2>2, <2>3 DEF IsJson
<1>3. AllJson(ModuleTree(Val(f).module))
  BY <1>1, LeafJson, UnionJson DEF ModuleTree
<1>4. /\ AllJson(Under("module", ModuleTree(Val(f).module))) /\ AllJson(Leaf("function", Val(f).function))
      /\ AllJson(Leaf("ty_args", Val(f).ty_args)) /\ AllJson(Leaf("args", ArgsJson(f)))
  BY <1>1, <1>2, <1>3, LeafJson, UnderJson
<1> QED
  BY <1>4, UnionJson DEF FunctionTree

LEMMA PayloadSent ==
  ASSUME NEW c, Postable(c), IsEntryFunction(c) => Val(c).ty_args = <<"list", <<>>>>
  PROVE  AllJson(PayloadTree(c))
<1>1. CASE IsEntryFunction(c)
  <2>1. AllJson(Under("EntryFunction", FunctionTree(c)))
    BY <1>1, FunctionSent, UnderJson
  <2> QED
    BY <1>1, <2>1, FunctionFields DEF PayloadTree
<1>2. CASE IsMultisig(c)
  <2>1. AllJson(Leaf("multisig_address", Str(Val(Val(c).multisig_address)))) /\ AllJson(Leaf("transaction_payload", None))
    BY Scalars, LeafJson
  <2>2. ASSUME Inner(c) # None
        PROVE  AllJson(Under("transaction_payload", Under("EntryFunction", FunctionTree(Inner(Inner(c))))))
    BY <1>2, <2>2, MultisigFields, FunctionSent, UnderJson
  <2>3. AllJson(MultisigTree(c))
    BY <2>1, <2>2, UnionJson DEF MultisigTree
  <2>4. AllJson(Under("Multisig", MultisigTree(c)))
    BY <2>3, UnderJson
  <2> QED
    BY <1>2, <2>4, MultisigFields DEF PayloadTree
<1> QED
  BY <1>1, <1>2 DEF Postable

LEMMA RawSent ==
  ASSUME NEW a, NEW n, NEW c, Postable(c), IsEntryFunction(c) => Val(c).ty_args = <<"list", <<>>>>,
         NEW r, r = RawTransaction(a, n, c, ChainId)
  PROVE  Sendable(r)
<1>1. IsJson(MaxGas) /\ IsJson(GasPrice) /\ IsJson(Expiry) /\ IsJson(ChainId)
  BY IntClasses DEF IsJson
<1>2. /\ AllJson(Leaf("sender", Str(a))) /\ AllJson(Leaf("sequence_number", Int(n)))
      /\ AllJson(Under("payload", PayloadTree(c)))
  BY Scalars, LeafJson, PayloadSent, UnderJson
<1>3. /\ AllJson(Leaf("max_gas_amount", MaxGas)) /\ AllJson(Leaf("gas_unit_price", GasPrice))
      /\ AllJson(Leaf("expiration_timestamp_secs", Expiry)) /\ AllJson(Leaf("chain_id", ChainId))
  BY <1>1, LeafJson
<1>4. AllJson(RawTree(a, n, c))
  BY <1>2, <1>3 DEF RawTree, AllJson
<1> QED
  BY <1>4, RawEntries, RawFields DEF Sendable, AllJson

LEMMA UnderValue == ASSUME NEW key, NEW D, NEW p, NEW v, <<p, v>> \in D
                    PROVE <<<<key>> \o p, v>> \in Under(key, D)
<1>1. <<p, v>>[1] = p /\ <<p, v>>[2] = v
  OBVIOUS
<1>2. \A x : (\E e \in D : x = <<<<key>> \o e[1], e[2]>>) => x \in Under(key, D)
  BY DEF Under
<1> QED
  BY <1>1, <1>2

\* Compiled code is bytes, which json.dumps refuses.
LEMMA SentIsPostable ==
  ASSUME NEW a, NEW n, NEW c \in Contents, NEW id, NEW r, r = RawTransaction(a, n, c, id), Sendable(r)
  PROVE  id = ChainId /\ Postable(c)
<1>1. id = ChainId
  BY RawFields DEF Sendable
<1>2. ASSUME IsScript(c) PROVE FALSE
  <2>1. PICK v : v = Val(c)["code"] /\ Class(v) = "bytes"
    BY <1>2 DEF IsScript
  <2>2. Entry("code", v, FunctionDict) = Leaf("code", v)
    BY <2>1 DEF Entry, JsonKey
  <2>3. <<<<"code">>, v>> \in ContentDict(c)
    <3>1. "code" \in DOMAIN Val(c)
      BY <1>2 DEF IsScript
    <3>2. <<<<"code">>, v>> \in Entry("code", Val(c)["code"], FunctionDict)
      BY <2>1, <2>2, LeafIn
    <3> QED
      BY <3>1, <3>2 DEF ContentDict, Entries
  <2>4. PICK e : e \in Under("payload", Under(Class(c), ContentDict(c))) /\ e[2] = v
    <3>1. <<<<Class(c)>> \o <<"code">>, v>> \in Under(Class(c), ContentDict(c))
      BY <2>3, UnderValue
    <3>2. <<<<"payload">> \o (<<Class(c)>> \o <<"code">>), v>> \in Under("payload", Under(Class(c), ContentDict(c)))
      BY <3>1, UnderValue
    <3> QED
      BY <3>2
  <2>5. Entry("payload", TransactionPayload(c), ContentDict) = Under("payload", Under(Class(c), ContentDict(c)))
    <3>1. Class(TransactionPayload(c)) = "TransactionPayload" /\ Val(TransactionPayload(c)).value = c
      BY DEF TransactionPayload, Class, Val
    <3> QED
      BY <3>1 DEF Entry
  <2>6. e \in payload_to_dict(r)
    <3>1. "payload" \in DOMAIN Val(r) /\ Val(r)["payload"] = TransactionPayload(c)
      BY RawFields
    <3> QED
      BY <2>4, <2>5, <3>1 DEF payload_to_dict, Entries
  <2>7. IsJson(v)
    BY <2>4, <2>6 DEF Sendable
  <2> QED
    BY <2>1, <2>7 DEF IsJson
<1> QED
  BY <1>1, <1>2, ContentsAssumption DEF Postable
-----------------------------------------------------------------------------
(***************************************************************************)
(* What is signed.                                                         *)
(***************************************************************************)
LEMMA SameTokens ==
  ASSUME NEW S, NEW s \in Seq(S), NEW t \in Seq(S), Len(s) = Len(t), \A i \in 1 .. Len(s) : s[i] = t[i]
  PROVE  s = t
  OBVIOUS

LEMMA ConcatTwo == ASSUME NEW x, NEW y PROVE <<x>> \o <<y>> = <<x, y>>
<1> DEFINE S == {x, y}
<1>1. x \in S /\ y \in S
  OBVIOUS
<1> HIDE DEF S
<1>2. <<x>> \o <<y>> \in Seq(S) /\ Len(<<x>> \o <<y>>) = 2 /\ (<<x>> \o <<y>>)[1] = x /\ (<<x>> \o <<y>>)[2] = y
  BY <1>1
<1>3. ASSUME NEW s \in Seq(S), Len(s) = 2 PROVE s = <<s[1], s[2]>>
  BY <1>3
<1> QED
  BY <1>2, <1>3

LEMMA ConcatThree == ASSUME NEW x, NEW y, NEW z PROVE <<x>> \o (<<y, z>> \o <<>>) = <<x, y>> \o <<z>>
<1> DEFINE S == {x, y, z}
<1>1. x \in S /\ y \in S /\ z \in S
  OBVIOUS
<1> HIDE DEF S
<1>2. /\ <<x>> \o (<<y, z>> \o <<>>) \in Seq(S) /\ <<x, y>> \o <<z>> \in Seq(S)
      /\ Len(<<x>> \o (<<y, z>> \o <<>>)) = 3 /\ Len(<<x, y>> \o <<z>>) = 3
      /\ \A i \in 1 .. 3 : (<<x>> \o (<<y, z>> \o <<>>))[i] = (<<x, y>> \o <<z>>)[i]
  BY <1>1
<1> QED
  BY <1>2, SameTokens

Regrouped(x, y, z, u, v) == <<x>> \o (<<y, z>> \o <<u, v>>) = <<x, y>> \o <<z, u, v>>

LEMMA ConcatFive == ASSUME NEW x, NEW y, NEW z, NEW u, NEW v PROVE Regrouped(x, y, z, u, v)
<1> DEFINE S == {x, y, z, u, v}
<1>1. x \in S /\ y \in S /\ z \in S /\ u \in S /\ v \in S
  OBVIOUS
<1> HIDE DEF S
<1>2. /\ <<x>> \o (<<y, z>> \o <<u, v>>) \in Seq(S) /\ <<x, y>> \o <<z, u, v>> \in Seq(S)
      /\ Len(<<x>> \o (<<y, z>> \o <<u, v>>)) = 5 /\ Len(<<x, y>> \o <<z, u, v>>) = 5
  BY <1>1
<1>3. PICK s, t : s = <<x>> \o (<<y, z>> \o <<u, v>>) /\ t = <<x, y>> \o <<z, u, v>>
  OBVIOUS
<1>4. s[1] = x /\ s[2] = y /\ s[3] = z /\ s[4] = u /\ s[5] = v
  <2>0. /\ <<y, z>> \o <<u, v>> \in Seq(S) /\ Len(<<y, z>> \o <<u, v>>) = 4
        /\ (<<y, z>> \o <<u, v>>)[1] = y /\ (<<y, z>> \o <<u, v>>)[2] = z
        /\ (<<y, z>> \o <<u, v>>)[3] = u /\ (<<y, z>> \o <<u, v>>)[4] = v
    BY <1>1
  <2>1. PICK w \in Seq(S) : w = <<y, z>> \o <<u, v>> /\ w[1] = y /\ w[2] = z /\ w[3] = u /\ w[4] = v /\ Len(w) = 4
    BY <2>0
  <2>2. s = <<x>> \o w
    BY <1>3, <2>1, Zenon
  <2>3. s[1] = x /\ \A i \in 2 .. 5 : s[i] = w[i - 1]
    BY <1>1, <2>1, <2>2
  <2> QED
    BY <2>1, <2>3
<1>5. t[1] = x /\ t[2] = y /\ t[3] = z /\ t[4] = u /\ t[5] = v
  BY <1>1, <1>3
<1>6. \A i \in 1 .. 5 : i = 1 \/ i = 2 \/ i = 3 \/ i = 4 \/ i = 5
  OBVIOUS
<1>7. \A i \in 1 .. 5 : s[i] = t[i]
  BY <1>4, <1>5, <1>6
<1>8. s = t
  BY <1>2, <1>3, <1>7, SameTokens
<1> QED
  BY <1>3, <1>8 DEF Regrouped

\* The script's bytes of a payload are the node's.
LEMMA PayloadSigned ==
  ASSUME NEW c, Postable(c)
  PROVE  Serialize(TransactionPayload(c)) = PayloadBytes(c)
<1>1. Val(TransactionPayload(c)).value = c
  BY DEF TransactionPayload, Val
<1>2. CASE Class(c) = "EntryFunction"
  <2>1. Serialize(TransactionPayload(c)) = <<Tag(2)>> \o <<c>>
    BY <1>1, <1>2 DEF Serialize, Variant
  <2> QED
    BY <1>2, <2>1, ConcatTwo DEF PayloadBytes
<1>3. CASE Class(c) = "Multisig"
  <2> DEFINE addr == Val(c).multisig_address
  <2>2. CASE Inner(c) = None
    <3>1. Serialize(TransactionPayload(c)) = <<Tag(3)>> \o (<<addr, Bool(FALSE)>> \o <<>>)
      BY <1>1, <1>3, <2>2 DEF Serialize, Variant, SerializeMultisig
    <3>2. PayloadBytes(c) = <<Tag(3), addr>> \o <<Bool(FALSE)>>
      BY <1>3, <2>2 DEF PayloadBytes
    <3> QED
      BY <3>1, <3>2, ConcatThree
  <2>3. CASE Inner(c) # None
    <3>1. Serialize(TransactionPayload(c)) = <<Tag(3)>> \o (<<addr, Bool(TRUE)>> \o <<Tag(0), Inner(Inner(c))>>)
      BY <1>1, <1>3, <2>3 DEF Serialize, Variant, SerializeMultisig, SerializeMultiSigPayload
    <3>2. PayloadBytes(c) = <<Tag(3), addr>> \o <<Bool(TRUE), Tag(0), Inner(Inner(c))>>
      BY <1>3, <2>3 DEF PayloadBytes
    <3>3. PICK x, y, z, u, v : x = Tag(3) /\ y = addr /\ z = Bool(TRUE) /\ u = Tag(0) /\ v = Inner(Inner(c))
      OBVIOUS
    <3>4. Serialize(TransactionPayload(c)) = <<x>> \o (<<y, z>> \o <<u, v>>)
      BY <3>1, <3>3
    <3>5. PayloadBytes(c) = <<x, y>> \o <<z, u, v>>
      BY <3>2, <3>3
    <3>6. Regrouped(x, y, z, u, v)
      BY ConcatFive, Zenon
    <3> QED
      BY <3>4, <3>5, <3>6 DEF Regrouped
  <2> QED
    BY <2>2, <2>3
<1> QED
  BY <1>2, <1>3, PostableFields

LEMMA Signed ==
  ASSUME NEW a, NEW n, NEW c, Postable(c), NEW r, r = RawTransaction(a, n, c, ChainId)
  PROVE  keyed(r) = <<Str("SUPRA::RawTransaction")>> \o Fields(r, PayloadBytes(Payload(r)))
<1>1. supra_prehash(r) = Str("SUPRA::RawTransaction")
  BY RawFields DEF supra_prehash
<1>2. Serialize(Val(r).payload) = PayloadBytes(Payload(r))
  BY RawFields, PayloadSigned
<1> QED
  BY <1>1, <1>2 DEF keyed
-----------------------------------------------------------------------------
(***************************************************************************)
(* What the node does with a post.                                         *)
(***************************************************************************)
Kinds == {"Ed25519", "MultiEd25519"}

LEMMA AuthHeads ==
  ASSUME NEW kind \in Kinds, NEW key, NEW sig
  PROVE  /\ IsDict(AuthDict(kind, key, sig))
         /\ IsDict(Leaf("public_key", Str(key)) \cup Leaf("signature", Str(sig)))
         /\ \A e \in Leaf("public_key", Str(key)) \cup Leaf("signature", Str(sig)) :
              e[1][1] = "signature" => e[2] = Str(sig)
         /\ IsDict(Under("authenticator", AuthDict(kind, key, sig)))
         /\ \A e \in Under("authenticator", AuthDict(kind, key, sig)) : e[1][1] = "authenticator"
<1>1. "public_key" \in Names /\ "signature" \in Names /\ kind \in Names /\ "authenticator" \in Names
  BY KeyNames DEF Kinds
<1>2. /\ IsDict(Leaf("public_key", Str(key))) /\ \A e \in Leaf("public_key", Str(key)) : e[1][1] = "public_key"
      /\ IsDict(Leaf("signature", Str(sig))) /\ \A e \in Leaf("signature", Str(sig)) : e[2] = Str(sig)
  BY <1>1, LeafDict
<1>3. IsDict(Leaf("public_key", Str(key)) \cup Leaf("signature", Str(sig)))
  BY <1>2, UnionDict
<1>4. IsDict(AuthDict(kind, key, sig))
  BY <1>1, <1>3, UnderDict DEF AuthDict
<1>5. /\ IsDict(Under("authenticator", AuthDict(kind, key, sig)))
      /\ \A e \in Under("authenticator", AuthDict(kind, key, sig)) : e[1][1] = "authenticator"
  BY <1>1, <1>4, UnderDict
<1> QED
  BY <1>2, <1>3, <1>4, <1>5

\* The node reads the transaction of the post and no other.
LEMMA RebuiltAlone ==
  ASSUME NEW a \in Senders, NEW n \in SeqNums, NEW c \in Contents, Postable(c),
         NEW r, r = RawTransaction(a, n, c, ChainId),
         NEW kind \in Kinds, NEW key, NEW sig
  PROVE  Rebuilt(create_tx_dict(kind, key, sig, r)) = {r}
<1> DEFINE d == create_tx_dict(kind, key, sig, r)
           auth == Under("authenticator", AuthDict(kind, key, sig))
<1>1. d = Under("raw_txn", RawTree(a, n, c)) \cup auth
  BY RawEntries DEF create_tx_dict
<1>2. \A e \in auth : e[1][1] = "authenticator"
  BY AuthHeads
<1>3. "raw_txn" \in Names
  BY KeyNames
<1> HIDE DEF d, auth
<1>4. r \in Rebuilt(d)
  <2>1. r \in Raws /\ Class(Payload(r)) # "Script"
    BY RawFields, PostableFields DEF Raws
  <2>2. Under("raw_txn", RawJson(r)) \subseteq d
    BY <1>1, RawTreeJson
  <2> QED
    BY <2>1, <2>2 DEF Rebuilt
<1>5. ASSUME NEW q \in Rebuilt(d) PROVE q = r
  <2>1. q \in Raws /\ Class(Payload(q)) # "Script" /\ Under("raw_txn", RawJson(q)) \subseteq d
    BY DEF Rebuilt
  <2>2. PICK b \in Senders, m \in SeqNums, x \in Contents : q = RawTransaction(b, m, x, ChainId)
    BY <2>1 DEF Raws
  <2>3. Postable(x)
    <3>1. Class(x) # "Script"
      BY <2>1, <2>2, RawFields
    <3> QED
      BY <3>1, ContentsAssumption DEF IsScript, Postable
  <2>4. IsDict(RawTree(b, m, x)) /\ IsDict(RawTree(a, n, c))
    BY RawHeads
  <2>5. Under("raw_txn", RawTree(b, m, x)) \subseteq d
    BY <2>1, <2>2, RawTreeJson
  <2>6. \A e \in Under("raw_txn", RawTree(b, m, x)) : e[1][1] = "raw_txn"
    BY <1>3, <2>4, UnderDict
  <2>7. Under("raw_txn", RawTree(b, m, x)) \subseteq Under("raw_txn", RawTree(a, n, c))
    BY <1>1, <1>2, <2>5, <2>6
  <2>8. RawTree(b, m, x) \subseteq RawTree(a, n, c)
    BY <1>3, <2>4, <2>7, UnderSubset
  <2>9. PICK D, E : D = RawTree(b, m, x) /\ E = RawTree(a, n, c)
    OBVIOUS
  <2>10. b = a /\ m = n /\ x = c
    BY <2>3, <2>8, <2>9, RawInjective
  <2> QED
    BY <2>2, <2>10
<1>6. Rebuilt(d) = {r}
  BY <1>4, <1>5
<1> QED
  BY <1>6 DEF d

\* A post with the signature of its sender is good.
LEMMA SignedIsVerified ==
  ASSUME NEW a, NEW n, NEW c, Postable(c), NEW r, r = RawTransaction(a, n, c, ChainId)
  PROVE  Verified(r, create_tx_dict(IF a = Shared THEN "MultiEd25519" ELSE "Ed25519", a, Sign(a, r), r))
<1>1. SenderOf(r) = a
  BY RawFields
<1>2. Sign(a, r) = <<a, <<Str("SUPRA::RawTransaction")>> \o Fields(r, PayloadBytes(Payload(r)))>>
  BY Signed DEF Sign
<1> QED
  BY <1>1, <1>2 DEF Verified, create_tx_dict

\* One with another signature is not.
LEMMA UnsignedIsRefused ==
  ASSUME NEW a, a # Shared, a # RandomKey, NEW n, NEW c, Postable(c), NEW r, r = RawTransaction(a, n, c, ChainId)
  PROVE  ~Verified(r, create_tx_dict("Ed25519", a, Sign(RandomKey, r), r))
<1> SUFFICES ASSUME Verified(r, create_tx_dict("Ed25519", a, Sign(RandomKey, r), r)) PROVE FALSE
  OBVIOUS
<1> DEFINE good == <<a, <<Str("SUPRA::RawTransaction")>> \o Fields(r, PayloadBytes(Payload(r)))>>
           bad == Sign(RandomKey, r)
<1>1. bad # good
  BY DEF Sign
<1>2. "raw_txn" \in Names /\ "authenticator" \in Names /\ "Ed25519" \in Names /\ "Ed25519" \in Kinds
  BY KeyNames DEF Kinds
<1>3. Under("authenticator", AuthDict("Ed25519", a, good))
        \subseteq Under("raw_txn", RawTree(a, n, c)) \cup Under("authenticator", AuthDict("Ed25519", a, bad))
  <2>1. SenderOf(r) = a
    BY RawFields
  <2> QED
    BY <2>1, RawEntries DEF Verified, create_tx_dict
<1> HIDE DEF good, bad
<1>4. \A e \in Under("raw_txn", RawTree(a, n, c)) : e[1][1] = "raw_txn"
  BY <1>2, RawHeads, UnderDict
<1>5. \A e \in Under("authenticator", AuthDict("Ed25519", a, good)) : e[1][1] = "authenticator"
  BY <1>2, AuthHeads
<1>6. Under("authenticator", AuthDict("Ed25519", a, good)) \subseteq Under("authenticator", AuthDict("Ed25519", a, bad))
  BY <1>3, <1>4, <1>5
<1>7. AuthDict("Ed25519", a, good) \subseteq AuthDict("Ed25519", a, bad)
  BY <1>2, <1>6, AuthHeads, UnderSubset
<1>8. PICK D, E : D = Leaf("public_key", Str(a)) \cup Leaf("signature", Str(good))
                  /\ E = Leaf("public_key", Str(a)) \cup Leaf("signature", Str(bad))
  OBVIOUS
<1>9. IsDict(D) /\ IsDict(E) /\ \A e \in E : e[1][1] = "signature" => e[2] = Str(bad)
  BY <1>2, <1>8, AuthHeads
<1>10. Under("Ed25519", D) \subseteq Under("Ed25519", E)
  BY <1>7, <1>8 DEF AuthDict
<1>11. D \subseteq E
  BY <1>2, <1>9, <1>10, UnderSubset
<1>12. <<<<"signature">>, Str(good)>> \in E
  BY <1>8, <1>11, LeafIn
<1>13. Str(good) = Str(bad)
  BY <1>9, <1>12, LeafIn
<1> QED
  BY <1>1, <1>13, StrInjective
-----------------------------------------------------------------------------
(***************************************************************************)
(* The inductive invariant.                                                *)
(***************************************************************************)
\* A run has a transaction from create_raw_tx on.
RawInv ==
  /\ pc \in {"idle", "built", "simulated", "done", "raised"}
  /\ pc = "idle" => raw = NoTx
  /\ pc # "idle" => \E a \in Senders, n \in SeqNums, c \in Contents, id \in {ChainId, Garbled} :
                      raw = RawTransaction(a, n, c, id)

\* Only what can be sent is posted, each post with the signature it is for, and
\* the shared account simulates nothing.
PostedInv ==
  /\ pc \in {"idle", "built"} => posted = {}
  /\ pc = "simulated" => Sender \in Accounts
  /\ \A x \in posted :
       /\ Sendable(raw)
       /\ \/ Sender \in Accounts /\ x = <<"simulate", create_simulate_tx_dict(Sender, raw)>>
          \/ Sender \in Accounts /\ x = <<"submit", create_send_tx_dict(Sender, raw)>>
          \/ Sender = Shared /\ x = <<"submit", create_tx_dict("MultiEd25519", Shared, Sign(Shared, raw), raw)>>

RaisedInv == pc = "raised" => ~Sendable(raw)

HashInv == \A h \in hashes : h = <<h[1], compute_multisig_tx_payload_hash(h[1])>>

IInv == RawInv /\ PostedInv /\ RaisedInv /\ HashInv

LEMMA InitIInv == Init => IInv
BY DEF Init, IInv, RawInv, PostedInv, RaisedInv, HashInv

\* Hashing, building and restarting post nothing.
LEMMA QuietStep ==
  ASSUME IInv, propose \/ create_raw_tx \/ restart
  PROVE  IInv'
<1> USE DEF IInv
<1>1. CASE propose
  <2>1. PICK f \in EntryFunctions : hashes' = {<<f, compute_multisig_tx_payload_hash(f)>>}
    BY <1>1 DEF propose
  <2>2. pc' = pc /\ raw' = raw /\ posted' = posted /\ Sender' = Sender
    BY <1>1 DEF propose, Sender
  <2>3. HashInv'
    BY <2>1 DEF HashInv
  <2>4. RawInv' /\ PostedInv' /\ RaisedInv'
    BY <2>2 DEF RawInv, PostedInv, RaisedInv
  <2> QED
    BY <2>3, <2>4
<1>2. CASE create_raw_tx
  <2>1. PICK a \in Senders, n \in SeqNums, c \in Contents, id \in {ChainId, Garbled} : raw' = RawTransaction(a, n, c, id)
    BY <1>2 DEF create_raw_tx
  <2>2. pc' = "built" /\ posted' = {} /\ hashes' = hashes
    BY <1>2 DEF create_raw_tx
  <2>3. RawInv'
    BY <2>1, <2>2 DEF RawInv
  <2>4. PostedInv' /\ RaisedInv' /\ HashInv'
    BY <2>2 DEF PostedInv, RaisedInv, HashInv
  <2> QED
    BY <2>3, <2>4
<1>3. CASE restart
  BY <1>3 DEF restart, RawInv, PostedInv, RaisedInv, HashInv
<1> QED
  BY <1>1, <1>2, <1>3

\* A post, or the exception in front of it.
LEMMA PostStep ==
  ASSUME IInv, pc \in {"built", "simulated"}, NEW to, NEW body, NEW then \in {"simulated", "done"},
         Post(to, body, then),
         then = "simulated" => Sender \in Accounts,
         \/ Sender \in Accounts /\ <<to, body>> = <<"simulate", create_simulate_tx_dict(Sender, raw)>>
         \/ Sender \in Accounts /\ <<to, body>> = <<"submit", create_send_tx_dict(Sender, raw)>>
         \/ Sender = Shared /\ <<to, body>> =
              <<"submit", create_tx_dict("MultiEd25519", Shared, Sign(Shared, raw), raw)>>
  PROVE  IInv'
<1>1. raw' = raw /\ hashes' = hashes /\ Sender' = Sender
  BY DEF Post, Sender
<1>2. RawInv' /\ HashInv'
  BY <1>1 DEF IInv, RawInv, HashInv, Post
<1>3. CASE Sendable(raw)
  <2>1. posted' = posted \cup {<<to, body>>} /\ pc' = then
    BY <1>3 DEF Post
  <2>2. RaisedInv'
    BY <2>1 DEF RaisedInv
  <2>3. PostedInv'
    BY <1>1, <1>3, <2>1 DEF IInv, PostedInv
  <2> QED
    BY <1>2, <2>2, <2>3 DEF IInv
<1>4. CASE ~Sendable(raw)
  <2>1. posted' = posted /\ pc' = "raised"
    BY <1>4 DEF Post
  <2>2. RaisedInv'
    BY <1>1, <1>4, <2>1 DEF RaisedInv
  <2>3. PostedInv'
    BY <1>1, <2>1 DEF IInv, PostedInv
  <2> QED
    BY <1>2, <2>2, <2>3 DEF IInv
<1> QED
  BY <1>3, <1>4

LEMMA StepIInv == IInv /\ [Next]_vars => IInv'
<1> SUFFICES ASSUME IInv, [Next]_vars PROVE IInv'
  OBVIOUS
<1>1. CASE propose \/ create_raw_tx \/ restart
  BY <1>1, QuietStep
<1>2. CASE simulate_tx_json
  BY <1>2, PostStep DEF simulate_tx_json
<1>3. CASE submit_tx_json
  <2>1. Sender \in Accounts
    BY <1>3 DEF submit_tx_json, IInv, PostedInv
  <2> QED
    BY <1>3, <2>1, PostStep DEF submit_tx_json
<1>4. CASE submit_multisig_tx
  BY <1>4, PostStep DEF submit_multisig_tx
<1>5. CASE UNCHANGED vars
  BY <1>5 DEF vars, IInv, RawInv, PostedInv, RaisedInv, HashInv, Sender
<1> QED
  BY <1>1, <1>2, <1>3, <1>4, <1>5 DEF Next

\* A run has a transaction of its own, and what it has posted is that
\* transaction with the signature the post is for.
THEOREM Invariance == Spec => []IInv
BY InitIInv, StepIInv, PTL DEF Spec

\* The transaction of a run that has posted.
LEMMA PostedRaw ==
  ASSUME IInv, NEW x \in posted
  PROVE  \E a \in Senders, n \in SeqNums, c \in Contents :
           raw = RawTransaction(a, n, c, ChainId) /\ Postable(c) /\ a = Sender
<1>1. Sendable(raw) /\ pc # "idle"
  BY DEF IInv, PostedInv
<1>2. PICK a \in Senders, n \in SeqNums, c \in Contents, id \in {ChainId, Garbled} : raw = RawTransaction(a, n, c, id)
  BY <1>1 DEF IInv, RawInv
<1>3. id = ChainId /\ Postable(c)
  BY <1>1, <1>2, SentIsPostable
<1>4. a = Sender
  BY <1>2, RawFields DEF Sender
<1> QED
  BY <1>2, <1>3, <1>4

\* What is submitted is rebuilt and verified by the node as it was signed.
THEOREM SubmittedSigned == Spec => []SubmittedIsSigned
<1>1. IInv => SubmittedIsSigned
  <2> SUFFICES ASSUME IInv, NEW x \in posted, x[1] = "submit"
               PROVE  Rebuilt(x[2]) = {raw} /\ Verified(raw, x[2])
    BY DEF SubmittedIsSigned, Posted
  <2>1. PICK a \in Senders, n \in SeqNums, c \in Contents :
          raw = RawTransaction(a, n, c, ChainId) /\ Postable(c) /\ a = Sender
    BY PostedRaw
  <2>2. x[2] = create_tx_dict(IF a = Shared THEN "MultiEd25519" ELSE "Ed25519", a, Sign(a, raw), raw)
    BY <2>1, AccountsAssumption DEF IInv, PostedInv, create_send_tx_dict
  <2>3. "Ed25519" \in Kinds /\ "MultiEd25519" \in Kinds
    BY DEF Kinds
  <2>4. Rebuilt(x[2]) = {raw}
    BY <2>1, <2>2, <2>3, RebuiltAlone
  <2>5. Verified(raw, x[2])
    BY <2>1, <2>2, SignedIsVerified
  <2> QED
    BY <2>4, <2>5
<1> QED
  BY <1>1, Invariance, PTL

\* What is simulated is the same transaction with a signature of nobody's.
THEOREM SimulatedNotSubmittable == Spec => []SimulatedIsNotSubmittable
<1>1. IInv => SimulatedIsNotSubmittable
  <2> SUFFICES ASSUME IInv, NEW x \in posted, x[1] = "simulate"
               PROVE  Rebuilt(x[2]) = {raw} /\ ~Verified(raw, x[2])
    BY DEF SimulatedIsNotSubmittable, Posted
  <2>1. PICK a \in Senders, n \in SeqNums, c \in Contents :
          raw = RawTransaction(a, n, c, ChainId) /\ Postable(c) /\ a = Sender
    BY PostedRaw
  <2>2. x[2] = create_tx_dict("Ed25519", a, Sign(RandomKey, raw), raw) /\ a \in Accounts
    BY <2>1 DEF IInv, PostedInv, create_simulate_tx_dict
  <2>3. "Ed25519" \in Kinds /\ a # Shared /\ a # RandomKey
    BY <2>2, AccountsAssumption DEF Kinds
  <2>4. Rebuilt(x[2]) = {raw}
    BY <2>1, <2>2, <2>3, RebuiltAlone
  <2>5. ~Verified(raw, x[2])
    BY <2>1, <2>2, <2>3, UnsignedIsRefused
  <2> QED
    BY <2>4, <2>5
<1> QED
  BY <1>1, Invariance, PTL

\* The hash of a proposal is that of the transfer which is executed for it.
THEOREM ProposedIsExecuted == Spec => []ExecutesWhatWasProposed
<1>1. ASSUME NEW f PROVE compute_multisig_tx_payload_hash(f) = <<Tag(0), f>>
  BY DEF compute_multisig_tx_payload_hash, SerializeMultiSigPayload, MultiSigTransactionPayload, Inner, Val
<1>2. IInv => ExecutesWhatWasProposed
  <2> SUFFICES ASSUME IInv, NEW h \in hashes, NEW v
               PROVE  h[2] = PayloadHash(Inner(v)) <=> h[1] = Inner(Inner(v))
    BY DEF ExecutesWhatWasProposed
  <2>1. h[2] = <<Tag(0), h[1]>>
    <3>1. h = <<h[1], compute_multisig_tx_payload_hash(h[1])>>
      BY DEF IInv, HashInv
    <3> QED
      BY <1>1, <3>1
  <2> QED
    BY <2>1 DEF PayloadHash
<1> QED
  BY <1>2, Invariance, PTL

\* A script raises only for want of a chain id or of a JSON.
THEOREM RaisesExplained == Spec => []RaisedExplained
<1>1. IInv => RaisedExplained
  <2> SUFFICES ASSUME IInv, pc = "raised", Val(raw).chain_id # Garbled, Class(Payload(raw)) # "Script",
                      ~(Class(Payload(raw)) = "EntryFunction" /\ Val(Payload(raw)).ty_args # <<"list", <<>>>>)
               PROVE  FALSE
    BY DEF RaisedExplained
  <2>1. PICK a \in Senders, n \in SeqNums, c \in Contents, id \in {ChainId, Garbled} : raw = RawTransaction(a, n, c, id)
    BY DEF IInv, RawInv
  <2>2. id = ChainId /\ Payload(raw) = c
    BY <2>1, RawFields
  <2>3. Postable(c)
    BY <2>2, ContentsAssumption DEF IsScript, Postable
  <2>4. IsEntryFunction(c) => Val(c).ty_args = <<"list", <<>>>>
    BY <2>2, FunctionFields
  <2>5. Sendable(raw)
    BY <2>1, <2>2, <2>3, <2>4, RawSent
  <2> QED
    BY <2>5 DEF IInv, RaisedInv
<1> QED
  BY <1>1, Invariance, PTL

\* The tokens of a payload read back.
LEMMA NothingLeft ==
  ASSUME NEW S, NEW ts \in Seq(S)
  PROVE  /\ Len(ts) = 2 => From(ts, 3) = <<>>
         /\ Len(ts) = 4 => From(ts, 5) = <<>>
<1>1. ASSUME NEW i \in Nat, i = Len(ts) + 1 PROVE From(ts, i) = <<>>
  <2>1. SubSeq(ts, i, Len(ts)) \in Seq(S) /\ Len(SubSeq(ts, i, Len(ts))) = 0
    BY <1>1
  <2> QED
    BY <2>1 DEF From
<1>2. PICK i, j : i = 3 /\ j = 5
  OBVIOUS
<1>3. ASSUME Len(ts) = 2 PROVE From(ts, 3) = <<>>
  <2>1. i \in Nat /\ i = Len(ts) + 1
    BY <1>2, <1>3
  <2> QED
    BY <1>1, <1>2, <2>1
<1>4. ASSUME Len(ts) = 4 PROVE From(ts, 5) = <<>>
  <2>1. j \in Nat /\ j = Len(ts) + 1
    BY <1>2, <1>4
  <2> QED
    BY <1>1, <1>2, <2>1
<1> QED
  BY <1>3, <1>4

LEMMA SingleToken ==
  ASSUME NEW c, NEW tag \in {Tag(0), Tag(2)}
  PROVE  Deserialize(<<tag>> \o <<c>>) = <<TransactionPayload(c), <<>>>>
<1> DEFINE ts == <<tag>> \o <<c>>
           S == {tag, c}
<1>1. tag \in S /\ c \in S
  OBVIOUS
<1> HIDE DEF S
<1>2. ts \in Seq(S) /\ Len(ts) = 2 /\ ts[1] = tag /\ ts[2] = c
  BY <1>1
<1> HIDE DEF ts
<1>3. From(ts, 3) = <<>> /\ ts[1] # Tag(3)
  <2>1. Tag(3) # Tag(0) /\ Tag(3) # Tag(2)
    BY DEF Tag
  <2> QED
    BY <1>2, <2>1, NothingLeft
<1>4. Deserialize(ts) = <<TransactionPayload(<<c, <<>>>>[1]), <<c, <<>>>>[2]>>
  BY <1>2, <1>3 DEF Deserialize
<1>5. <<c, <<>>>>[1] = c /\ <<c, <<>>>>[2] = <<>>
  OBVIOUS
<1>6. Deserialize(ts) = <<TransactionPayload(c), <<>>>>
  BY <1>4, <1>5
<1> QED
  BY <1>6 DEF ts

LEMMA MultisigRead ==
  ASSUME NEW c, NEW S, NEW ts \in Seq(S), ts # <<>>, ts[1] = Tag(3),
         DeserializeMultisig(Tail(ts)) = <<c, <<>>>>
  PROVE  Deserialize(ts) = <<TransactionPayload(c), <<>>>>
<1>1. Tag(3) # Tag(0) /\ Tag(3) # Tag(2)
  BY DEF Tag
<1>2. Deserialize(ts) = <<TransactionPayload(<<c, <<>>>>[1]), <<c, <<>>>>[2]>>
  BY <1>1 DEF Deserialize
<1>3. <<c, <<>>>>[1] = c /\ <<c, <<>>>>[2] = <<>>
  OBVIOUS
<1> QED
  BY <1>2, <1>3

LEMMA MultisigRoundTrip ==
  ASSUME NEW c, IsMultisig(c)
  PROVE  Deserialize(PayloadBytes(c)) = <<TransactionPayload(c), <<>>>>
<1>1. PICK addr : addr = Val(c).multisig_address
  OBVIOUS
<1>2. Class(c) # "EntryFunction" /\ c = Multisig(addr, Inner(c))
  BY <1>1, MultisigFields DEF IsMultisig
<1>3. Bool(TRUE) # Bool(FALSE)
  BY DEF Bool
<1>4. CASE Inner(c) = None
  <2>1. PICK x, z : x = Tag(3) /\ z = Bool(FALSE)
    OBVIOUS
  <2>2. PICK ts : ts = <<x, addr>> \o <<z>>
    OBVIOUS
  <2>3. PayloadBytes(c) = ts
    BY <1>1, <1>2, <1>4, <2>1, <2>2 DEF PayloadBytes
  <2>4. PICK S : x \in S /\ addr \in S /\ z \in S
    <3>1. x \in {x, addr, z} /\ addr \in {x, addr, z} /\ z \in {x, addr, z}
      OBVIOUS
    <3> QED
      BY <3>1
  <2>5. ts \in Seq(S) /\ Len(ts) = 3 /\ ts[1] = x /\ ts[2] = addr /\ ts[3] = z
    BY <2>2, <2>4
  <2>6. Tail(ts) \in Seq(S) /\ Len(Tail(ts)) = 2 /\ Tail(ts)[1] = addr /\ Tail(ts)[2] = z
    BY <2>5
  <2>7. From(Tail(ts), 3) = <<>>
    BY <2>6, NothingLeft
  <2>8. DeserializeMultisig(Tail(ts)) = <<c, <<>>>>
    BY <1>2, <1>3, <1>4, <2>1, <2>6, <2>7 DEF DeserializeMultisig
  <2> QED
    BY <2>1, <2>3, <2>5, <2>8, MultisigRead
<1>5. CASE Inner(c) # None
  <2>1. PICK x, z, u, v : x = Tag(3) /\ z = Bool(TRUE) /\ u = Tag(0) /\ v = Inner(Inner(c))
    OBVIOUS
  <2>2. PICK ts : ts = <<x, addr>> \o <<z, u, v>>
    OBVIOUS
  <2>3. PayloadBytes(c) = ts
    BY <1>1, <1>2, <1>5, <2>1, <2>2 DEF PayloadBytes
  <2>4. PICK S : x \in S /\ addr \in S /\ z \in S /\ u \in S /\ v \in S
    <3>1. x \in {x, addr, z, u, v} /\ addr \in {x, addr, z, u, v} /\ z \in {x, addr, z, u, v}
          /\ u \in {x, addr, z, u, v} /\ v \in {x, addr, z, u, v}
      OBVIOUS
    <3> QED
      BY <3>1
  <2>5. ts \in Seq(S) /\ Len(ts) = 5 /\ ts[1] = x /\ ts[2] = addr /\ ts[3] = z /\ ts[4] = u /\ ts[5] = v
    BY <2>2, <2>4
  <2>6. Tail(ts) \in Seq(S) /\ Len(Tail(ts)) = 4 /\ Tail(ts)[1] = addr /\ Tail(ts)[2] = z /\ Tail(ts)[4] = v
    BY <2>5
  <2>7. From(Tail(ts), 5) = <<>>
    BY <2>6, NothingLeft
  <2>8. c = Multisig(addr, MultiSigTransactionPayload(v))
    BY <1>2, <1>5, <2>1, MultisigFields
  <2>9. DeserializeMultisig(Tail(ts)) = <<c, <<>>>>
    BY <2>1, <2>6, <2>7, <2>8 DEF DeserializeMultisig
  <2> QED
    BY <2>1, <2>3, <2>5, <2>9, MultisigRead
<1> QED
  BY <1>4, <1>5

\* Every payload reads back from its bytes as it was, with nothing left over.
THEOREM RoundTrip == Spec => []PayloadRoundTrip
<1>1. ASSUME NEW c \in Contents
      PROVE  Deserialize(Serialize(TransactionPayload(c))) = <<TransactionPayload(c), <<>>>>
  <2>1. Val(TransactionPayload(c)).value = c
    BY DEF TransactionPayload, Val
  <2>2. CASE IsEntryFunction(c)
    <3>1. Serialize(TransactionPayload(c)) = <<Tag(2)>> \o <<c>>
      BY <2>1, <2>2, FunctionFields DEF Serialize, Variant
    <3> QED
      BY <3>1, SingleToken
  <2>3. CASE IsScript(c)
    <3>1. Serialize(TransactionPayload(c)) = <<Tag(0)>> \o <<c>>
      BY <2>1, <2>3 DEF Serialize, Variant, IsScript
    <3> QED
      BY <3>1, SingleToken
  <2>4. CASE IsMultisig(c)
    BY <2>4, PayloadSigned, MultisigRoundTrip DEF Postable
  <2> QED
    BY <2>2, <2>3, <2>4, ContentsAssumption
<1>2. IInv => PayloadRoundTrip
  <2> SUFFICES ASSUME IInv, raw # NoTx
               PROVE  Deserialize(Serialize(Val(raw).payload)) = <<Val(raw).payload, <<>>>>
    BY DEF PayloadRoundTrip
  <2>1. PICK a \in Senders, n \in SeqNums, c \in Contents, id \in {ChainId, Garbled} : raw = RawTransaction(a, n, c, id)
    BY DEF IInv, RawInv
  <2>2. Val(raw).payload = TransactionPayload(c)
    BY <2>1, RawFields
  <2> QED
    BY <1>1, <2>2
<1> QED
  BY <1>2, Invariance, PTL
=============================================================================
