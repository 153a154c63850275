------------------------------ MODULE TxCodec ------------------------------
(***************************************************************************)
(* What the scripts sign, hash and post: transaction_payload.py and the    *)
(* builders of transfer_supra.py, with the hash that propose_multisig_tx   *)
(* computes and the posts of send_tx and multisig_auth.                    *)
(*                                                                         *)
(* A transaction leaves a script twice, as the BCS bytes under its         *)
(* signature and as JSON.  The node sees the JSON only: it rebuilds the    *)
(* transaction, serializes it itself and checks the signature with that.   *)
(*                                                                         *)
(* A Python value is a pair of its class and its content, which for an     *)
(* object is the record of its attributes.  A JSON value is the set of its *)
(* leaves, each with the path of keys that leads to it.  Bytes are tokens; *)
(* what the SDK serializes as a whole is one token, as BCS is injective    *)
(* and delimits itself.  A hash is what is hashed.                         *)
(***************************************************************************)
EXTENDS Naturals, Sequences

CONSTANTS Accounts,   \* the accounts with a single key
          Shared,     \* the multi-key account of multisig_auth
          RandomKey,  \* the key that a simulation is signed with
          Contents,   \* the payload contents that are sent
          SeqNums,    \* the sequence numbers that are read
          NoTx

Class(v) == v[1]
Val(v) == v[2]
Payload(r) == Val(Val(r).payload).value
Inner(p) == Val(p).transaction_payload
SenderOf(r) == Val(Val(r).sender)
Int(n) == <<"int", n>>
Str(s) == <<"str", s>>
None == <<"NoneType", NoTx>>
Address(a) == <<"AccountAddress", a>>

TransactionPayload(v) == <<"TransactionPayload", [value |-> v]>>
MultiSigTransactionPayload(f) == <<"MultiSigTransactionPayload", [transaction_payload |-> f]>>
Multisig(a, p) == <<"Multisig", [multisig_address |-> a, transaction_payload |-> p]>>

\* EntryFunction.natural of the encoded arguments.
create_entry_func(module, function, args, type_args) ==
  <<"EntryFunction",
    [module |-> <<"ModuleId", [address |-> Address("0x1"), name |-> Str(module)]>>,
     function |-> Str(function), ty_args |-> <<"list", type_args>>,
     args |-> <<"list", [i \in DOMAIN args |-> <<"bytes", args[i]>>]>>]>>

\* The contents are built here: functions out of their parts, multisig payloads
\* with nothing or with a function that has no type arguments, and scripts.
IsEntryFunction(f) ==
  /\ Class(f) = "EntryFunction"
  /\ f = create_entry_func(Val(Val(Val(f).module).name), Val(Val(f).function),
            [i \in DOMAIN Val(Val(f).args) |-> Val(Val(Val(f).args)[i])], Val(Val(f).ty_args))

IsMultisig(c) ==
  /\ Class(c) = "Multisig" /\ c = Multisig(Address(Val(Val(c).multisig_address)), Inner(c))
  /\ Inner(c) # None =>
       LET f == Inner(Inner(c))
       IN /\ Inner(c) = MultiSigTransactionPayload(f)
          /\ IsEntryFunction(f) /\ Val(f).ty_args = <<"list", <<>>>>

IsScript(c) == /\ Class(c) = "Script"
               /\ "code" \in DOMAIN Val(c) /\ Class(Val(c).code) = "bytes"

ASSUME ContentsAssumption ==
  \A c \in Contents : IsEntryFunction(c) \/ IsMultisig(c) \/ IsScript(c)

\* The accounts have keys of their own.
ASSUME AccountsAssumption == Shared \notin Accounts /\ RandomKey \notin Accounts

\* max_gas, the price and the expiry are the same in all transactions here.
MaxGas == Int(500000)
GasPrice == Int(100)
Expiry == Int(300)

\* A chain id that could not be read is {}.
RawTransaction(a, n, content, chain_id) ==
  <<"RawTransaction",
    [sender |-> Address(a), sequence_number |-> Int(n),
     payload |-> TransactionPayload(content),
     max_gas_amount |-> MaxGas, gas_unit_price |-> GasPrice,
     expiration_timestamps_secs |-> Expiry, chain_id |-> chain_id]>>

ChainId == Int(6)
Garbled == <<"dict", {}>>
Senders == Accounts \cup {Shared}
Raws == {RawTransaction(a, n, c, ChainId) : a \in Senders, n \in SeqNums, c \in Contents}
EntryFunctions == {c \in Contents : Class(c) = "EntryFunction"}

VARIABLES pc,
          raw,     \* the transaction of the current script run
          posted,  \* what this run has posted, and where to
          hashes   \* the hashes of proposals, with what was proposed

vars == <<pc, raw, posted, hashes>>
-----------------------------------------------------------------------------
(***************************************************************************)
(* BCS.  Mutated forms of definitions stand in front of them.              *)
(***************************************************************************)
Tag(n) == <<"uleb128", n>>
Bool(b) == <<"bool", b>>

Variant(v) == CASE Class(v) = "Script" -> 0
                [] Class(v) = "EntryFunction" -> 2
                [] Class(v) = "Multisig" -> 3

\* The entry function itself, without the variant in front of it.
SerializeBareMultiSigPayload(p) == <<Inner(p)>>

SerializeMultiSigPayload(p) == <<Tag(0), Inner(p)>>

SerializeMultisig(m) ==
  LET p == Inner(m)
  IN <<Val(m).multisig_address, Bool(p # None)>>
     \o IF p = None THEN <<>> ELSE SerializeMultiSigPayload(p)

Serialize(payload) ==
  LET v == Val(payload).value
  IN <<Tag(Variant(v))>> \o IF Class(v) = "Multisig" THEN SerializeMultisig(v) ELSE <<v>>

\* The value at the front of the tokens, and the tokens behind it.
From(ts, i) == SubSeq(ts, i, Len(ts))

\* The variant of the inner payload is not skipped.
DeserializeMultisigFlat(ts) ==
  IF ts[2] = Bool(TRUE)
  THEN <<Multisig(ts[1], MultiSigTransactionPayload(ts[3])), From(ts, 4)>>
  ELSE <<Multisig(ts[1], None), From(ts, 3)>>

DeserializeMultisig(ts) ==
  IF ts[2] = Bool(TRUE)
  THEN <<Multisig(ts[1], MultiSigTransactionPayload(ts[4])), From(ts, 5)>>
  ELSE <<Multisig(ts[1], None), From(ts, 3)>>

Deserialize(ts) ==
  LET r == CASE ts[1] \in {Tag(0), Tag(2)} -> <<ts[2], From(ts, 3)>>
             [] ts[1] = Tag(3) -> DeserializeMultisig(Tail(ts))
             [] OTHER -> <<None, ts>>
  IN <<TransactionPayload(r[1]), r[2]>>

\* RawTransaction.serialize writes the fields in this order, behind a salt
\* that Supra has of its own for each class of transaction.
supra_prehash(r) == IF Class(r) = "MultiAgentRawTransaction"
                    THEN Str("SUPRA::RawTransactionWithData") ELSE Str("SUPRA::RawTransaction")

Fields(r, payload) ==
  <<Val(r).sender, Val(r).sequence_number>> \o payload \o
  <<Val(r).max_gas_amount, Val(r).gas_unit_price,
    Val(r).expiration_timestamps_secs, Val(r).chain_id>>

keyed(r) == <<supra_prehash(r)>> \o Fields(r, Serialize(Val(r).payload))

\* propose: what is hashed.
compute_multisig_tx_payload_hash(f) == SerializeMultiSigPayload(MultiSigTransactionPayload(f))
-----------------------------------------------------------------------------
(***************************************************************************)
(* JSON.                                                                   *)
(***************************************************************************)
Under(key, d) == {<<<<key>> \o e[1], e[2]>> : e \in d}
Leaf(key, v) == {<<<<key>>, v>>}

\* Mutated: the attribute keeps its name, and the arguments stay bytes.
KeyOfSdk(k) == k
Unlisted(item) == item

\* The name of an attribute in the JSON.
JsonKey(k) == IF k = "expiration_timestamps_secs" THEN "expiration_timestamp_secs" ELSE k

\* list(item): bytes become numbers; an object of the SDK cannot be iterated.
AsList(item) == IF Class(item) = "bytes" THEN <<"list", Val(item)>> ELSE item

\* One round of payload_to_dict's loop.
Entry(k, v, ToDict(_)) ==
  CASE Class(v) = "TransactionPayload" ->
         Under(k, Under(Class(Val(v).value), ToDict(Val(v).value)))
    [] Class(v) = "MultiSigTransactionPayload" ->
         Under(k, Under("EntryFunction", ToDict(Inner(v))))
    [] Class(v) = "AccountAddress" -> Leaf(k, Str(Val(v)))
    [] k = "args" -> Leaf(k, <<"list", [i \in DOMAIN Val(v) |-> AsList(Val(v)[i])]>>)
    [] Class(v) = "ModuleId" -> Under(k, ToDict(v))
    [] OTHER -> Leaf(JsonKey(k), v)

Entries(o, ToDict(_)) == UNION {Entry(k, Val(o)[k], ToDict) : k \in DOMAIN Val(o)}

\* A module in a function in a multisig payload in a transaction: the
\* recursion is four deep.
ModuleDict(o) == Entries(o, LAMBDA x : {})
FunctionDict(o) == Entries(o, ModuleDict)
ContentDict(o) == Entries(o, FunctionDict)
payload_to_dict(o) == Entries(o, ContentDict)

\* A signature is who signed and what.
Sign(key, r) == <<key, keyed(r)>>

\* auth_to_dict of an Ed25519 authenticator; multisig_auth writes the other
\* kind by hand.
AuthDict(kind, key, sig) == Under(kind, Leaf("public_key", Str(key)) \cup Leaf("signature", Str(sig)))

create_tx_dict(kind, key, sig, r) ==
  Under("raw_txn", payload_to_dict(r)) \cup Under("authenticator", AuthDict(kind, key, sig))

create_send_tx_dict(a, r) == create_tx_dict("Ed25519", a, Sign(a, r), r)
create_simulate_tx_dict(a, r) == create_tx_dict("Ed25519", a, Sign(RandomKey, r), r)

\* The u8 of the chain id and json.dumps raise unless it can be sent.
IsJson(v) == \/ Class(v) \in {"int", "str", "NoneType"}
             \/ Class(v) = "list" /\ \A i \in DOMAIN Val(v) : Class(Val(v)[i]) = "list"
Sendable(r) == /\ Val(r).chain_id = ChainId
               /\ \A e \in payload_to_dict(r) : IsJson(e[2])
-----------------------------------------------------------------------------
(***************************************************************************)
(* The node: serde's JSON, BCS and the check of a signature.               *)
(***************************************************************************)
FunctionJson(f) ==
  {<<<<"module", "address">>, Str("0x1")>>,
   <<<<"module", "name">>, Val(Val(f).module).name>>,
   <<<<"function">>, Val(f).function>>, <<<<"ty_args">>, Val(f).ty_args>>,
   <<<<"args">>, <<"list", [i \in DOMAIN Val(Val(f).args) |->
                             <<"list", Val(Val(Val(f).args)[i])>>]>>>>}

PayloadJson(v) ==
  IF Class(v) = "EntryFunction" THEN Under("EntryFunction", FunctionJson(v))
  ELSE LET p == Inner(v)
       IN Under("Multisig",
            Leaf("multisig_address", Str(Val(Val(v).multisig_address)))
            \cup IF p = None THEN Leaf("transaction_payload", None)
                 ELSE Under("transaction_payload",
                        Under("EntryFunction", FunctionJson(Inner(p)))))

RawJson(r) ==
  Leaf("sender", Str(SenderOf(r)))
  \cup Leaf("expiration_timestamp_secs", Val(r).expiration_timestamps_secs)
  \cup Under("payload", PayloadJson(Payload(r)))
  \cup UNION {Leaf(k, Val(r)[k]) :
               k \in {"sequence_number", "max_gas_amount", "gas_unit_price", "chain_id"}}

\* No payload with compiled code gets to the node.
Rebuilt(d) == {r \in Raws : /\ Class(Payload(r)) # "Script"
                            /\ Under("raw_txn", RawJson(r)) \subseteq d}

PayloadBytes(v) ==
  IF Class(v) = "EntryFunction" THEN <<Tag(2), v>>
  ELSE LET p == Inner(v)
       IN <<Tag(3), Val(v).multisig_address>>
          \o IF p = None THEN <<Bool(FALSE)>>
             ELSE <<Bool(TRUE), Tag(0), Inner(p)>>

\* The signature is over the transaction that was rebuilt and by its sender.
Verified(r, d) ==
  LET a == SenderOf(r)
  IN Under("authenticator",
       AuthDict(IF a = Shared THEN "MultiEd25519" ELSE "Ed25519", a,
         <<a, <<Str("SUPRA::RawTransaction")>>
              \o Fields(r, PayloadBytes(Payload(r)))>>)) \subseteq d

\* multisig_account compares the hash of a proposal with this one.
PayloadHash(p) == <<Tag(0), Inner(p)>>
-----------------------------------------------------------------------------
(***************************************************************************)
(* The scripts.                                                            *)
(***************************************************************************)
Init == pc = "idle" /\ raw = NoTx /\ posted = {} /\ hashes = {}

\* propose hashes the transfer before it sends anything.
propose ==
  /\ pc = "idle"
  /\ \E f \in EntryFunctions : hashes' = {<<f, compute_multisig_tx_payload_hash(f)>>}
  /\ UNCHANGED <<pc, raw, posted>>

create_raw_tx ==
  /\ pc = "idle"
  /\ \E a \in Senders, n \in SeqNums, c \in Contents, reply \in {ChainId, Garbled} :
       raw' = RawTransaction(a, n, c, reply)
  /\ pc' = "built" /\ posted' = {} /\ UNCHANGED hashes

Sender == SenderOf(raw)
Post(to, body, then) ==
  /\ IF Sendable(raw) THEN posted' = posted \cup {<<to, body>>} /\ pc' = then
                      ELSE pc' = "raised" /\ UNCHANGED posted
  /\ UNCHANGED <<raw, hashes>>

\* The simulation is signed with the sender's key as well.
simulate_with_own_key ==
  /\ pc = "built" /\ Sender \in Accounts
  /\ Post("simulate", create_send_tx_dict(Sender, raw), "simulated")

\* send_tx simulates and then submits.
simulate_tx_json ==
  /\ pc = "built" /\ Sender \in Accounts
  /\ Post("simulate", create_simulate_tx_dict(Sender, raw), "simulated")

submit_tx_json ==
  /\ pc = "simulated"
  /\ Post("submit", create_send_tx_dict(Sender, raw), "done")

\* multisig_auth submits at once, with the signatures of the shared account.
submit_multisig_tx ==
  /\ pc = "built" /\ Sender = Shared
  /\ Post("submit", create_tx_dict("MultiEd25519", Shared, Sign(Shared, raw), raw), "done")

\* The script ends and another one is run.
restart ==
  /\ pc \in {"done", "raised"}
  /\ pc' = "idle" /\ raw' = NoTx /\ posted' = {} /\ UNCHANGED hashes

Next == \/ propose \/ create_raw_tx \/ simulate_tx_json \/ submit_tx_json
        \/ submit_multisig_tx \/ restart

Spec == Init /\ [][Next]_vars
-----------------------------------------------------------------------------
Posted(to) == {e[2] : e \in {x \in posted : x[1] = to}}

\* Whatever is submitted, the node rebuilds from its JSON the transaction that
\* the script built, and the signature made over the script's bytes is one
\* over the node's.
SubmittedIsSigned ==
  \A d \in Posted("submit") : Rebuilt(d) = {raw} /\ Verified(raw, d)

\* What is simulated is the transaction that will be submitted, but the post
\* is not good for a submission.
SimulatedIsNotSubmittable ==
  \A d \in Posted("simulate") : Rebuilt(d) = {raw} /\ ~Verified(raw, d)

\* A transfer that is executed has the hash that was proposed exactly if it is
\* the transfer that was proposed, although two scripts in two terminals
\* build and serialize it.
ExecutesWhatWasProposed ==
  raw # NoTx =>
    LET v == Payload(raw)
    IN Class(v) = "Multisig" /\ Inner(v) # None =>
         \A h \in hashes :
           h[2] = PayloadHash(Inner(v))
             <=> h[1] = Inner(Inner(v))

\* Reading back what was written gives the payload and leaves nothing over.
PayloadRoundTrip ==
  raw # NoTx => Deserialize(Serialize(Val(raw).payload)) = <<Val(raw).payload, <<>>>>

\* A script fails on the way to the node only for want of a chain id, or with
\* a payload that payload_to_dict has no JSON for: compiled code, or a
\* function with type arguments.
RaisedExplained ==
  pc = "raised" =>
    LET v == Payload(raw)
    IN \/ Val(raw).chain_id = Garbled
       \/ Class(v) = "Script"
       \/ Class(v) = "EntryFunction" /\ Val(v).ty_args # <<"list", <<>>>>
=============================================================================
