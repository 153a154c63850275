---------------------------- MODULE MultisigAuth ----------------------------
(***************************************************************************)
(* multisig_auth.py from the signing of the transaction on: the signatures *)
(* the script was edited to collect are verified locally, put into bytes   *)
(* by multisig_to_crypto_bytes and judged by the node.                     *)
(*                                                                         *)
(* The list pairs each signature with the position of a key, but the bytes *)
(* do not: the signatures come one after the other and a bitmap tells      *)
(* which positions they stand for.  An integer is the set of the exponents *)
(* of its binary digits, and a byte is such a set within 0 .. 7.           *)
(***************************************************************************)
EXTENDS Naturals, FiniteSets, Sequences

CONSTANTS NumKeys,    \* num_signers
          Threshold,  \* threshold
          MaxSigs     \* bound: the signatures in the list

BitmapBytes == 4      \* MultiSignature.BITMAP_NUM_OF_BYTES

ASSUME KeysAssumption ==
  /\ NumKeys \in 1 .. 32 /\ Threshold \in 1 .. NumKeys
  /\ MaxSigs \in Nat

Keys == 0 .. NumKeys - 1

VARIABLES pc,
          signatures,  \* the list: positions and who signed
          i,           \* the loop's position in it
          bitmap,      \* the loop's bitmap
          data,        \* the signatures put into the bytes
          bytes        \* the bitmap's bytes

vars == <<pc, signatures, i, bitmap, data, bytes>>

\* The list is whatever the script is edited to: any positions and signers.
Lists == UNION {[1 .. n -> [idx : Keys, by : Keys]] : n \in 0 .. MaxSigs}

Init ==
  /\ pc = "verify"
  /\ signatures \in Lists
  /\ i = 1 /\ bitmap = {} /\ data = <<>> /\ bytes = <<>>

\* MultiPublicKey.verify: each signature by the key at its position, and
\* enough of them.
Verifies(sigs) ==
  /\ Len(sigs) >= Threshold
  /\ \A n \in DOMAIN sigs : sigs[n].by = sigs[n].idx

\* A mutated form of the next definition, as "little" would be.
ToBytesLittle(n) == [k \in 1 .. BitmapBytes |-> {p \in 0 .. 7 : p + 8 * (k - 1) \in n}]

\* n.to_bytes(BitmapBytes, "big"): the first byte has the highest digits.
ToBytes(n) == [k \in 1 .. BitmapBytes |->
                 {p \in 0 .. 7 : p + 8 * (BitmapBytes - k) \in n}]

\* The node's view of the bytes: position 0 is the first byte's highest bit,
\* and the signatures belong to the set positions in ascending order.
HasBit(b, x) == 7 - (x % 8) \in b[x \div 8 + 1]
Positions(b) == {x \in 0 .. 8 * BitmapBytes - 1 : HasBit(b, x)}
Rank(b, x) == Cardinality({y \in Positions(b) : y <= x})
Accepts(d, b) ==
  /\ Positions(b) \subseteq Keys
  /\ Cardinality(Positions(b)) = Len(d) /\ Len(d) >= Threshold
  /\ \A x \in Positions(b) : d[Rank(b, x)] = x
-----------------------------------------------------------------------------
(***************************************************************************)
(* Mutated forms of the definitions below.                                 *)
(***************************************************************************)
\* Only the number of signatures is asserted.
VerifyCount ==
  /\ pc = "verify"
  /\ pc' = IF Len(signatures) >= Threshold THEN "extend" ELSE "refused"
  /\ UNCHANGED <<signatures, i, bitmap, data, bytes>>

\* The shift starts at 32, which leaves the four bytes.
ExtendTooFar ==
  /\ pc = "extend" /\ i <= Len(signatures)
  /\ bitmap' = bitmap \cup {32 - signatures[i].idx}
  /\ data' = Append(data, signatures[i].by)
  /\ i' = i + 1
  /\ UNCHANGED <<pc, signatures, bytes>>
-----------------------------------------------------------------------------
\* assert multisig_public_key.verify(raw_tx.keyed(), multisig_signature)
verify ==
  /\ pc = "verify"
  /\ pc' = IF Verifies(signatures) THEN "extend" ELSE "refused"
  /\ UNCHANGED <<signatures, i, bitmap, data, bytes>>

\* One round of the loop: the or of a digit that is set already changes nothing.
extend ==
  /\ pc = "extend" /\ i <= Len(signatures)
  /\ bitmap' = bitmap \cup {31 - signatures[i].idx}
  /\ data' = Append(data, signatures[i].by)
  /\ i' = i + 1
  /\ UNCHANGED <<pc, signatures, bytes>>

append_bitmap ==
  /\ pc = "extend" /\ i > Len(signatures)
  /\ bytes' = ToBytes(bitmap)
  /\ pc' = "submit"
  /\ UNCHANGED <<signatures, i, bitmap, data>>

\* The node takes the transaction or refuses it.
submit_tx_json ==
  /\ pc = "submit"
  /\ pc' = IF Accepts(data, bytes) THEN "accepted" ELSE "rejected"
  /\ UNCHANGED <<signatures, i, bitmap, data, bytes>>

Next == verify \/ extend \/ append_bitmap \/ submit_tx_json

Spec == Init /\ [][Next]_vars
-----------------------------------------------------------------------------
\* The variables have their types.
TypeOK ==
  /\ pc \in {"verify", "extend", "submit", "accepted", "rejected", "refused"}
  /\ signatures \in Lists
  /\ i \in 1 .. Len(signatures) + 1
  /\ bitmap \subseteq 0 .. 31
  /\ data \in Seq(Keys)
  /\ bytes = <<>> \/ bytes \in [1 .. BitmapBytes -> SUBSET (0 .. 7)]

\* The node reads from the four bytes exactly the positions in the list.
PositionsSurvive ==
  pc \in {"submit", "accepted", "rejected"} =>
    Positions(bytes) = {signatures[n].idx : n \in DOMAIN signatures}

\* Of the lists that pass the script's own assertion the node accepts those,
\* and only those, that name their positions in strictly ascending order:
\* a list in another order or with a repeated position verifies locally, and
\* its bytes assign signatures to the wrong keys or have too few digits.
AcceptedIfAscending ==
  /\ pc = "accepted" => /\ Verifies(signatures)
                        /\ \A m, n \in DOMAIN signatures :
                             m < n => signatures[m].idx < signatures[n].idx
  /\ pc = "rejected" => \E m, n \in DOMAIN signatures :
                             m < n /\ signatures[m].idx >= signatures[n].idx
=============================================================================
