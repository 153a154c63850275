------------------------ MODULE MnemonicStore_proofs ------------------------
(***************************************************************************)
(* Proofs about MnemonicStore, for any runs, passwords and devices and for *)
(* fields of any lengths, as long as the runs do not overlap.              *)
(***************************************************************************)
EXTENDS MnemonicStore, FiniteSetTheorems, TLAPS

-----------------------------------------------------------------------------
(***************************************************************************)
(* Slices of concatenations.                                               *)
(***************************************************************************)
LEMMA MinOfTwo ==
  ASSUME NEW m \in Nat, NEW n \in Nat, m <= n
  PROVE  Min({m, n}) = m
<1>1. m \in {m, n} /\ \A y \in {m, n} : m <= y
  OBVIOUS
<1>2. \A x \in {m, n} : (\A y \in {m, n} : x <= y) => x = m
  OBVIOUS
<1> QED
  BY <1>1, <1>2 DEF Min

\* A slice within the front of a concatenation is a slice of the front.
LEMMA SliceFront ==
  ASSUME NEW s \in Seq(Byte), NEW t \in Seq(Byte),
         NEW a \in 1 .. Len(s) + 1, NEW b \in 0 .. Len(s)
  PROVE  SubSeq(s \o t, a, b) = SubSeq(s, a, b)
  OBVIOUS

\* What was appended is the slice behind the front.
LEMMA SliceBack ==
  ASSUME NEW s \in Seq(Byte), NEW t \in Seq(Byte)
  PROVE  SubSeq(s \o t, Len(s) + 1, Len(s) + Len(t)) = t
  OBVIOUS

LEMMA LenType == ASSUME NEW s \in Seq(Byte) PROVE Len(s) \in Nat
  OBVIOUS

LEMMA ConcatType ==
  ASSUME NEW s \in Seq(Byte), NEW t \in Seq(Byte)
  PROVE  s \o t \in Seq(Byte) /\ Len(s \o t) = Len(s) + Len(t)
  OBVIOUS

LEMMA SliceWhole ==
  ASSUME NEW s \in Seq(Byte)
  PROVE  SubSeq(s, 1, Len(s)) = s
  OBVIOUS

\* salt + nonce + ciphertext
LEMMA ThreeParts ==
  ASSUME NEW a \in Seq(Byte), NEW b \in Seq(Byte), NEW c \in Seq(Byte),
         NEW d, d = a \o b \o c
  PROVE  /\ d \in Seq(Byte) /\ Len(d) = Len(a) + Len(b) + Len(c)
         /\ SubSeq(d, 1, Len(a)) = a
         /\ SubSeq(d, Len(a) + 1, Len(a) + Len(b)) = b
         /\ SubSeq(d, Len(a) + Len(b) + 1, Len(d)) = c
<1> DEFINE ab == a \o b
<1>0. Len(a) \in Nat /\ Len(b) \in Nat /\ Len(c) \in Nat
  BY LenType
<1>1. ab \in Seq(Byte) /\ Len(ab) = Len(a) + Len(b)
  BY ConcatType
<1>2. SubSeq(ab, 1, Len(a)) = a /\ SubSeq(ab, Len(a) + 1, Len(a) + Len(b)) = b
  BY <1>0, SliceFront, SliceWhole, SliceBack
<1> HIDE DEF ab
<1>3. d = ab \o c
  BY DEF ab
<1>4. d \in Seq(Byte) /\ Len(d) = Len(ab) + Len(c)
  BY <1>1, <1>3, ConcatType
<1>5. SubSeq(d, Len(ab) + 1, Len(ab) + Len(c)) = c
  BY <1>1, <1>3, SliceBack
<1>6. \A i \in 1 .. Len(ab) + 1, j \in 0 .. Len(ab) : SubSeq(d, i, j) = SubSeq(ab, i, j)
  BY <1>1, <1>3, SliceFront
<1>7. /\ 1 \in 1 .. Len(ab) + 1 /\ Len(a) + 1 \in 1 .. Len(ab) + 1
      /\ Len(a) \in 0 .. Len(ab) /\ Len(a) + Len(b) \in 0 .. Len(ab)
  BY <1>0, <1>1
<1>8. SubSeq(d, 1, Len(a)) = a /\ SubSeq(d, Len(a) + 1, Len(a) + Len(b)) = b
  BY <1>2, <1>6, <1>7
<1> QED
  BY <1>1, <1>4, <1>5, <1>8

\* credential_id + fido2_salt + password_salt + nonce + ciphertext
ConsistsOf(d, a, b, c, e, g) ==
  /\ d \in Seq(Byte) /\ Len(d) = Len(a) + Len(b) + Len(c) + Len(e) + Len(g)
  /\ SubSeq(d, 1, Len(a)) = a
  /\ SubSeq(d, Len(a) + 1, Len(a) + Len(b)) = b
  /\ SubSeq(d, Len(a) + Len(b) + 1, Len(a) + Len(b) + Len(c)) = c
  /\ SubSeq(d, Len(a) + Len(b) + Len(c) + 1, Len(a) + Len(b) + Len(c) + Len(e)) = e
  /\ SubSeq(d, Len(a) + Len(b) + Len(c) + Len(e) + 1, Len(d)) = g

LEMMA FiveParts ==
  ASSUME NEW a \in Seq(Byte), NEW b \in Seq(Byte), NEW c \in Seq(Byte), NEW e \in Seq(Byte),
         NEW g \in Seq(Byte), NEW d, d = a \o b \o c \o e \o g
  PROVE  ConsistsOf(d, a, b, c, e, g)
<1> DEFINE abc == a \o b \o c
<1>0. /\ Len(a) \in Nat /\ Len(b) \in Nat /\ Len(c) \in Nat /\ Len(e) \in Nat /\ Len(g) \in Nat
  BY LenType
<1>1. /\ abc \in Seq(Byte) /\ Len(abc) = Len(a) + Len(b) + Len(c)
      /\ SubSeq(abc, 1, Len(a)) = a
      /\ SubSeq(abc, Len(a) + 1, Len(a) + Len(b)) = b
      /\ SubSeq(abc, Len(a) + Len(b) + 1, Len(abc)) = c
  BY ThreeParts
<1> HIDE DEF abc
<1>2. d = abc \o e \o g
  BY DEF abc
<1>3. /\ d \in Seq(Byte) /\ Len(d) = Len(abc) + Len(e) + Len(g)
      /\ SubSeq(d, Len(abc) + 1, Len(abc) + Len(e)) = e
      /\ SubSeq(d, Len(abc) + Len(e) + 1, Len(d)) = g
  <2>1. abc \in Seq(Byte)
    BY <1>1
  <2> QED
    BY <2>1, <1>2, ThreeParts
<1>4. abc \o e \in Seq(Byte) /\ Len(abc \o e) = Len(abc) + Len(e)
  BY <1>1, ConcatType
<1>5. ASSUME NEW i \in 1 .. Len(abc) + 1, NEW j \in 0 .. Len(abc)
      PROVE  SubSeq(d, i, j) = SubSeq(abc, i, j)
  <2>0. Len(abc) \in Nat
    BY <1>0, <1>1
  <2>1. i \in 1 .. Len(abc \o e) + 1 /\ j \in 0 .. Len(abc \o e)
    BY <1>0, <1>4, <2>0
  <2>2. SubSeq(d, i, j) = SubSeq(abc \o e, i, j)
    BY <1>2, <1>4, <2>1, SliceFront
  <2>3. SubSeq(abc \o e, i, j) = SubSeq(abc, i, j)
    BY <1>1, SliceFront
  <2> QED
    BY <2>2, <2>3
<1>6. /\ 1 \in 1 .. Len(abc) + 1 /\ Len(a) + 1 \in 1 .. Len(abc) + 1
      /\ Len(a) + Len(b) + 1 \in 1 .. Len(abc) + 1
      /\ Len(a) \in 0 .. Len(abc) /\ Len(a) + Len(b) \in 0 .. Len(abc)
      /\ Len(abc) \in 0 .. Len(abc)
  BY <1>0, <1>1
<1>7. /\ SubSeq(d, 1, Len(a)) = a
      /\ SubSeq(d, Len(a) + 1, Len(a) + Len(b)) = b
      /\ SubSeq(d, Len(a) + Len(b) + 1, Len(abc)) = c
  BY <1>1, <1>5, <1>6
<1> QED
  BY <1>1, <1>3, <1>7 DEF ConsistsOf
-----------------------------------------------------------------------------
(***************************************************************************)
(* The file that a run writes: its fields are where load looks for them.   *)
(***************************************************************************)
\* What a mnemonic is encrypted with: without FIDO2 the password only.
Credentials == IF Fido2 THEN Devices ELSE {NoDevice}
Keys == Passwords \X Credentials

LEMMA SameFormat ==
  ASSUME header' = header
  PROVE  Credentials' = Credentials /\ Keys' = Keys
  BY DEF Credentials, Keys, Fido2

LEMMA Format ==
  ASSUME header \in Headers
  PROVE  /\ header.at[1] = 0
         /\ header.at[2] = header.len[1] /\ header.len[1] \in Nat \ {0}
         /\ header.at[3] = header.len[1] + header.len[2] /\ header.len[2] \in Nat \ {0}
         /\ Fido2 => /\ header.len \in [1 .. 4 -> Nat \ {0}]
                     /\ header.at[4] = header.at[3] + header.len[3]
                     /\ header.at[5] = header.at[4] + header.len[4]
                     /\ Fields = 1 .. 5
         /\ ~Fido2 => header.len \in [1 .. 2 -> Nat \ {0}] /\ Fields = 1 .. 3
<1>1. \A f \in 1 .. Len(header.len) : header.at[f + 1] = header.at[f] + header.len[f]
  BY LengthAssumption
<1>2. CASE header.len \in [1 .. 2 -> Nat \ {0}]
  <2>1. Len(header.len) = 2
    BY <1>2
  <2>2. header.at[1 + 1] = header.at[1] + header.len[1] /\ header.at[2 + 1] = header.at[2] + header.len[2]
    BY <1>1, <2>1
  <2> QED
    BY <1>2, <2>1, <2>2, LengthAssumption DEF Fido2, Fields
<1>3. CASE header.len \in [1 .. 4 -> Nat \ {0}]
  <2>1. Len(header.len) = 4
    BY <1>3
  <2>2. /\ header.at[1 + 1] = header.at[1] + header.len[1] /\ header.at[2 + 1] = header.at[2] + header.len[2]
        /\ header.at[3 + 1] = header.at[3] + header.len[3] /\ header.at[4 + 1] = header.at[4] + header.len[4]
    BY <1>1, <2>1
  <2>3. Fido2 /\ Fields = 1 .. 5
    BY <2>1 DEF Fido2, Fields
  <2>4. /\ header.at[2] = header.at[1] + header.len[1] /\ header.at[3] = header.at[2] + header.len[2]
        /\ header.at[4] = header.at[3] + header.len[3] /\ header.at[5] = header.at[4] + header.len[4]
    BY <2>2
  <2>5. header.at[1] = 0 /\ header.len[1] \in Nat \ {0} /\ header.len[2] \in Nat \ {0}
    BY <1>3, LengthAssumption
  <2>6. header.at[2] = header.len[1] /\ header.at[3] = header.len[1] + header.len[2]
    BY <2>4, <2>5
  <2> QED
    BY <1>3, <2>3, <2>4, <2>5, <2>6
<1> QED
  BY <1>2, <1>3, LengthAssumption

\* A field is a sequence of bytes and not empty.
LEMMA FieldType ==
  ASSUME header \in Headers, NEW u \in Runs, key[u] \in Keys, NEW f \in Fields
  PROVE  /\ Field(u, f) \in Seq(Byte) /\ Len(Field(u, f)) = FieldLen(u, f)
         /\ FieldLen(u, f) \in Nat \ {0}
<1> DEFINE by == IF Fido2 /\ f = 1 THEN key[u][2] ELSE u
           n == FieldLen(u, f)
<1>1. n \in Nat \ {0}
  <2>1. CipherLen[u] \in Nat \ {0}
    BY LengthAssumption
  <2>2. f + 1 \in Fields => header.len[f] \in Nat \ {0}
    BY Format
  <2>3. Fido2 => IdLen[key[u][2]] \in Nat \ {0}
    BY LengthAssumption DEF Keys, Credentials
  <2> QED
    BY <2>1, <2>2, <2>3 DEF FieldLen
<1>2. Field(u, f) = [i \in 1 .. n |-> <<by, f, i>>]
  BY DEF Field, Bytes
<1>3. by \in Runs \cup Devices \cup {NoDevice} /\ f \in 1 .. 5
  <2>1. key[u][2] \in Devices \cup {NoDevice}
    BY DEF Keys, Credentials
  <2>2. f \in 1 .. 5
    BY Format
  <2> QED
    BY <2>1, <2>2
<1> HIDE DEF by, n
<1>4. \A i \in 1 .. n : <<by, f, i>> \in Byte
  BY <1>1, <1>3 DEF Byte
<1>5. Field(u, f) \in [1 .. n -> Byte]
  BY <1>2, <1>4
<1>6. Field(u, f) \in Seq(Byte) /\ Len(Field(u, f)) = n
  BY <1>1, <1>5
<1> QED
  BY <1>1, <1>6 DEF n

\* A field ends where the next one begins or where the data ends.
LEMMA SliceAt ==
  ASSUME NEW data, NEW f \in Fields, Len(data) \in Nat,
         f + 1 \in Fields => header.at[f + 1] \in 0 .. Len(data)
  PROVE  Slice(data, f) = SubSeq(data, header.at[f] + 1,
                            IF f + 1 \in Fields THEN header.at[f + 1] ELSE Len(data))
<1>1. CASE f + 1 \in Fields
  <2>1. Min({header.at[f + 1], Len(data)}) = header.at[f + 1]
    BY <1>1, MinOfTwo
  <2> QED
    BY <1>1, <2>1 DEF Slice
<1>2. CASE f + 1 \notin Fields
  BY <1>2 DEF Slice
<1> QED
  BY <1>1, <1>2

\* What a run writes is its first field and more.
LEMMA BlobType ==
  ASSUME header \in Headers, NEW u \in Runs, key[u] \in Keys
  PROVE  /\ Blob(u) \in Seq(Byte) /\ Blob(u) # <<>>
         /\ Len(Blob(u)) \in Nat /\ FieldLen(u, 1) < Len(Blob(u))
<1> DEFINE d == Blob(u)
           L(f) == Len(Field(u, f))
<1>1. ASSUME NEW f \in Fields
      PROVE  Field(u, f) \in Seq(Byte) /\ L(f) = FieldLen(u, f) /\ L(f) \in Nat \ {0}
  BY FieldType
<1>2. d \in Seq(Byte) /\ L(1) < Len(d) /\ L(1) = FieldLen(u, 1) /\ L(1) \in Nat \ {0}
  <2>1. CASE Fido2
    <3>1. 1 \in Fields /\ 2 \in Fields /\ 3 \in Fields /\ 4 \in Fields /\ 5 \in Fields
      BY <2>1, Format
    <3>2. /\ Field(u, 1) \in Seq(Byte) /\ Field(u, 2) \in Seq(Byte) /\ Field(u, 3) \in Seq(Byte)
          /\ Field(u, 4) \in Seq(Byte) /\ Field(u, 5) \in Seq(Byte)
          /\ L(1) \in Nat \ {0} /\ L(2) \in Nat \ {0} /\ L(3) \in Nat \ {0}
          /\ L(4) \in Nat \ {0} /\ L(5) \in Nat \ {0} /\ L(1) = FieldLen(u, 1)
      <4> HIDE DEF L
      <4> QED
        BY <1>1, <3>1
    <3>3. d = Field(u, 1) \o Field(u, 2) \o Field(u, 3) \o Field(u, 4) \o Field(u, 5)
      BY <2>1 DEF Blob
    <3> HIDE DEF d
    <3>4. ConsistsOf(d, Field(u, 1), Field(u, 2), Field(u, 3), Field(u, 4), Field(u, 5))
      BY <3>2, <3>3, FiveParts, Zenon
    <3>5. d \in Seq(Byte) /\ Len(d) = L(1) + L(2) + L(3) + L(4) + L(5)
      BY <3>4 DEF ConsistsOf
    <3> HIDE DEF L
    <3> QED
      BY <3>2, <3>5
  <2>2. CASE ~Fido2
    <3>1. 1 \in Fields /\ 2 \in Fields /\ 3 \in Fields
      BY <2>2, Format
    <3>2. /\ Field(u, 1) \in Seq(Byte) /\ Field(u, 2) \in Seq(Byte) /\ Field(u, 3) \in Seq(Byte)
          /\ L(1) \in Nat \ {0} /\ L(2) \in Nat \ {0} /\ L(3) \in Nat \ {0}
          /\ L(1) = FieldLen(u, 1)
      <4> HIDE DEF L
      <4> QED
        BY <1>1, <3>1
    <3>3. d = Field(u, 1) \o Field(u, 2) \o Field(u, 3)
      BY <2>2 DEF Blob
    <3> HIDE DEF d
    <3>4. d \in Seq(Byte) /\ Len(d) = L(1) + L(2) + L(3)
      BY <3>2, <3>3, ThreeParts
    <3> HIDE DEF L
    <3> QED
      BY <3>2, <3>4
  <2> QED
    BY <2>1, <2>2
<1> HIDE DEF d, L
<1>3. Len(d) \in Nat /\ d # <<>>
  <2>1. Len(d) \in Nat
    BY <1>2, LenType
  <2>2. Len(d) # 0
    BY <1>2, <2>1
  <2> QED
    BY <2>1, <2>2
<1> QED
  BY <1>2, <1>3 DEF d

\* With a credential as long as load takes it, what a run writes has each of
\* its fields where load cuts it out.
LEMMA BlobSlices ==
  ASSUME header \in Headers, NEW u \in Runs, key[u] \in Keys, key[u] # NoKey, ~Misfit(u)
  PROVE  /\ Blob(u) \in Seq(Byte)
         /\ \A f \in Fields : Slice(Blob(u), f) = Field(u, f)
<1> DEFINE d == Blob(u)
           L(f) == Len(Field(u, f))
<1>1. ASSUME NEW f \in Fields
      PROVE  /\ Field(u, f) \in Seq(Byte) /\ L(f) \in Nat
             /\ f + 1 \in Fields => L(f) = header.len[f]
  <2>1. Field(u, f) \in Seq(Byte) /\ L(f) = FieldLen(u, f) /\ L(f) \in Nat
    BY FieldType
  <2>2. f + 1 \in Fields => FieldLen(u, f) = header.len[f]
    BY DEF FieldLen, Misfit
  <2> QED
    BY <2>1, <2>2
<1>2. CASE Fido2
  <2>1. /\ Fields = 1 .. 5
        /\ header.at[1] = 0 /\ header.at[2] = header.len[1]
        /\ header.at[3] = header.len[1] + header.len[2]
        /\ header.at[4] = header.at[3] + header.len[3]
        /\ header.at[5] = header.at[4] + header.len[4]
    BY <1>2, Format
  <2>2. /\ Field(u, 1) \in Seq(Byte) /\ Field(u, 2) \in Seq(Byte) /\ Field(u, 3) \in Seq(Byte)
        /\ Field(u, 4) \in Seq(Byte) /\ Field(u, 5) \in Seq(Byte)
        /\ L(1) \in Nat /\ L(2) \in Nat /\ L(3) \in Nat /\ L(4) \in Nat /\ L(5) \in Nat
        /\ L(1) = header.len[1] /\ L(2) = header.len[2] /\ L(3) = header.len[3] /\ L(4) = header.len[4]
    <3>1. 1 \in Fields /\ 2 \in Fields /\ 3 \in Fields /\ 4 \in Fields /\ 5 \in Fields
          /\ 1 + 1 \in Fields /\ 2 + 1 \in Fields /\ 3 + 1 \in Fields /\ 4 + 1 \in Fields
      BY <2>1
    <3> HIDE DEF L
    <3> QED
      BY <1>1, <3>1
  <2>3. /\ d \in Seq(Byte) /\ Len(d) = L(1) + L(2) + L(3) + L(4) + L(5)
        /\ SubSeq(d, 1, L(1)) = Field(u, 1)
        /\ SubSeq(d, L(1) + 1, L(1) + L(2)) = Field(u, 2)
        /\ SubSeq(d, L(1) + L(2) + 1, L(1) + L(2) + L(3)) = Field(u, 3)
        /\ SubSeq(d, L(1) + L(2) + L(3) + 1, L(1) + L(2) + L(3) + L(4)) = Field(u, 4)
        /\ SubSeq(d, L(1) + L(2) + L(3) + L(4) + 1, Len(d)) = Field(u, 5)
    <3>1. d = Field(u, 1) \o Field(u, 2) \o Field(u, 3) \o Field(u, 4) \o Field(u, 5)
      BY <1>2 DEF Blob
    <3>2. /\ Field(u, 1) \in Seq(Byte) /\ Field(u, 2) \in Seq(Byte) /\ Field(u, 3) \in Seq(Byte)
          /\ Field(u, 4) \in Seq(Byte) /\ Field(u, 5) \in Seq(Byte)
      BY <2>2
    <3> HIDE DEF d
    <3>3. ConsistsOf(d, Field(u, 1), Field(u, 2), Field(u, 3), Field(u, 4), Field(u, 5))
      BY <3>1, <3>2, FiveParts, Zenon
    <3> QED
      BY <3>3 DEF ConsistsOf
  <2> HIDE DEF d, L
  <2>4. /\ header.at[1] = 0 /\ header.at[2] = L(1) /\ header.at[3] = L(1) + L(2)
        /\ header.at[4] = L(1) + L(2) + L(3) /\ header.at[5] = L(1) + L(2) + L(3) + L(4)
        /\ Len(d) \in Nat
    <3>1. header.at[1] = 0 /\ header.at[2] = L(1) /\ header.at[3] = L(1) + L(2)
      BY <2>1, <2>2
    <3>2. header.at[4] = L(1) + L(2) + L(3)
      BY <3>1, <2>1, <2>2
    <3>3. header.at[5] = L(1) + L(2) + L(3) + L(4)
      BY <3>2, <2>1, <2>2
    <3>4. Len(d) \in Nat
      BY <2>3, LenType
    <3> QED
      BY <3>1, <3>2, <3>3, <3>4
  <2>5. /\ SubSeq(d, header.at[5] + 1, Len(d)) = Field(u, 5)
        /\ header.at[2] \in 0 .. Len(d) /\ SubSeq(d, header.at[1] + 1, header.at[2]) = Field(u, 1)
        /\ header.at[3] \in 0 .. Len(d) /\ SubSeq(d, header.at[2] + 1, header.at[3]) = Field(u, 2)
        /\ header.at[4] \in 0 .. Len(d) /\ SubSeq(d, header.at[3] + 1, header.at[4]) = Field(u, 3)
        /\ header.at[5] \in 0 .. Len(d) /\ SubSeq(d, header.at[4] + 1, header.at[5]) = Field(u, 4)
    <3>1. Len(d) = L(1) + L(2) + L(3) + L(4) + L(5)
      BY <2>3
    <3>2. /\ L(1) \in 0 .. Len(d) /\ L(1) + L(2) \in 0 .. Len(d)
          /\ L(1) + L(2) + L(3) \in 0 .. Len(d) /\ L(1) + L(2) + L(3) + L(4) \in 0 .. Len(d)
      <4>1. \A a, b, c, e, g \in Nat :
              /\ a \in 0 .. a + b + c + e + g /\ a + b \in 0 .. a + b + c + e + g
              /\ a + b + c \in 0 .. a + b + c + e + g /\ a + b + c + e \in 0 .. a + b + c + e + g
        OBVIOUS
      <4>2. L(1) \in Nat /\ L(2) \in Nat /\ L(3) \in Nat /\ L(4) \in Nat /\ L(5) \in Nat
        BY <2>2
      <4> QED
        BY <3>1, <4>1, <4>2, Zenon
    <3>3. header.at[1] + 1 = 1
      BY <2>4
    <3>4. /\ SubSeq(d, header.at[1] + 1, header.at[2]) = Field(u, 1)
          /\ SubSeq(d, header.at[2] + 1, header.at[3]) = Field(u, 2)
      BY <2>3, <2>4, <3>3
    <3>5. /\ SubSeq(d, header.at[3] + 1, header.at[4]) = Field(u, 3)
          /\ SubSeq(d, header.at[4] + 1, header.at[5]) = Field(u, 4)
          /\ SubSeq(d, header.at[5] + 1, Len(d)) = Field(u, 5)
      BY <2>3, <2>4
    <3> QED
      BY <2>4, <3>2, <3>4, <3>5
  <2>6. ASSUME NEW f \in 1 .. 4
        PROVE  header.at[f + 1] \in 0 .. Len(d) /\ SubSeq(d, header.at[f] + 1, header.at[f + 1]) = Field(u, f)
    <3>1. f = 1 \/ f = 2 \/ f = 3 \/ f = 4
      OBVIOUS
    <3>2. CASE f = 1
      BY <2>5, <3>2
    <3>3. CASE f = 2
      BY <2>5, <3>3
    <3>4. CASE f = 3
      BY <2>5, <3>4
    <3>5. CASE f = 4
      BY <2>5, <3>5
    <3> QED
      BY <3>1, <3>2, <3>3, <3>4, <3>5
  <2>7. ASSUME NEW f \in Fields PROVE Slice(d, f) = Field(u, f)
    <3>1. CASE f \in 1 .. 4
      <4>1. f + 1 \in Fields
        BY <2>1, <3>1
      <4> QED
        BY <2>4, <2>6, <3>1, <4>1, SliceAt
    <3>2. CASE f = 5
      <4>1. f + 1 \notin Fields
        BY <2>1, <3>2
      <4> QED
        BY <2>4, <2>5, <3>2, <4>1, SliceAt
    <3> QED
      BY <2>1, <3>1, <3>2
  <2> QED
    BY <2>3, <2>7 DEF d
<1>3. CASE ~Fido2
  <2>1. /\ Fields = 1 .. 3
        /\ header.at[1] = 0 /\ header.at[2] = header.len[1]
        /\ header.at[3] = header.len[1] + header.len[2]
    BY <1>3, Format
  <2>2. /\ Field(u, 1) \in Seq(Byte) /\ Field(u, 2) \in Seq(Byte) /\ Field(u, 3) \in Seq(Byte)
        /\ L(1) \in Nat /\ L(2) \in Nat /\ L(3) \in Nat
        /\ L(1) = header.len[1] /\ L(2) = header.len[2]
    <3>1. 1 \in Fields /\ 2 \in Fields /\ 3 \in Fields /\ 1 + 1 \in Fields /\ 2 + 1 \in Fields
      BY <2>1
    <3> HIDE DEF L
    <3> QED
      BY <1>1, <3>1
  <2>3. /\ d \in Seq(Byte) /\ Len(d) = L(1) + L(2) + L(3)
        /\ SubSeq(d, 1, L(1)) = Field(u, 1)
        /\ SubSeq(d, L(1) + 1, L(1) + L(2)) = Field(u, 2)
        /\ SubSeq(d, L(1) + L(2) + 1, Len(d)) = Field(u, 3)
    <3>1. d = Field(u, 1) \o Field(u, 2) \o Field(u, 3)
      BY <1>3 DEF Blob
    <3> HIDE DEF d
    <3> QED
      BY <2>2, <3>1, ThreeParts
  <2> HIDE DEF d, L
  <2>4. /\ header.at[1] = 0 /\ header.at[2] = L(1) /\ header.at[3] = L(1) + L(2)
        /\ Len(d) \in Nat
    BY <2>1, <2>2, <2>3
  <2>5. /\ SubSeq(d, header.at[3] + 1, Len(d)) = Field(u, 3)
        /\ header.at[2] \in 0 .. Len(d) /\ SubSeq(d, header.at[1] + 1, header.at[2]) = Field(u, 1)
        /\ header.at[3] \in 0 .. Len(d) /\ SubSeq(d, header.at[2] + 1, header.at[3]) = Field(u, 2)
    BY <2>2, <2>3, <2>4
  <2>6. ASSUME NEW f \in 1 .. 2
        PROVE  header.at[f + 1] \in 0 .. Len(d) /\ SubSeq(d, header.at[f] + 1, header.at[f + 1]) = Field(u, f)
    <3>1. f = 1 \/ f = 2
      OBVIOUS
    <3>2. CASE f = 1
      BY <2>5, <3>2
    <3>3. CASE f = 2
      BY <2>5, <3>3
    <3> QED
      BY <3>1, <3>2, <3>3
  <2>7. ASSUME NEW f \in Fields PROVE Slice(d, f) = Field(u, f)
    <3>1. CASE f \in 1 .. 2
      <4>1. f + 1 \in Fields
        BY <2>1, <3>1
      <4> QED
        BY <2>4, <2>6, <3>1, <4>1, SliceAt
    <3>2. CASE f = 3
      <4>1. f + 1 \notin Fields
        BY <2>1, <3>2
      <4> QED
        BY <2>4, <2>5, <3>2, <4>1, SliceAt
    <3> QED
      BY <2>1, <3>1, <3>2
  <2> QED
    BY <2>3, <2>7 DEF d
<1> QED
  BY <1>2, <1>3

\* With a credential of another length, what load takes for it is not it: a
\* part of a longer one, a shorter one with bytes of the salt behind it.
LEMMA MisfitSlice ==
  ASSUME header \in Headers, NEW u \in Runs, key[u] \in Keys, Misfit(u)
  PROVE  1 \in Fields /\ Slice(Blob(u), 1) # Field(u, 1)
<1> DEFINE d == Blob(u)
           m == header.len[1]
           n == FieldLen(u, 1)
<1>1. /\ 1 \in Fields /\ 1 + 1 \in Fields /\ header.at[1] = 0 /\ header.at[2] = m
      /\ m \in Nat \ {0}
  BY Format
<1>2. Len(Field(u, 1)) = n /\ n \in Nat \ {0} /\ n # m
  BY <1>1, FieldType DEF FieldLen, Misfit
<1>3. d \in Seq(Byte) /\ Len(d) \in Nat /\ n < Len(d)
  BY BlobType
<1> HIDE DEF d, m, n
<1>4. CASE m <= Len(d)
  <2>1. m \in 0 .. Len(d)
    BY <1>1, <1>3, <1>4
  <2>2. Slice(d, 1) = SubSeq(d, 1, m)
    <3>0. header.at[1 + 1] \in 0 .. Len(d)
      BY <1>1, <2>1
    <3>1. Slice(d, 1) = SubSeq(d, header.at[1] + 1, header.at[1 + 1])
      <4>1. Slice(d, 1) = SubSeq(d, header.at[1] + 1,
                            IF 1 + 1 \in Fields THEN header.at[1 + 1] ELSE Len(d))
        BY <1>1, <1>3, <3>0, SliceAt
      <4> QED
        BY <1>1, <4>1
    <3>2. header.at[1] + 1 = 1 /\ header.at[1 + 1] = m
      BY <1>1
    <3> QED
      BY <3>1, <3>2
  <2>3. Len(SubSeq(d, 1, m)) = m
    BY <1>1, <1>3, <2>1
  <2> QED
    BY <1>1, <1>2, <2>2, <2>3 DEF d
<1>5. CASE Len(d) < m
  <2>1. Min({header.at[2], Len(d)}) = Len(d)
    <3>1. Min({Len(d), m}) = Len(d)
      BY <1>1, <1>3, <1>5, MinOfTwo
    <3>2. {header.at[2], Len(d)} = {Len(d), m}
      BY <1>1
    <3> QED
      BY <3>1, <3>2
  <2>2. Slice(d, 1) = SubSeq(d, 1, Len(d))
    <3>1. Slice(d, 1) = SubSeq(d, header.at[1] + 1, Min({header.at[1 + 1], Len(d)}))
      BY <1>1 DEF Slice
    <3>2. header.at[1] + 1 = 1 /\ 1 + 1 = 2
      BY <1>1
    <3> QED
      BY <2>1, <3>1, <3>2
  <2>3. Slice(d, 1) = d
    BY <1>3, <2>2, SliceWhole
  <2> QED
    BY <1>1, <1>2, <1>3, <2>3 DEF d
<1> QED
  BY <1>1, <1>3, <1>4, <1>5

\* An empty file gives no run's mnemonic back.
LEMMA EmptyIsUnreadable ==
  ASSUME header \in Headers, NEW u \in Runs, key[u] \in Keys
  PROVE  1 \in Fields /\ Slice(<<>>, 1) # Field(u, 1)
<1>1. 1 \in Fields /\ 1 + 1 \in Fields /\ header.at[1] = 0 /\ header.at[2] \in Nat
  BY Format
<1>2. Field(u, 1) \in Seq(Byte) /\ Len(Field(u, 1)) # 0
  BY <1>1, FieldType
<1>3. Min({0, header.at[2]}) = 0
  BY <1>1, MinOfTwo
<1>4. {header.at[2], Len(<<>>)} = {0, header.at[2]}
  OBVIOUS
<1>5. Slice(<<>>, 1) = SubSeq(<<>>, 1, 0)
  BY <1>1, <1>3, <1>4 DEF Slice
<1>6. SubSeq(<<>>, 1, 0) = <<>>
  OBVIOUS
<1> QED
  BY <1>1, <1>2, <1>5, <1>6
-----------------------------------------------------------------------------
(***************************************************************************)
(* The inductive invariant.                                                *)
(***************************************************************************)
Waiting == {"connecting", "prompting", "encrypted"}

Types ==
  /\ header \in Headers /\ credential \in Credentials
  /\ pc \in [Runs -> {"idle", "connecting", "prompting", "encrypted", "truncated", "stored",
                      "loaded", "signing", "refused", "died", "died_writing"}]
  /\ key \in [Runs -> Keys \cup {NoKey}]
  /\ loaded \in [Runs -> Runs \cup {Nothing}]
  /\ \A u \in Runs : pc[u] = "signing" => loaded[u] # Nothing

\* Runs do not overlap.
AloneInv == \A u, v \in Active : u = v

\* Who has encrypted has a key.
KeyInv == \A u \in Runs : pc[u] \in {"encrypted", "truncated", "stored"} => key[u] # NoKey

\* There is no file while a run has passed the existence check and not opened
\* it; then it is empty, and then it is whole.  An empty file has a run that
\* writes it or died writing it, any other is what some run wrote.
FileInv ==
  /\ \A u \in Runs : pc[u] \in Waiting => file = NoFile
  /\ \A u \in Runs : pc[u] = "truncated" => file = <<>>
  /\ \A u \in Runs : pc[u] = "stored" => file = Blob(u)
  /\ \/ file = NoFile
     \/ file = <<>> /\ \E u \in Runs : pc[u] \in {"truncated", "died_writing"}
     \/ \E u \in Runs : key[u] # NoKey /\ file = Blob(u)

IInv == Types /\ AloneInv /\ KeyInv /\ FileInv

LEMMA InitInv == Init => IInv
  BY DEF Init, IInv, Types, AloneInv, KeyInv, FileInv, Active, Waiting, Credentials

\* A key is a key, and what a run with a key writes is a file.
LEMMA BlobIsFile ==
  ASSUME Types, NEW u \in Runs, key[u] # NoKey
  PROVE  /\ key[u] \in Keys /\ Blob(u) \in Seq(Byte) /\ Blob(u) # NoFile /\ Blob(u) # <<>>
<1>1. header \in Headers /\ key[u] \in Keys
  BY DEF Types
<1>2. Blob(u) \in Seq(Byte) /\ Blob(u) # <<>>
  BY <1>1, BlobType
<1> QED
  BY <1>1, <1>2, RunsAssumption

\* What a run has written stays the same while its key does.
LEMMA SameBlob ==
  ASSUME header' = header, NEW u, key'[u] = key[u]
  PROVE  Blob(u)' = Blob(u)
  BY DEF Blob, Field, FieldLen, Fields, Fido2, Bytes

\* The steps that leave the file and the keys alone.
LEMMA QuietStep ==
  ASSUME IInv, header' = header, file' = file, key' = key,
         NEW u \in Runs, NEW q, pc' = [pc EXCEPT ![u] = q],
         q \in {"idle", "connecting", "prompting", "loaded", "signing", "refused", "died", "died_writing"},
         q \in Waiting => file = NoFile /\ Active \subseteq {u},
         pc[u] \in {"truncated", "died_writing"} => q = "died_writing"
  PROVE  AloneInv' /\ KeyInv' /\ FileInv'
<1> USE DEF IInv
<1>1. pc'[u] = q /\ \A v \in Runs : v # u => pc'[v] = pc[v]
  BY DEF Types
<1>2. AloneInv'
  <2>1. CASE q \in Waiting
    BY <1>1, <2>1 DEF AloneInv, Active, Waiting
  <2>2. CASE q \notin Waiting
    BY <1>1, <2>2 DEF AloneInv, Active, Waiting
  <2> QED
    BY <2>1, <2>2
<1>3. KeyInv'
  BY <1>1 DEF KeyInv
<1>4. FileInv'
  <2>1. \A v \in Runs : Blob(v)' = Blob(v)
    BY SameBlob
  <2>2. ASSUME NEW v \in Runs
        PROVE  /\ pc'[v] \in Waiting => file' = NoFile
               /\ pc'[v] = "truncated" => file' = <<>>
               /\ pc'[v] = "stored" => file' = Blob(v)'
    BY <1>1, <2>1 DEF FileInv, Waiting
  <2>3. \/ file' = NoFile
        \/ file' = <<>> /\ \E v \in Runs : pc'[v] \in {"truncated", "died_writing"}
        \/ \E v \in Runs : key'[v] # NoKey /\ file' = Blob(v)'
    <3>1. CASE file = NoFile
      BY <3>1
    <3>2. CASE file = <<>> /\ \E v \in Runs : pc[v] \in {"truncated", "died_writing"}
      BY <1>1, <3>2
    <3>3. CASE \E v \in Runs : key[v] # NoKey /\ file = Blob(v)
      BY <2>1, <3>3
    <3> QED
      BY <3>1, <3>2, <3>3 DEF FileInv
  <2> QED
    BY <2>2, <2>3 DEF FileInv
<1> QED
  BY <1>2, <1>3, <1>4

LEMMA EncryptStep ==
  ASSUME IInv, NEW u \in Runs, encrypt(u)
  PROVE  IInv'
<1> USE DEF IInv
<1>1. /\ pc[u] = "prompting" /\ file = NoFile /\ file' = NoFile
      /\ header' = header /\ credential' = credential /\ loaded' = loaded
      /\ pc' = [pc EXCEPT ![u] = "encrypted"]
  BY DEF encrypt, FileInv, Waiting
<1>2. PICK p \in Passwords : key' = [key EXCEPT ![u] = <<p, credential>>]
  BY DEF encrypt
<1>3. <<p, credential>> \in Keys /\ <<p, credential>> # NoKey
  BY RunsAssumption DEF Types, Keys, Credentials
<1>4. /\ pc'[u] = "encrypted" /\ key'[u] # NoKey
      /\ \A v \in Runs : v # u => pc'[v] = pc[v] /\ key'[v] = key[v]
  BY <1>1, <1>2, <1>3 DEF Types
<1>5. Types'
  BY <1>1, <1>2, <1>3, SameFormat DEF Types
<1>6. AloneInv'
  BY <1>1, <1>4 DEF AloneInv, Active
<1>7. KeyInv'
  BY <1>4 DEF KeyInv
<1>8. ASSUME NEW v \in Runs PROVE pc'[v] \notin {"truncated", "stored"}
  <2>1. CASE v = u
    BY <1>4, <2>1
  <2>2. CASE v # u
    <3>1. pc[v] # "truncated"
      BY <1>1, <2>2 DEF AloneInv, Active
    <3>2. pc[v] # "stored"
      BY <1>1, BlobIsFile DEF KeyInv, FileInv
    <3> QED
      BY <1>4, <2>2, <3>1, <3>2
  <2> QED
    BY <2>1, <2>2
<1>9. FileInv'
  BY <1>1, <1>8 DEF FileInv
<1> QED
  BY <1>5, <1>6, <1>7, <1>9

LEMMA OpenStep ==
  ASSUME IInv, NEW u \in Runs, open(u)
  PROVE  IInv'
<1> USE DEF IInv
<1>1. /\ pc[u] = "encrypted" /\ file = NoFile /\ file' = <<>>
      /\ header' = header /\ credential' = credential /\ loaded' = loaded /\ key' = key
      /\ pc' = [pc EXCEPT ![u] = "truncated"]
  BY DEF open, FileInv, Waiting
<1>2. pc'[u] = "truncated" /\ \A v \in Runs : v # u => pc'[v] = pc[v]
  BY <1>1 DEF Types
<1>3. Types'
  BY <1>1, SameFormat DEF Types
<1>4. AloneInv'
  BY <1>1, <1>2 DEF AloneInv, Active
<1>5. KeyInv'
  BY <1>1, <1>2 DEF KeyInv
<1>6. ASSUME NEW v \in Runs PROVE pc'[v] \notin Waiting \cup {"stored"}
  <2>1. CASE v = u
    BY <1>2, <2>1 DEF Waiting
  <2>2. CASE v # u
    <3>1. pc[v] \notin Waiting
      BY <1>1, <2>2 DEF AloneInv, Active, Waiting
    <3>2. pc[v] # "stored"
      BY <1>1, BlobIsFile DEF KeyInv, FileInv
    <3> QED
      BY <1>2, <2>2, <3>1, <3>2
  <2> QED
    BY <2>1, <2>2
<1>7. FileInv'
  BY <1>1, <1>2, <1>6 DEF FileInv
<1> QED
  BY <1>3, <1>4, <1>5, <1>7

LEMMA WriteStep ==
  ASSUME IInv, NEW u \in Runs, write(u)
  PROVE  IInv'
<1> USE DEF IInv
<1>1. /\ pc[u] = "truncated" /\ file = <<>> /\ key[u] # NoKey
      /\ header' = header /\ credential' = credential /\ loaded' = loaded /\ key' = key
      /\ pc' = [pc EXCEPT ![u] = "stored"]
  BY DEF write, FileInv, KeyInv
<1>2. pc'[u] = "stored" /\ \A v \in Runs : v # u => pc'[v] = pc[v]
  BY <1>1 DEF Types
<1>3. file' = Blob(u)
  <2>1. file' = Blob(u) \o SubSeq(<<>>, Len(Blob(u)) + 1, 0)
    BY <1>1 DEF write
  <2>2. Blob(u) \in Seq(Byte)
    BY <1>1, BlobIsFile
  <2>3. \A b \in Seq(Byte) : b \o SubSeq(<<>>, Len(b) + 1, 0) = b
    OBVIOUS
  <2> QED
    BY <2>1, <2>2, <2>3
<1>4. \A v : Blob(v)' = Blob(v)
  BY <1>1, SameBlob
<1>5. Types'
  BY <1>1, SameFormat DEF Types
<1>6. AloneInv'
  BY <1>1, <1>2 DEF AloneInv, Active
<1>7. KeyInv'
  BY <1>1, <1>2 DEF KeyInv
<1>8. ASSUME NEW v \in Runs, v # u PROVE pc'[v] \notin Waiting \cup {"truncated", "stored"}
  <2>1. pc[v] \notin Waiting \cup {"truncated"}
    BY <1>1, <1>8 DEF AloneInv, Active, Waiting
  <2>2. pc[v] # "stored"
    BY <1>1, BlobIsFile DEF KeyInv, FileInv
  <2> QED
    BY <1>2, <1>8, <2>1, <2>2
<1>9. FileInv'
  <2>1. ASSUME NEW v \in Runs
        PROVE  /\ pc'[v] \in Waiting => file' = NoFile
               /\ pc'[v] = "truncated" => file' = <<>>
               /\ pc'[v] = "stored" => file' = Blob(v)'
    BY <1>2, <1>3, <1>4, <1>8 DEF Waiting
  <2>2. key'[u] # NoKey /\ file' = Blob(u)'
    BY <1>1, <1>3, <1>4
  <2> QED
    BY <2>1, <2>2 DEF FileInv
<1> QED
  BY <1>5, <1>6, <1>7, <1>9

LEMMA StepInv ==
  ASSUME MaxActive = 1, IInv, [Next]_vars
  PROVE  IInv'
<1> USE DEF IInv
<1>1. ASSUME NEW u \in Runs, Start(u) PROVE IInv'
  <2>1. Active = {}
    <3>1. IsFiniteSet(Active)
      BY RunsAssumption, FS_Subset DEF Active
    <3>2. Cardinality(Active) \in Nat /\ Cardinality(Active) < 1
      BY <1>1, <3>1, FS_CardinalityType DEF Start
    <3>3. Cardinality(Active) = 0
      BY <3>2
    <3> QED
      BY <3>1, <3>3, FS_EmptySet
  <2>2. /\ header' = header /\ file' = file /\ key' = key /\ loaded' = loaded
        /\ credential' = credential /\ pc[u] = "idle"
    BY <1>1 DEF Start, store_mnemonic
  <2>3. PICK q \in {"connecting", "prompting", "refused"} :
          /\ pc' = [pc EXCEPT ![u] = q]
          /\ q \in Waiting => file = NoFile
    BY <1>1 DEF Start, store_mnemonic, First, Waiting
  <2>4. Types'
    BY <2>2, <2>3, SameFormat DEF Types
  <2>5. AloneInv' /\ KeyInv' /\ FileInv'
    BY <2>1, <2>2, <2>3, QuietStep
  <2> QED
    BY <2>4, <2>5
<1>2. ASSUME NEW u \in Runs, get_assertion(u) PROVE IInv'
  <2>1. /\ header' = header /\ file' = file /\ key' = key /\ loaded' = loaded
        /\ credential' = credential /\ pc[u] = "connecting"
    BY <1>2 DEF get_assertion
  <2>2. PICK q \in {"prompting", "died"} : pc' = [pc EXCEPT ![u] = q]
    BY <1>2 DEF get_assertion
  <2>3. file = NoFile /\ Active \subseteq {u}
    BY <2>1 DEF FileInv, AloneInv, Active, Waiting
  <2>4. Types'
    BY <2>1, <2>2, SameFormat DEF Types
  <2>5. AloneInv' /\ KeyInv' /\ FileInv'
    BY <2>1, <2>2, <2>3, QuietStep
  <2> QED
    BY <2>4, <2>5
<1>3. ASSUME NEW u \in Runs, load_mnemonic(u) PROVE IInv'
  <2>1. /\ header' = header /\ file' = file /\ key' = key
        /\ credential' = credential /\ pc[u] \in {"idle", "stored"}
        /\ pc' = [pc EXCEPT ![u] = "loaded"]
    BY <1>3 DEF load_mnemonic
  <2>2. PICK w \in Runs \cup {Nothing} : loaded' = [loaded EXCEPT ![u] = w]
    <3>1. PICK p \in Passwords, d \in IF Fido2 THEN Devices ELSE {NoDevice} :
            loaded' = [loaded EXCEPT ![u] =
              IF Decrypted(file, p, d) = {} THEN Nothing
              ELSE CHOOSE w \in Decrypted(file, p, d) : TRUE]
      BY <1>3 DEF load_mnemonic
    <3>2. CASE Decrypted(file, p, d) = {}
      BY <3>1, <3>2
    <3>3. CASE Decrypted(file, p, d) # {}
      <4>1. (CHOOSE w \in Decrypted(file, p, d) : TRUE) \in Decrypted(file, p, d)
        BY <3>3
      <4>2. (CHOOSE w \in Decrypted(file, p, d) : TRUE) \in Runs
        BY <4>1 DEF Decrypted
      <4> QED
        BY <3>1, <3>3, <4>2
    <3> QED
      BY <3>2, <3>3
  <2>3. Types'
    <3>1. pc'[u] = "loaded" /\ \A v \in Runs : v # u => pc'[v] = pc[v] /\ loaded'[v] = loaded[v]
      BY <2>1, <2>2 DEF Types
    <3>2. \A v \in Runs : pc'[v] = "signing" => loaded'[v] # Nothing
      BY <3>1 DEF Types
    <3> QED
      BY <2>1, <2>2, <3>2, SameFormat DEF Types
  <2>4. AloneInv' /\ KeyInv' /\ FileInv'
    BY <2>1, QuietStep DEF Waiting
  <2> QED
    BY <2>3, <2>4
<1>4. ASSUME NEW u \in Runs, generate_bip44_account(u) PROVE IInv'
  <2>1. /\ header' = header /\ file' = file /\ key' = key /\ loaded' = loaded
        /\ credential' = credential /\ pc[u] = "loaded"
    BY <1>4 DEF generate_bip44_account
  <2>2. PICK q \in {"died", "signing"} :
          pc' = [pc EXCEPT ![u] = q] /\ (q = "signing" => loaded[u] # Nothing)
    BY <1>4 DEF generate_bip44_account
  <2>3. Types'
    <3>1. pc'[u] = q /\ \A v \in Runs : v # u => pc'[v] = pc[v]
      BY <2>2 DEF Types
    <3>2. \A v \in Runs : pc'[v] = "signing" => loaded'[v] # Nothing
      BY <2>1, <2>2, <3>1 DEF Types
    <3> QED
      BY <2>1, <2>2, <3>2, SameFormat DEF Types
  <2>4. AloneInv' /\ KeyInv' /\ FileInv'
    BY <2>1, <2>2, QuietStep DEF Waiting
  <2> QED
    BY <2>3, <2>4
<1>5. ASSUME NEW u \in Runs, die(u) PROVE IInv'
  <2>1. /\ header' = header /\ file' = file /\ key' = key /\ loaded' = loaded
        /\ credential' = credential /\ pc[u] # "died_writing"
    BY <1>5 DEF die, Active
  <2>2. PICK q \in {"died", "died_writing"} :
          pc' = [pc EXCEPT ![u] = q] /\ (pc[u] = "truncated" => q = "died_writing")
    BY <1>5 DEF die
  <2>3. Types'
    BY <2>1, <2>2, SameFormat DEF Types
  <2>4. AloneInv' /\ KeyInv' /\ FileInv'
    BY <2>1, <2>2, QuietStep DEF Waiting
  <2> QED
    BY <2>3, <2>4
<1>6. ASSUME NEW d \in Devices, create_credential(d) PROVE IInv'
  <2>1. /\ header' = header /\ file' = file /\ key' = key /\ loaded' = loaded
        /\ pc' = pc /\ credential' = d
    BY <1>6 DEF create_credential
  <2>2. \A v : Blob(v)' = Blob(v)
    BY <2>1, SameBlob
  <2> QED
    BY <1>6, <2>1, <2>2, SameFormat
       DEF create_credential, Credentials, Types, AloneInv, KeyInv, FileInv, Active
<1>7. CASE UNCHANGED vars
  <2>1. /\ header' = header /\ file' = file /\ key' = key /\ loaded' = loaded
        /\ pc' = pc /\ credential' = credential
    BY <1>7 DEF vars
  <2>2. \A v : Blob(v)' = Blob(v)
    BY <2>1, SameBlob
  <2> QED
    BY <2>1, <2>2, SameFormat DEF Types, AloneInv, KeyInv, FileInv, Active
<1> QED
  BY <1>1, <1>2, <1>3, <1>4, <1>5, <1>6, <1>7, EncryptStep, OpenStep, WriteStep DEF Next

\* Runs that follow one another keep the invariant.
THEOREM Invariance == ASSUME MaxActive = 1 PROVE Spec => []IInv
<1>1. IInv /\ [Next]_vars => IInv'
  BY StepInv
<1> QED
  BY <1>1, InitInv, PTL DEF Spec
-----------------------------------------------------------------------------
(***************************************************************************)
(* What follows for the mnemonic.                                          *)
(***************************************************************************)
\* A whole file can be read by the run that wrote it exactly if its credential
\* has the length that load takes.
LEMMA WholeIsReadable ==
  ASSUME Types, NEW u \in Runs, key[u] # NoKey, file = Blob(u)
  PROVE  Readable(u) <=> ~Misfit(u)
<1>1. header \in Headers /\ key[u] \in Keys /\ file # NoFile
  BY BlobIsFile DEF Types
<1>2. key[u] = <<key[u][1], key[u][2]>>
  BY <1>1 DEF Keys
<1>3. ASSUME ~Misfit(u) PROVE Readable(u)
  <2>1. \A f \in Fields : Slice(file, f) = Field(u, f)
    BY <1>1, <1>3, BlobSlices
  <2> QED
    BY <1>1, <1>2, <2>1 DEF Readable, Decrypted
<1>4. ASSUME Misfit(u) PROVE ~Readable(u)
  <2>1. 1 \in Fields /\ Slice(file, 1) # Field(u, 1)
    BY <1>1, <1>4, MisfitSlice
  <2> QED
    BY <2>1 DEF Readable, Decrypted
<1> QED
  BY <1>3, <1>4

\* The variables have their types, and the file is absent, empty or as long
\* as what some run writes.
THEOREM TypeCorrect == ASSUME MaxActive = 1 PROVE Spec => []TypeOK
<1>1. IInv => TypeOK
  BY DEF IInv, Types, FileInv, TypeOK, Keys, Credentials
<1> QED
  BY <1>1, Invariance, PTL

\* "Mnemonic encrypted and stored": what a run has stored is read back from
\* the slices that load takes if and only if the credential of the device it
\* used is as long as load takes it, whatever the lengths of the other fields.
THEOREM StoredExactlyIfFits == ASSUME MaxActive = 1 PROVE Spec => []StoredIfFits
<1>1. IInv => StoredIfFits
  BY WholeIsReadable DEF IInv, KeyInv, FileInv, StoredIfFits
<1> QED
  BY <1>1, Invariance, PTL

\* A file from which no mnemonic can be read is one that its run is still
\* writing or died writing, or a whole one with a credential of another length.
THEOREM UnreadableIsTornOrMisfit == ASSUME MaxActive = 1 PROVE Spec => []UnreadableExplained
<1>1. IInv => UnreadableExplained
  BY WholeIsReadable DEF IInv, FileInv, UnreadableExplained
<1> QED
  BY <1>1, Invariance, PTL

\* While the file gives a mnemonic back no run is past the existence check,
\* so no step changes the file or a key that it is read with.
THEOREM NoMnemonicLost == ASSUME MaxActive = 1 PROVE Spec => NothingLost
<1>1. ASSUME IInv, [Next]_vars, NEW u \in Runs, Readable(u)
      PROVE  Readable(u)'
  <2> USE <1>1
  <2>1. file # NoFile /\ key[u] # NoKey /\ \A f \in Fields : Slice(file, f) = Field(u, f)
    BY DEF Readable, Decrypted
  <2>2. file # <<>>
    BY <2>1, EmptyIsUnreadable DEF IInv, Types
  <2>3. \A v \in Runs : pc[v] \notin Waiting \cup {"truncated"}
    BY <2>1, <2>2 DEF IInv, FileInv
  <2>4. header' = header /\ file' = file /\ key' = key
    <3>1. \A v \in Runs : ~encrypt(v) /\ ~open(v) /\ ~write(v) /\ ~get_assertion(v)
      BY <2>3 DEF encrypt, open, write, get_assertion, Waiting
    <3> QED
      BY <3>1 DEF Next, Start, store_mnemonic, load_mnemonic, generate_bip44_account, die,
                  create_credential, vars
  <2>5. Readable(u)' <=> Readable(u)
    BY <2>4 DEF Readable, Decrypted, Slice, Field, FieldLen, Fields, Fido2, Bytes
  <2> QED
    BY <2>5
<1>2. IInv /\ [Next]_vars => [\A u \in Runs : Readable(u) => Readable(u)']_vars
  BY <1>1
<1> QED
  BY <1>2, Invariance, PTL DEF NothingLost, Spec
=============================================================================
