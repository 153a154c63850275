------------------------- MODULE MultisigAuth_proofs -------------------------
(***************************************************************************)
(* Proofs about MultisigAuth, for any number of keys up to the 32 that the *)
(* bitmap has room for and lists of any length.                            *)
(***************************************************************************)
EXTENDS MultisigAuth, FiniteSetTheorems, TLAPS

Entry == [idx : Keys, by : Keys]

\* A position of a key has a digit in the bitmap.
LEMMA KeysInRange == Keys \subseteq 0 .. 31
  BY KeysAssumption DEF Keys

\* A list is a sequence of entries.
LEMMA ListIsSeq ==
  ASSUME NEW s \in Lists
  PROVE  /\ s \in Seq(Entry) /\ Len(s) \in Nat /\ DOMAIN s = 1 .. Len(s)
         /\ \A n \in DOMAIN s : s[n] \in Entry
<1>1. PICK m \in 0 .. MaxSigs : s \in [1 .. m -> Entry]
  BY DEF Lists, Entry
<1>2. m \in Nat
  BY KeysAssumption
<1>3. s \in Seq(Entry) /\ Len(s) = m
  BY <1>1, <1>2
<1> QED
  BY <1>1, <1>2, <1>3

\* Position x of the node is the binary digit 31 - x of the script's bitmap,
\* in whichever of the four bytes it lies.
LEMMA Digits ==
  ASSUME NEW B, NEW x \in 0 .. 31
  PROVE  HasBit(ToBytes(B), x) <=> 31 - x \in B
<1> DEFINE q == x \div 8
           r == x % 8
<1>1. q \in 0 .. 3 /\ r \in 0 .. 7 /\ x = 8 * q + r
  OBVIOUS
<1>2. q + 1 \in 1 .. BitmapBytes /\ 7 - r \in 0 .. 7
  BY <1>1 DEF BitmapBytes
<1>3. 7 - r + 8 * (BitmapBytes - (q + 1)) = 31 - x
  BY <1>1 DEF BitmapBytes
<1>4. ToBytes(B)[q + 1] = {p \in 0 .. 7 : p + 8 * (BitmapBytes - (q + 1)) \in B}
  BY <1>2 DEF ToBytes
<1>5. 7 - r \in ToBytes(B)[q + 1] <=> 31 - x \in B
  BY <1>2, <1>3, <1>4
<1> QED
  BY <1>5 DEF HasBit

\* The loop has put in the digits of the entries before position i, and what
\* is submitted are the bytes of the digits of the whole list.
LoopInv ==
  /\ bitmap = {31 - signatures[n].idx : n \in 1 .. i - 1}
  /\ pc \in {"submit", "accepted", "rejected"} =>
       i = Len(signatures) + 1 /\ bytes = ToBytes(bitmap)

\* The signatures put in so far are those of the entries before position i,
\* and there are more steps only for a list that verifies.
DataInv ==
  /\ Len(data) = i - 1
  /\ \A n \in 1 .. i - 1 : data[n] = signatures[n].by
  /\ pc \in {"extend", "submit", "accepted", "rejected"} => Verifies(signatures)

\* The verdict is on the signatures and bytes that were submitted.
VerdictInv ==
  /\ pc = "accepted" => Accepts(data, bytes)
  /\ pc = "rejected" => ~Accepts(data, bytes)

IInv == TypeOK /\ LoopInv /\ DataInv /\ VerdictInv

LEMMA InitInv == Init => IInv
<1> SUFFICES ASSUME Init PROVE IInv
  OBVIOUS
<1>1. Len(signatures) \in Nat
  BY ListIsSeq DEF Init
<1>2. TypeOK
  BY <1>1 DEF Init, TypeOK
<1>3. bitmap = {31 - signatures[n].idx : n \in 1 .. i - 1}
  BY DEF Init
<1>4. DataInv
  BY DEF Init, DataInv
<1> QED
  BY <1>2, <1>3, <1>4 DEF Init, IInv, LoopInv, VerdictInv

LEMMA StepLoop == TypeOK /\ LoopInv /\ [Next]_vars => (TypeOK /\ LoopInv)'
<1> SUFFICES ASSUME TypeOK, LoopInv, [Next]_vars PROVE (TypeOK /\ LoopInv)'
  OBVIOUS
<1>1. /\ signatures \in Seq(Entry) /\ Len(signatures) \in Nat
      /\ DOMAIN signatures = 1 .. Len(signatures)
      /\ \A n \in DOMAIN signatures : signatures[n] \in Entry
  BY ListIsSeq DEF TypeOK
<1>2. CASE verify
  BY <1>2 DEF verify, TypeOK, LoopInv
<1>3. CASE extend
  <2>1. /\ i \in 1 .. Len(signatures) /\ i' = i + 1
        /\ signatures' = signatures /\ pc' = pc /\ bytes' = bytes
    BY <1>1, <1>3 DEF extend, TypeOK
  <2>2. signatures[i].idx \in 0 .. 31 /\ signatures[i].by \in Keys
    <3>1. signatures[i] \in Entry
      BY <1>1, <2>1
    <3>2. signatures[i].idx \in Keys /\ signatures[i].by \in Keys
      BY <3>1 DEF Entry
    <3> QED
      BY <3>2, KeysInRange
  <2>3. 31 - signatures[i].idx \in 0 .. 31
    BY <2>2
  <2>4. bitmap' \subseteq 0 .. 31 /\ data' \in Seq(Keys)
    <3>1. bitmap' \subseteq 0 .. 31
      BY <1>3, <2>3 DEF extend, TypeOK
    <3>2. data' \in Seq(Keys)
      BY <1>3, <2>2 DEF extend, TypeOK
    <3> QED
      BY <3>1, <3>2
  <2>5. TypeOK'
    BY <1>1, <2>1, <2>4 DEF TypeOK
  <2>6. 1 .. i' - 1 = (1 .. i - 1) \cup {i}
    BY <1>1, <2>1
  <2>7. bitmap' = {31 - signatures[n].idx : n \in 1 .. i - 1} \cup {31 - signatures[i].idx}
    BY <1>3 DEF extend, LoopInv
  <2>8. bitmap' = {31 - signatures'[n].idx : n \in 1 .. i' - 1}
    BY <2>1, <2>6, <2>7
  <2> QED
    BY <1>3, <2>5, <2>8 DEF extend, LoopInv
<1>4. CASE append_bitmap
  <2>1. i = Len(signatures) + 1
    BY <1>1, <1>4 DEF append_bitmap, TypeOK
  <2>2. bytes' \in [1 .. BitmapBytes -> SUBSET (0 .. 7)]
    BY <1>4 DEF append_bitmap, ToBytes
  <2> QED
    BY <1>4, <2>1, <2>2 DEF append_bitmap, TypeOK, LoopInv
<1>5. CASE submit_tx_json
  BY <1>5 DEF submit_tx_json, TypeOK, LoopInv
<1>6. CASE UNCHANGED vars
  BY <1>6 DEF vars, TypeOK, LoopInv
<1> QED
  BY <1>2, <1>3, <1>4, <1>5, <1>6 DEF Next

LEMMA StepData == TypeOK /\ DataInv /\ [Next]_vars => DataInv'
<1> SUFFICES ASSUME TypeOK, DataInv, [Next]_vars PROVE DataInv'
  OBVIOUS
<1>1. CASE verify
  BY <1>1 DEF verify, DataInv
<1>2. CASE extend
  <2>1. /\ signatures' = signatures /\ pc' = pc /\ i' = i + 1
        /\ data' = Append(data, signatures[i].by)
    BY <1>2 DEF extend
  <2>2. i \in Nat /\ i >= 1 /\ data \in Seq(Keys)
    BY ListIsSeq DEF TypeOK
  <2>3. Len(data) = i - 1 /\ Len(data') = i
    BY <2>1, <2>2 DEF DataInv
  <2>4. i' - 1 = i /\ Len(data') = i' - 1
    BY <2>1, <2>2, <2>3
  <2>5. ASSUME NEW n \in 1 .. i PROVE data'[n] = signatures[n].by
    <3>1. CASE n = i
      BY <2>1, <2>2, <2>3, <3>1
    <3>2. CASE n # i
      <4>1. n \in 1 .. i - 1
        BY <2>2, <3>2
      <4>2. data'[n] = data[n]
        BY <2>1, <2>2, <2>3, <4>1
      <4> QED
        BY <4>1, <4>2 DEF DataInv
    <3> QED
      BY <3>1, <3>2
  <2> QED
    BY <2>1, <2>4, <2>5 DEF DataInv
<1>3. CASE append_bitmap
  BY <1>3 DEF append_bitmap, DataInv
<1>4. CASE submit_tx_json
  BY <1>4 DEF submit_tx_json, DataInv
<1>5. CASE UNCHANGED vars
  BY <1>5 DEF vars, DataInv
<1> QED
  BY <1>1, <1>2, <1>3, <1>4, <1>5 DEF Next

LEMMA StepVerdict == VerdictInv /\ [Next]_vars => VerdictInv'
<1> SUFFICES ASSUME VerdictInv, [Next]_vars PROVE VerdictInv'
  OBVIOUS
<1>1. CASE verify
  BY <1>1 DEF verify, VerdictInv
<1>2. CASE extend
  BY <1>2 DEF extend, VerdictInv
<1>3. CASE append_bitmap
  BY <1>3 DEF append_bitmap, VerdictInv
<1>4. CASE submit_tx_json
  BY <1>4 DEF submit_tx_json, VerdictInv
<1>5. CASE UNCHANGED vars
  BY <1>5 DEF vars, VerdictInv
<1> QED
  BY <1>1, <1>2, <1>3, <1>4, <1>5 DEF Next

THEOREM Invariance == Spec => []IInv
<1>1. IInv /\ [Next]_vars => IInv'
  BY StepLoop, StepData, StepVerdict DEF IInv
<1> QED
  BY <1>1, InitInv, PTL DEF Spec

\* The variables keep their types; above all, no digit leaves the four bytes.
THEOREM TypeCorrect == Spec => []TypeOK
<1>1. IInv => TypeOK
  BY DEF IInv
<1> QED
  BY <1>1, Invariance, PTL

\* The node finds in the submitted bytes the positions of the list.
LEMMA SubmittedPositions ==
  ASSUME IInv, pc \in {"submit", "accepted", "rejected"}
  PROVE  Positions(bytes) = {signatures[n].idx : n \in DOMAIN signatures}
<1>1. /\ Len(signatures) \in Nat /\ DOMAIN signatures = 1 .. Len(signatures)
      /\ \A n \in DOMAIN signatures : signatures[n].idx \in 0 .. 31
  <2>1. /\ Len(signatures) \in Nat /\ DOMAIN signatures = 1 .. Len(signatures)
        /\ \A n \in DOMAIN signatures : signatures[n] \in Entry
    BY ListIsSeq DEF IInv, TypeOK
  <2> QED
    BY <2>1, KeysInRange DEF Entry
<1>2. bytes = ToBytes(bitmap) /\ bitmap = {31 - signatures[n].idx : n \in DOMAIN signatures}
  <2>1. i - 1 = Len(signatures)
    BY <1>1 DEF IInv, LoopInv
  <2> QED
    BY <1>1, <2>1 DEF IInv, LoopInv
<1>3. ASSUME NEW x \in 0 .. 31
      PROVE  31 - x \in bitmap <=> \E n \in DOMAIN signatures : signatures[n].idx = x
  <2>1. ASSUME NEW n \in DOMAIN signatures, signatures[n].idx = x PROVE 31 - x \in bitmap
    BY <1>2, <2>1
  <2>2. ASSUME 31 - x \in bitmap PROVE \E n \in DOMAIN signatures : signatures[n].idx = x
    <3>1. PICK n \in DOMAIN signatures : 31 - x = 31 - signatures[n].idx
      BY <1>2, <2>2
    <3>2. signatures[n].idx \in 0 .. 31
      BY <1>1
    <3>3. \A y \in 0 .. 31 : 31 - x = 31 - y => y = x
      OBVIOUS
    <3> QED
      BY <3>1, <3>2, <3>3
  <2> QED
    BY <2>1, <2>2
<1>4. Positions(bytes) = {x \in 0 .. 31 : HasBit(bytes, x)}
  BY DEF Positions, BitmapBytes
<1>5. \A x \in 0 .. 31 : HasBit(bytes, x) <=> 31 - x \in bitmap
  BY <1>2, Digits
<1> QED
  BY <1>1, <1>3, <1>4, <1>5

\* The node finds in the bytes the positions of the list, whatever its order
\* and however many keys there are.
THEOREM PositionsCorrect == Spec => []PositionsSurvive
<1>1. IInv => PositionsSurvive
  BY SubmittedPositions DEF PositionsSurvive
<1> QED
  BY <1>1, Invariance, PTL
-----------------------------------------------------------------------------
(***************************************************************************)
(* Ranks.  A list of N positions is read back from its set by rank exactly *)
(* if it is strictly ascending.                                            *)
(***************************************************************************)
RankIn(P, x) == Cardinality({y \in P : y <= x})
Ascends(f, N) == \A m, n \in 1 .. N : m < n => f[m] < f[n]

\* In an ascending list the rank of a position is its place.
LEMMA AscendingRanks ==
  ASSUME NEW N \in Nat, NEW P, NEW f \in [1 .. N -> 0 .. 31],
         P = {f[n] : n \in 1 .. N}, Ascends(f, N)
  PROVE  Cardinality(P) = N /\ \A n \in 1 .. N : RankIn(P, f[n]) = n
<1>0. \A k \in 1 .. N : f[k] \in 0 .. 31 /\ f[k] \in Nat
  <2>1. \A a \in 0 .. 31 : a \in Nat
    OBVIOUS
  <2>2. ASSUME NEW k \in 1 .. N PROVE f[k] \in 0 .. 31
    OBVIOUS
  <2> QED
    BY <2>1, <2>2
<1>1. ASSUME NEW n \in 0 .. N PROVE Cardinality({f[k] : k \in 1 .. n}) = n
  <2> DEFINE g == [k \in 1 .. n |-> f[k]]
             T == {f[k] : k \in 1 .. n}
  <2>1. ASSUME NEW k \in 1 .. n, NEW l \in 1 .. n, g[k] = g[l] PROVE k = l
    <3>0. k \in 1 .. N /\ l \in 1 .. N
      OBVIOUS
    <3>1. f[k] = f[l] /\ f[k] \in Nat
      BY <2>1, <3>0, <1>0
    <3>2. ~(k < l) /\ ~(l < k)
      BY <3>0, <3>1 DEF Ascends
    <3> QED
      BY <3>2
  <2>2. g \in [1 .. n -> T] /\ \A t \in T : \E k \in 1 .. n : g[k] = t
    OBVIOUS
  <2>3. g \in Bijection(1 .. n, T)
    BY <2>1, <2>2 DEF Bijection, Injection, Surjection, IsInjective
  <2> QED
    BY <2>3, FS_CountingElements DEF ExistsBijection
<1>2. ASSUME NEW n \in 1 .. N PROVE RankIn(P, f[n]) = n
  <2>1. ASSUME NEW k \in 1 .. N PROVE f[k] <= f[n] <=> k <= n
    <3>1. f[k] \in Nat /\ f[n] \in Nat
      BY <1>0
    <3>2. k < n => f[k] < f[n]
      BY DEF Ascends
    <3>3. n < k => f[n] < f[k]
      BY DEF Ascends
    <3> QED
      BY <3>1, <3>2, <3>3
  <2>2. {y \in P : y <= f[n]} = {f[k] : k \in 1 .. n}
    BY <2>1
  <2> QED
    BY <1>1, <2>2 DEF RankIn
<1> QED
  BY <1>1, <1>2

\* A position has a rank from 1 to the number of positions.
LEMMA RanksInRange ==
  ASSUME NEW N \in Nat, NEW P, P \subseteq 0 .. 31, Cardinality(P) = N
  PROVE  \A x \in P : RankIn(P, x) \in 1 .. N
<1> SUFFICES ASSUME NEW x \in P PROVE RankIn(P, x) \in 1 .. N
  OBVIOUS
<1>1. IsFiniteSet(P)
  <2>1. 0 \in Int /\ 31 \in Int
    OBVIOUS
  <2>2. IsFiniteSet(0 .. 31)
    BY <2>1, FS_Interval
  <2> QED
    BY <2>2, FS_Subset
<1>2. x \in {y \in P : y <= x} /\ {y \in P : y <= x} \subseteq P
  OBVIOUS
<1>3. IsFiniteSet({y \in P : y <= x}) /\ RankIn(P, x) \in Nat /\ RankIn(P, x) <= N
  BY <1>1, <1>2, FS_Subset, FS_CardinalityType DEF RankIn
<1>4. RankIn(P, x) # 0
  BY <1>2, <1>3, FS_EmptySet DEF RankIn
<1> QED
  BY <1>3, <1>4

\* A list whose positions are found at their ranks, in as many places as
\* there are positions, is ascending.
LEMMA RanksAscend ==
  ASSUME NEW N \in Nat, NEW P, NEW f \in [1 .. N -> 0 .. 31],
         P = {f[n] : n \in 1 .. N}, Cardinality(P) = N, \A x \in P : f[RankIn(P, x)] = x
  PROVE  Ascends(f, N)
<1>0. /\ \A k \in 1 .. N : f[k] \in Nat
      /\ \A x \in P : x \in Nat
  <2>1. \A a \in 0 .. 31 : a \in Nat
    OBVIOUS
  <2>2. ASSUME NEW k \in 1 .. N PROVE f[k] \in 0 .. 31
    OBVIOUS
  <2>3. \A k \in 1 .. N : f[k] \in Nat
    BY <2>1, <2>2
  <2> QED
    BY <2>3
<1>1. IsFiniteSet(1 .. N) /\ Cardinality(1 .. N) = N
  BY FS_Interval
<1>2. f \in Surjection(1 .. N, P)
  BY DEF Surjection
<1>3. IsFiniteSet(P) /\ \A m, n \in 1 .. N : f[m] = f[n] => m = n
  BY <1>1, <1>2, FS_Surjection DEF Injection, IsInjective
<1>4. ASSUME NEW x \in P PROVE RankIn(P, x) \in 1 .. N
  <2>1. P \subseteq 0 .. 31
    <3>1. ASSUME NEW k \in 1 .. N PROVE f[k] \in 0 .. 31
      OBVIOUS
    <3> QED
      BY <3>1
  <2> QED
    BY <2>1, RanksInRange
<1>5. ASSUME NEW n \in 1 .. N PROVE RankIn(P, f[n]) = n
  BY <1>3, <1>4
<1> SUFFICES ASSUME NEW m \in 1 .. N, NEW n \in 1 .. N, m < n, ~(f[m] < f[n]) PROVE FALSE
  BY DEF Ascends
<1>6. f[m] \in Nat /\ f[n] \in Nat /\ f[n] <= f[m]
  BY <1>0
<1>7. {y \in P : y <= f[n]} \subseteq {y \in P : y <= f[m]}
  BY <1>0, <1>6
<1>8. IsFiniteSet({y \in P : y <= f[m]})
  BY <1>3, FS_Subset
<1>9. RankIn(P, f[n]) <= RankIn(P, f[m])
  BY <1>7, <1>8, FS_Subset DEF RankIn
<1> QED
  BY <1>5, <1>9
-----------------------------------------------------------------------------
\* Of the lists that pass the script's assertion the node accepts exactly the
\* ascending ones: the bytes keep the set of the positions and the order of
\* the signatures, and only in an ascending list does the one tell the other.
THEOREM AscendingAccepted == Spec => []AcceptedIfAscending
<1> DEFINE N == Len(signatures)
           P == Positions(bytes)
           f == [n \in 1 .. N |-> signatures[n].idx]
<1>1. ASSUME IInv, pc \in {"accepted", "rejected"}
      PROVE  /\ N \in Nat /\ DOMAIN signatures = 1 .. N /\ f \in [1 .. N -> 0 .. 31]
             /\ P = {f[n] : n \in 1 .. N} /\ P \subseteq Keys
             /\ N >= Threshold /\ Len(data) = N /\ \A n \in 1 .. N : data[n] = f[n]
  <2>1. /\ N \in Nat /\ DOMAIN signatures = 1 .. N
        /\ \A n \in 1 .. N : signatures[n] \in Entry
    BY <1>1, ListIsSeq DEF IInv, TypeOK
  <2>2. \A n \in 1 .. N : f[n] \in Keys /\ f[n] \in 0 .. 31
    BY <2>1, KeysInRange DEF Entry
  <2>3. f \in [1 .. N -> 0 .. 31]
    BY <2>2
  <2>4. P = {f[n] : n \in 1 .. N}
    BY <1>1, <2>1, SubmittedPositions
  <2>5. P \subseteq Keys
    BY <2>2, <2>4
  <2>6. i - 1 = N
    BY <1>1, <2>1 DEF IInv, LoopInv
  <2>7. N >= Threshold /\ \A n \in 1 .. N : signatures[n].by = signatures[n].idx
    BY <1>1, <2>1 DEF IInv, DataInv, Verifies
  <2>8. Len(data) = N /\ \A n \in 1 .. N : data[n] = f[n]
    BY <1>1, <2>6, <2>7 DEF IInv, DataInv
  <2> QED
    BY <2>1, <2>3, <2>4, <2>5, <2>7, <2>8
<1>2. \A x : Rank(bytes, x) = RankIn(P, x)
  BY DEF Rank, RankIn
<1>3. ASSUME IInv, pc = "accepted"
      PROVE  Verifies(signatures) /\ Ascends(f, N)
  <2>1. Verifies(signatures) /\ Accepts(data, bytes)
    BY <1>3 DEF IInv, DataInv, VerdictInv
  <2>2. /\ N \in Nat /\ f \in [1 .. N -> 0 .. 31] /\ P = {f[n] : n \in 1 .. N}
        /\ Len(data) = N /\ \A n \in 1 .. N : data[n] = f[n]
    BY <1>1, <1>3
  <2>3. Cardinality(P) = N /\ \A x \in P : data[RankIn(P, x)] = x
    BY <1>2, <2>1, <2>2 DEF Accepts
  <2>4. \A x \in P : RankIn(P, x) \in 1 .. N
    <3>1. P \subseteq 0 .. 31
      BY DEF Positions, BitmapBytes
    <3> HIDE DEF P, N
    <3> QED
      BY <2>2, <2>3, <3>1, RanksInRange
  <2>5. \A x \in P : f[RankIn(P, x)] = x
    BY <2>2, <2>3, <2>4
  <2>6. Ascends(f, N)
    BY <2>2, <2>3, <2>5, RanksAscend
  <2> QED
    BY <2>1, <2>6
<1>4. ASSUME IInv, pc = "rejected" PROVE ~Ascends(f, N)
  <2> SUFFICES ASSUME Ascends(f, N) PROVE FALSE
    OBVIOUS
  <2>1. /\ N \in Nat /\ f \in [1 .. N -> 0 .. 31] /\ P = {f[n] : n \in 1 .. N}
        /\ P \subseteq Keys /\ N >= Threshold
        /\ Len(data) = N /\ \A n \in 1 .. N : data[n] = f[n]
    BY <1>1, <1>4
  <2>2. Cardinality(P) = N /\ \A n \in 1 .. N : RankIn(P, f[n]) = n
    <3> HIDE DEF f, P, N
    <3> QED
      BY <2>1, AscendingRanks
  <2>3. ASSUME NEW x \in P PROVE data[Rank(bytes, x)] = x
    <3>1. PICK n \in 1 .. N : x = f[n]
      BY <2>1
    <3> QED
      BY <1>2, <2>1, <2>2, <3>1
  <2>4. Accepts(data, bytes)
    BY <2>1, <2>2, <2>3 DEF Accepts
  <2> QED
    BY <1>4, <2>4 DEF IInv, VerdictInv
<1>5. IInv => AcceptedIfAscending
  <2>1. ASSUME IInv, pc = "accepted"
        PROVE  /\ Verifies(signatures)
               /\ \A m, n \in DOMAIN signatures :
                    m < n => signatures[m].idx < signatures[n].idx
    BY <1>1, <1>3, <2>1 DEF Ascends
  <2>2. ASSUME IInv, pc = "rejected"
        PROVE  \E m, n \in DOMAIN signatures :
                 m < n /\ signatures[m].idx >= signatures[n].idx
    <3>1. PICK m \in 1 .. N, n \in 1 .. N : m < n /\ ~(f[m] < f[n])
      BY <1>4, <2>2 DEF Ascends
    <3>2. DOMAIN signatures = 1 .. N /\ f[m] \in 0 .. 31 /\ f[n] \in 0 .. 31
      BY <1>1, <2>2
    <3>3. f[m] >= f[n]
      <4>1. \A a, b \in 0 .. 31 : ~(a < b) => a >= b
        OBVIOUS
      <4> HIDE DEF f
      <4> QED
        BY <3>1, <3>2, <4>1
    <3> QED
      BY <3>1, <3>2, <3>3
  <2> QED
    BY <2>1, <2>2 DEF AcceptedIfAscending
<1> QED
  BY <1>5, Invariance, PTL
=============================================================================
