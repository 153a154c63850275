-------------------------- MODULE BlockScan_proofs --------------------------
(***************************************************************************)
(* Proofs about BlockScan, for a chain of any length, any starting height  *)
(* and any number of polls.                                                *)
(***************************************************************************)
EXTENDS BlockScan, FiniteSetTheorems, TLAPS

BlockType == [round : Nat, txs : SUBSET Txs]

Types ==
  /\ blocks \in Seq(BlockType)
  /\ scan \in [pc : {"start", "end", "walk", "found", "ended", "crashed"},
               from : Nat, to : Nat, h : Nat]
  /\ check \in [pc : {"wait", "block", "round", "printed", "crashed"},
                polls : Nat, height : Nat, round : Nat, timeouts : Int]

\* The rounds of the chain grow from block to block.
RoundsInv == \A g, h \in Heights : g < h => Block(g).round < Block(h).round

\* The walk has left behind only blocks without the target, and it ends
\* beyond the last height.
WalkInv ==
  /\ \A h \in First .. scan.h - 1 : h \in Heights /\ Target \notin Block(h).txs
  /\ scan.pc = "ended" => scan.to < scan.h

\* What check_transaction has read is still in the chain.
CheckInv ==
  /\ check.pc \in {"round", "printed"} =>
       check.height \in Heights /\ check.round = Block(check.height).round
  /\ check.pc = "printed" =>
       /\ check.height - 1 \in Heights
       /\ check.timeouts = TimeoutRounds(check.round, Block(check.height - 1).round)

IInv == Types /\ RoundsInv /\ WalkInv /\ CheckInv

LEMMA InitInv == Init => IInv
<1> SUFFICES ASSUME Init PROVE IInv
  OBVIOUS
<1>1. Types
  BY ScanAssumption DEF Init, Types
<1>2. Heights = {}
  BY DEF Init, Heights
<1>3. First .. scan.h - 1 = {}
  BY ScanAssumption DEF Init
<1> QED
  BY <1>1, <1>2, <1>3 DEF Init, IInv, RoundsInv, WalkInv, CheckInv

\* A height of the chain has a block with a round.
LEMMA BlockFacts ==
  ASSUME Types
  PROVE  /\ Len(blocks) \in Nat
         /\ \A h \in Heights : /\ h \in Nat /\ h < Len(blocks)
                               /\ Block(h) \in BlockType /\ Block(h).round \in Nat
<1>1. Len(blocks) \in Nat
  BY DEF Types
<1>2. ASSUME NEW h \in Heights PROVE h \in Nat /\ h < Len(blocks) /\ h + 1 \in 1 .. Len(blocks)
  BY <1>1 DEF Heights
<1>3. ASSUME NEW h \in Heights PROVE Block(h) \in BlockType
  BY <1>2 DEF Types, Block
<1> QED
  BY <1>1, <1>2, <1>3 DEF BlockType

LEMMA Appended ==
  ASSUME NEW s \in Seq(BlockType), NEW b \in BlockType
  PROVE  /\ Append(s, b) \in Seq(BlockType) /\ Len(Append(s, b)) = Len(s) + 1
         /\ Append(s, b)[Len(s) + 1] = b
         /\ \A k \in 1 .. Len(s) : Append(s, b)[k] = s[k]
  OBVIOUS

\* A new block leaves the others where they are.
LEMMA ExtendStep ==
  ASSUME IInv, Extend
  PROVE  IInv'
<1> USE DEF IInv
<1>0. PICK n : n = Len(blocks)
  OBVIOUS
<1>1. PICK txs \in SUBSET {t \in Txs : HeightsOf(t) = {}}, round \in 1 .. MaxRound :
        /\ blocks # <<>> => round > Block(n - 1).round
        /\ blocks' = Append(blocks, [round |-> round, txs |-> txs])
  BY <1>0 DEF Extend
<1>2. scan' = scan /\ check' = check
  BY DEF Extend
<1>3. [round |-> round, txs |-> txs] \in BlockType /\ round \in Nat
  BY ScanAssumption DEF BlockType
<1>4. /\ n \in Nat /\ blocks \in Seq(BlockType) /\ blocks' \in Seq(BlockType)
      /\ Len(blocks') = n + 1 /\ blocks'[n + 1] = [round |-> round, txs |-> txs]
      /\ \A k \in 1 .. n : blocks'[k] = blocks[k]
  <2>1. blocks \in Seq(BlockType) /\ Len(blocks) \in Nat
    BY DEF Types
  <2> QED
    BY <1>0, <1>1, <1>3, <2>1, Appended
<1>5. Heights = 0 .. n - 1 /\ Heights' = 0 .. n
  BY <1>0, <1>4 DEF Heights
<1>6. \A h \in Heights : h \in Heights' /\ Block(h)' = Block(h)
  BY <1>4, <1>5 DEF Block
<1>7. n \in Heights' /\ Block(n)'.round = round /\ \A h \in Heights' : h \in Heights \/ h = n
  BY <1>4, <1>5 DEF Block
<1>8. ASSUME NEW g \in Heights PROVE Block(g).round < round
  <2>1. blocks # <<>> /\ n - 1 \in Heights /\ g <= n - 1
    BY <1>0, <1>4, <1>5
  <2>2. Block(n - 1).round < round /\ Block(n - 1).round \in Nat /\ Block(g).round \in Nat
    BY <1>1, <1>3, <2>1, BlockFacts
  <2>3. g = n - 1 \/ Block(g).round < Block(n - 1).round
    BY <1>4, <1>5, <2>1 DEF RoundsInv
  <2> QED
    BY <1>3, <2>2, <2>3
<1>9. Types'
  BY <1>2, <1>4 DEF Types
<1>10. RoundsInv'
  <2> SUFFICES ASSUME NEW g \in Heights', NEW h \in Heights', g < h
               PROVE  Block(g)'.round < Block(h)'.round
    BY DEF RoundsInv
  <2>1. g \in Heights
    BY <1>4, <1>5
  <2>2. CASE h \in Heights
    BY <1>6, <2>1, <2>2 DEF RoundsInv
  <2>3. CASE h = n
    BY <1>6, <1>7, <1>8, <2>1, <2>3
  <2> QED
    BY <1>7, <2>2, <2>3
<1>11. WalkInv'
  BY <1>2, <1>6 DEF WalkInv
<1>12. CheckInv'
  BY <1>2, <1>6 DEF CheckInv
<1> QED
  BY <1>9, <1>10, <1>11, <1>12

LEMMA WalkStep ==
  ASSUME IInv, get_block_txs
  PROVE  IInv'
<1> USE DEF IInv
<1>1. scan.pc = "walk" /\ blocks' = blocks /\ check' = check
  BY DEF get_block_txs
<1>2. scan.h \in Nat /\ scan.to \in Nat
  BY DEF Types
<1>3. Heights' = Heights /\ \A h : Block(h)' = Block(h)
  BY <1>1 DEF Heights, Block
<1>4. RoundsInv' /\ CheckInv'
  BY <1>1, <1>3 DEF RoundsInv, CheckInv
<1>5. CASE ~InRange(scan.h) /\ scan' = [scan EXCEPT !.pc = "ended"]
  <2>1. scan.to < scan.h
    BY <1>2, <1>5 DEF InRange
  <2>2. scan'.h = scan.h /\ scan'.to = scan.to
    BY <1>5 DEF Types
  <2>3. Types'
    BY <1>1, <1>5 DEF Types
  <2> QED
    BY <1>3, <1>4, <2>1, <2>2, <2>3 DEF WalkInv
<1>6. ASSUME NEW pc \in {"crashed", "found"}, scan' = [scan EXCEPT !.pc = pc] PROVE IInv'
  <2>1. scan'.h = scan.h /\ scan'.pc # "ended"
    BY <1>6 DEF Types
  <2>2. Types'
    BY <1>1, <1>6 DEF Types
  <2> QED
    BY <1>3, <1>4, <2>1, <2>2 DEF WalkInv
<1>7. CASE /\ scan.h \in Heights /\ Target \notin Block(scan.h).txs
           /\ scan' = [scan EXCEPT !.h = @ + 1]
  <2>1. scan'.h = scan.h + 1 /\ scan'.pc = "walk"
    BY <1>1, <1>7 DEF Types
  <2>2. scan' \in [pc : {"start", "end", "walk", "found", "ended", "crashed"},
                   from : Nat, to : Nat, h : Nat]
    BY <1>2, <1>7 DEF Types
  <2>3. \A h \in First .. scan'.h - 1 : h \in First .. scan.h - 1 \/ h = scan.h
    BY <1>2, <2>1, ScanAssumption
  <2>4. \A h \in First .. scan'.h - 1 : h \in Heights /\ Target \notin Block(h).txs
    BY <1>7, <2>3 DEF WalkInv
  <2> QED
    BY <1>1, <1>3, <1>4, <2>1, <2>2, <2>4 DEF WalkInv, Types
<1> QED
  BY <1>5, <1>6, <1>7 DEF get_block_txs

\* The steps that leave the chain and the position of the walk alone.
LEMMA LookupStep ==
  ASSUME IInv, get_transaction_block_height
  PROVE  IInv'
<1> USE DEF IInv
<1>1. blocks' = blocks /\ check' = check
  BY DEF get_transaction_block_height
<1>2. \A t \in Txs : HeightsOf(t) \subseteq Nat
  BY BlockFacts DEF HeightsOf
<1>3. Types' /\ scan'.h = scan.h /\ scan'.pc # "ended"
  <2>1. CASE scan' = [scan EXCEPT !.pc = "crashed"]
    BY <1>1, <2>1 DEF Types
  <2>2. ASSUME NEW h \in Nat, scan' = [scan EXCEPT !.pc = "end", !.from = h]
        PROVE  Types' /\ scan'.h = scan.h /\ scan'.pc # "ended"
    BY <1>1, <2>2 DEF Types
  <2>3. ASSUME NEW h \in Nat, scan' = [scan EXCEPT !.pc = "walk", !.to = h]
        PROVE  Types' /\ scan'.h = scan.h /\ scan'.pc # "ended"
    BY <1>1, <2>3 DEF Types
  <2>4. Start \in Txs /\ End \in Txs
    BY DEF Txs
  <2> QED
    BY <1>2, <2>1, <2>2, <2>3, <2>4 DEF get_transaction_block_height
<1>4. Heights' = Heights /\ \A h : Block(h)' = Block(h)
  BY <1>1 DEF Heights, Block
<1> QED
  BY <1>1, <1>3, <1>4 DEF RoundsInv, WalkInv, CheckInv

\* The steps of check_transaction, given what they make of it.
LEMMA CheckStep ==
  ASSUME IInv, blocks' = blocks, scan' = scan,
         check' \in [pc : {"wait", "block", "round", "printed", "crashed"},
                     polls : Nat, height : Nat, round : Nat, timeouts : Int],
         CheckInv'
  PROVE  IInv'
<1>1. Heights' = Heights /\ \A h : Block(h)' = Block(h)
  BY DEF Heights, Block
<1> QED
  BY <1>1 DEF IInv, Types, RoundsInv, WalkInv

LEMMA StepInv == IInv /\ [Next]_vars => IInv'
<1> SUFFICES ASSUME IInv, [Next]_vars PROVE IInv'
  OBVIOUS
<1> DEFINE CheckType == [pc : {"wait", "block", "round", "printed", "crashed"},
                         polls : Nat, height : Nat, round : Nat, timeouts : Int]
<1>0. check \in CheckType /\ (blocks' = blocks => Heights' = Heights /\ \A h : Block(h)' = Block(h))
  BY DEF IInv, Types, Heights, Block
<1>1. CASE wait_for_tx
  <2>1. blocks' = blocks /\ scan' = scan
    BY <1>1 DEF wait_for_tx
  <2>2. PICK pc \in {"wait", "block"}, polls \in Nat :
          check' = [check EXCEPT !.polls = polls, !.pc = pc]
    <3>1. check.pc = "wait" /\ check.polls + 1 \in Nat
      BY <1>0, <1>1 DEF wait_for_tx
    <3> QED
      BY <1>1, <3>1 DEF wait_for_tx
  <2>3. check' \in CheckType /\ CheckInv'
    BY <1>0, <2>2 DEF CheckInv
  <2> QED
    BY <2>1, <2>3, CheckStep
<1>2. CASE get_transaction_block
  <2>1. blocks' = blocks /\ scan' = scan
    BY <1>2 DEF get_transaction_block
  <2>2. CASE check' = [check EXCEPT !.pc = "crashed"]
    <3>1. check' \in CheckType /\ CheckInv'
      BY <1>0, <2>2 DEF CheckInv
    <3> QED
      BY <2>1, <3>1, CheckStep
  <2>3. ASSUME NEW h \in HeightsOf(Target),
               check' = [check EXCEPT !.pc = "round", !.height = h, !.round = Block(h).round]
        PROVE  IInv'
    <3>1. h \in Heights /\ h \in Nat /\ Block(h).round \in Nat
      BY BlockFacts DEF HeightsOf, IInv
    <3>2. check' \in CheckType
      BY <1>0, <2>3, <3>1
    <3>3. check'.pc = "round" /\ check'.height = h /\ check'.round = Block(h).round
      BY <1>0, <2>3
    <3>4. CheckInv'
      BY <1>0, <2>1, <3>1, <3>3 DEF CheckInv
    <3> QED
      BY <2>1, <3>2, <3>4, CheckStep
  <2> QED
    BY <1>2, <2>2, <2>3 DEF get_transaction_block
<1>3. CASE get_block_round_by_height
  <2>1. blocks' = blocks /\ scan' = scan /\ check.pc = "round"
    BY <1>3 DEF get_block_round_by_height
  <2>2. CASE check' = [check EXCEPT !.pc = "crashed"]
    <3>1. check' \in CheckType /\ CheckInv'
      BY <1>0, <2>2 DEF CheckInv
    <3> QED
      BY <2>1, <3>1, CheckStep
  <2>3. CASE /\ check.height - 1 \in Heights
             /\ check' = [check EXCEPT !.pc = "printed",
                  !.timeouts = TimeoutRounds(check.round, Block(check.height - 1).round)]
    <3>1. TimeoutRounds(check.round, Block(check.height - 1).round) \in Int
      BY <1>0, <2>3, BlockFacts DEF TimeoutRounds, IInv
    <3>2. check' \in CheckType
      BY <1>0, <2>3, <3>1
    <3>3. /\ check'.pc = "printed" /\ check'.height = check.height /\ check'.round = check.round
          /\ check'.timeouts = TimeoutRounds(check.round, Block(check.height - 1).round)
      BY <1>0, <2>3
    <3>4. check.height \in Heights /\ check.round = Block(check.height).round
      BY <2>1 DEF IInv, CheckInv
    <3>5. CheckInv'
      BY <1>0, <2>1, <2>3, <3>3, <3>4 DEF CheckInv, TimeoutRounds
    <3> QED
      BY <2>1, <3>2, <3>5, CheckStep
  <2> QED
    BY <1>3, <2>2, <2>3 DEF get_block_round_by_height
<1>4. CASE raise
  <2>1. CASE scan' = [scan EXCEPT !.pc = "crashed"] /\ blocks' = blocks /\ check' = check
    <3>1. Types' /\ scan'.h = scan.h /\ scan'.pc = "crashed"
      BY <2>1 DEF IInv, Types
    <3> QED
      BY <1>0, <2>1, <3>1 DEF IInv, RoundsInv, WalkInv, CheckInv
  <2>2. CASE check' = [check EXCEPT !.pc = "crashed"] /\ blocks' = blocks /\ scan' = scan
    <3>1. check' \in CheckType /\ CheckInv'
      BY <1>0, <2>2 DEF CheckInv
    <3> QED
      BY <2>2, <3>1, CheckStep
  <2> QED
    BY <1>4, <2>1, <2>2 DEF raise
<1>5. CASE UNCHANGED vars
  <2>1. CheckInv'
    BY <1>0, <1>5 DEF vars, IInv, CheckInv
  <2> QED
    BY <1>0, <1>5, <2>1, CheckStep DEF vars
<1> QED
  BY <1>1, <1>2, <1>3, <1>4, <1>5, ExtendStep, LookupStep, WalkStep DEF Next

THEOREM Invariance == Spec => []IInv
  BY InitInv, StepInv, PTL DEF Spec
-----------------------------------------------------------------------------
\* A scan that ends without a find has missed a target in its range only
\* below the height at which it starts, whatever the chain does meanwhile.
THEOREM MissesExplained == Spec => []MissExplained
<1>1. IInv => MissExplained
  <2> SUFFICES ASSUME IInv, scan.pc = "ended", NEW h \in HeightsOf(Target), h \in scan.from .. scan.to
               PROVE  h < First
    BY DEF MissExplained
  <2>1. h \in Heights /\ Target \in Block(h).txs /\ h \in Nat
    BY BlockFacts DEF HeightsOf, IInv
  <2>2. h < scan.h /\ scan.h \in Nat
    BY <2>1 DEF IInv, Types, WalkInv
  <2>3. h \notin First .. scan.h - 1
    BY <2>1 DEF IInv, WalkInv
  <2> QED
    BY <2>1, <2>2, <2>3, ScanAssumption
<1> QED
  BY <1>1, Invariance, PTL

\* The rounds between two blocks of which one follows the other are those
\* that made no block, and there are as many as the difference says.
THEOREM TimeoutsCorrect == Spec => []TimeoutsCounted
<1>1. IInv => TimeoutsCounted
  <2> SUFFICES ASSUME IInv, check.pc = "printed"
               PROVE  check.timeouts =
                        Cardinality({n \in Block(check.height - 1).round + 1 .. check.round - 1 :
                                       \A h \in Heights : Block(h).round # n})
    BY DEF TimeoutsCounted
  <2> DEFINE p == check.height - 1
             a == Block(p).round + 1
             b == check.round - 1
  <2>1. /\ p \in Heights /\ check.height \in Heights /\ p < check.height
        /\ check.round = Block(check.height).round
        /\ check.timeouts = check.round - Block(p).round - 1
    BY BlockFacts DEF IInv, CheckInv, TimeoutRounds
  <2>2. Block(p).round \in Nat /\ check.round \in Nat /\ Block(p).round < check.round
    BY <2>1, BlockFacts DEF IInv, RoundsInv
  <2>3. ASSUME NEW n \in a .. b, NEW h \in Heights PROVE Block(h).round # n
    <3>1. Block(h).round \in Nat /\ h \in Nat /\ check.height \in Nat
      BY <2>1, BlockFacts DEF IInv
    <3>2. h < p \/ h = p \/ h = check.height \/ check.height < h
      BY <3>1
    <3>3. h < p => Block(h).round < Block(p).round
      BY <2>1 DEF IInv, RoundsInv
    <3>4. check.height < h => check.round < Block(h).round
      BY <2>1 DEF IInv, RoundsInv
    <3> QED
      BY <2>1, <2>2, <3>1, <3>2, <3>3, <3>4
  <2>4. {n \in a .. b : \A h \in Heights : Block(h).round # n} = a .. b
    BY <2>3
  <2>5. a \in Int /\ b \in Int
    BY <2>2
  <2>6. Cardinality(a .. b) = IF a > b THEN 0 ELSE b - a + 1
    BY <2>5, FS_Interval
  <2>7. check.timeouts = IF a > b THEN 0 ELSE b - a + 1
    BY <2>1, <2>2
  <2> QED
    BY <2>4, <2>6, <2>7
<1> QED
  BY <1>1, Invariance, PTL
=============================================================================
