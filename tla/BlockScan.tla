----------------------------- MODULE BlockScan -----------------------------
(***************************************************************************)
(* The two scripts that search the chain, while it grows: scan_blocks.py   *)
(* looks for a transaction in the blocks from a fixed height to that of    *)
(* another transaction, and check_transaction.py waits for a transaction   *)
(* and compares the round of its block with that of the block before.      *)
(*                                                                         *)
(* The chain is external: a block at height h is blocks[h + 1], rounds     *)
(* grow from block to block, and a round that produces no block times out. *)
(* A query for what is not there, or one that is answered with no JSON,    *)
(* ends the script with a KeyError.                                        *)
(***************************************************************************)
EXTENDS Integers, FiniteSets, Sequences

CONSTANTS Start, End, Target,  \* start_tx_hash, end_tx_hash, target_tx_hash
          First,      \* 637230, where the walk starts
          MaxPolls,   \* the repeat of wait_for_tx
          MaxHeight,  \* bound on the chain
          MaxRound    \* bound on its rounds

ASSUME ScanAssumption ==
  First \in Nat /\ MaxPolls \in Nat /\ MaxHeight \in Nat /\ MaxRound \in Nat

VARIABLES blocks,  \* the blocks by height, each with its round and transactions
          scan,    \* scan_blocks: pc, the heights found and the next to visit
          check    \* check_transaction: pc, polls, the block's height and round

vars == <<blocks, scan, check>>

Txs == {Start, End, Target}
Heights == 0 .. Len(blocks) - 1
Block(h) == blocks[h + 1]

\* The heights at which t is found: none until it is in a block.
HeightsOf(t) == {h \in Heights : t \in Block(h).txs}

Init ==
  /\ blocks = <<>>
  /\ scan = [pc |-> "start", from |-> 0, to |-> 0, h |-> First]
  /\ check = [pc |-> "wait", polls |-> 0, height |-> 0, round |-> 0, timeouts |-> 0]

\* The chain grows by a block with any transactions that wait for one.
Extend ==
  /\ Len(blocks) <= MaxHeight
  /\ \E txs \in SUBSET {t \in Txs : HeightsOf(t) = {}}, round \in 1 .. MaxRound :
       /\ blocks # <<>> => round > Block(Len(blocks) - 1).round
       /\ blocks' = Append(blocks, [round |-> round, txs |-> txs])
  /\ UNCHANGED <<scan, check>>
-----------------------------------------------------------------------------
(***************************************************************************)
(* Mutated forms of the definitions below.                                 *)
(***************************************************************************)
\* range(637230, end_block_height): the last block is not looked at.
InRangeExclusive(h) == h < scan.to

\* The rounds are subtracted, and the one that made the block is counted too.
TimeoutsBetween(round, previous) == round - previous
-----------------------------------------------------------------------------
\* h in range(637230, end_block_height + 1)
InRange(h) == h < scan.to + 1

\* rnd - previous_rnd - 1
TimeoutRounds(round, previous) == round - previous - 1

\* The two heights are looked up; the first one is printed and not used.
get_transaction_block_height ==
  /\ scan.pc \in {"start", "end"}
  /\ LET starting == scan.pc = "start"
         found == HeightsOf(IF starting THEN Start ELSE End)
     IN IF found = {} THEN scan' = [scan EXCEPT !.pc = "crashed"]
        ELSE \E h \in found :
               scan' = IF starting THEN [scan EXCEPT !.pc = "end", !.from = h]
                                   ELSE [scan EXCEPT !.pc = "walk", !.to = h]
  /\ UNCHANGED <<blocks, check>>

\* One height of the walk; the script says nothing when it ends without a find.
get_block_txs ==
  /\ scan.pc = "walk"
  /\ scan' = IF ~InRange(scan.h) THEN [scan EXCEPT !.pc = "ended"]
             ELSE IF scan.h \notin Heights THEN [scan EXCEPT !.pc = "crashed"]
             ELSE IF Target \in Block(scan.h).txs THEN [scan EXCEPT !.pc = "found"]
             ELSE [scan EXCEPT !.h = @ + 1]
  /\ UNCHANGED <<blocks, check>>

\* check_first, and then the rounds of the loop, which only Success cuts short:
\* a transaction that failed is in a block as well.
wait_for_tx ==
  /\ check.pc = "wait"
  /\ \E success \in BOOLEAN :
       /\ success => HeightsOf(Target) # {}
       /\ check' = [check EXCEPT !.polls = @ + 1,
                      !.pc = IF success \/ check.polls = MaxPolls THEN "block" ELSE @]
  /\ UNCHANGED <<blocks, scan>>

\* The block time and the height, which only a transaction in a block has.
get_transaction_block ==
  /\ check.pc = "block"
  /\ IF HeightsOf(Target) = {} THEN check' = [check EXCEPT !.pc = "crashed"]
     ELSE \E h \in HeightsOf(Target) :
            check' = [check EXCEPT !.pc = "round", !.height = h, !.round = Block(h).round]
  /\ UNCHANGED <<blocks, scan>>

\* The round of the block before; below the first block there is none.
get_block_round_by_height ==
  /\ check.pc = "round"
  /\ check' =
       IF check.height - 1 \notin Heights THEN [check EXCEPT !.pc = "crashed"]
       ELSE [check EXCEPT !.pc = "printed",
               !.timeouts = TimeoutRounds(check.round, Block(check.height - 1).round)]
  /\ UNCHANGED <<blocks, scan>>

Scanning == scan.pc \in {"start", "end", "walk"}
Checking == check.pc \in {"wait", "block", "round"}

\* A query fails or is answered with no JSON.
raise ==
  \/ Scanning /\ scan' = [scan EXCEPT !.pc = "crashed"] /\ UNCHANGED <<blocks, check>>
  \/ Checking /\ check' = [check EXCEPT !.pc = "crashed"] /\ UNCHANGED <<blocks, scan>>

Next == \/ Extend \/ get_transaction_block_height \/ get_block_txs
        \/ wait_for_tx \/ get_transaction_block \/ get_block_round_by_height \/ raise

Spec == Init /\ [][Next]_vars
-----------------------------------------------------------------------------
\* A scan that ends without a find has missed a target in the range that it
\* announces, "Start block height ..., end block height ...", only if the
\* target lies below the height at which the walk starts; as the blocks up to
\* the end were there already, this stays so while the chain grows.
MissExplained ==
  scan.pc = "ended" =>
    \A h \in HeightsOf(Target) : h \in scan.from .. scan.to => h < First

\* "timeout rounds" counts the rounds before the block that made no block.
TimeoutsCounted ==
  check.pc = "printed" =>
    check.timeouts =
      Cardinality({n \in Block(check.height - 1).round + 1 .. check.round - 1 :
                     \A h \in Heights : Block(h).round # n})
=============================================================================
