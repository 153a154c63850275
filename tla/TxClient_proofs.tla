-------------------------- MODULE TxClient_proofs --------------------------
(***************************************************************************)
(* TxClient's safety properties, and its implementation of the account's   *)
(* ledger, for any number of terminals, runs, transfers and polls.         *)
(***************************************************************************)
EXTENDS TxClient, TLAPS

\* A run that still polls has polls left.
PollInv == \A c \in Clients : run[c].polls < MaxPolls

\* No sequence number that was read, signed or taken in is ahead of the chain.
SeqInv ==
  /\ \A c \in Clients :
       /\ run[c].pc = "create" => run[c].seq <= next
       /\ run[c].pc = "send" => run[c].tx \in Tx /\ run[c].tx.seq <= next
  /\ NeverAhead

\* The lower max_gas is chosen, signed and taken in only if the recipient
\* exists or a lookup went wrong, neither of which is ever undone.
GasInv ==
  /\ \A c \in Clients :
       /\ run[c].gas = Short => exists \/ misled
       /\ run[c].pc = "send" /\ run[c].tx.gas = Short => exists \/ misled
  /\ \A t \in pool : t.gas = Short => exists \/ misled
  /\ OutOfGasExplained

\* The chain has one transaction with one outcome for each sequence number
\* below the next.
ChainInv ==
  /\ \A t \in Committed : t.seq < next
  /\ \A n \in 0 .. next - 1 : \E t \in Committed : t.seq = n
  /\ \A d, e \in committed : d.tx.seq = e.tx.seq => d = e

\* What a terminal has reported is on the chain, with sequence numbers below
\* the one that its run has got hold of.
ReportInv ==
  \A c \in Clients : \A r \in Range(reported[c]) :
    /\ r.tx \in Committed
    /\ run[c].pc = "create" => r.tx.seq < run[c].seq
    /\ run[c].pc = "send" => r.tx.seq < run[c].tx.seq
    /\ run[c].pc \in {"wait", "block"} /\ run[c].hash # NoTx => r.tx.seq < run[c].hash.seq

\* A run that has seen Success, or a terminal that has printed it, has done so
\* for a transaction that succeeded.
SuccessInv ==
  \A c \in Clients :
    /\ run[c].status = "Success" => run[c].pc = "block" /\ Succeeded(run[c].hash)
    /\ \A r \in Range(reported[c]) : r.status = "Success" => Succeeded(r.tx)

IInv == TypeOK /\ PollInv /\ SeqInv /\ GasInv /\ ChainInv /\ ReportInv /\ SuccessInv

\* A sequence that gets longer by one element has this one besides its others.
LEMMA RangeOfAppend ==
  ASSUME NEW S, NEW s \in Seq(S), NEW x \in S
  PROVE  Append(s, x) \in Seq(S) /\ Range(Append(s, x)) = Range(s) \cup {x}
<1>1. /\ DOMAIN Append(s, x) = 1 .. Len(s) + 1 /\ DOMAIN s = 1 .. Len(s) /\ Len(s) \in Nat
      /\ Append(s, x)[Len(s) + 1] = x
      /\ \A n \in 1 .. Len(s) : Append(s, x)[n] = s[n]
  OBVIOUS
<1>2. ASSUME NEW y \in Range(Append(s, x)) PROVE y \in Range(s) \cup {x}
  BY <1>1 DEF Range
<1>3. ASSUME NEW y \in Range(s) \cup {x} PROVE y \in Range(Append(s, x))
  BY <1>1 DEF Range
<1> QED
  BY <1>2, <1>3

\* What the steps of a run make of its locals are locals.
LEMMA LocalsClosed ==
  /\ \A pc \in Active \cup {"idle", "done", "crashed"} : [NewRun EXCEPT !.pc = pc] \in Locals
  /\ NewRun \in Locals
  /\ \A l \in Locals :
       /\ \A gas \in {Short, Long} : [l EXCEPT !.pc = "loop", !.gas = gas] \in Locals
       /\ \A n \in 0 .. Repeat, gas \in {Short, Long} :
            [l EXCEPT !.pc = "loop", !.round = n, !.gas = gas] \in Locals
       /\ \A n \in Nat : [l EXCEPT !.pc = "create", !.seq = n] \in Locals
       /\ \A t \in Tx : [l EXCEPT !.pc = "send", !.tx = t] \in Locals
       /\ \A h \in Tx \cup {NoTx} :
            [l EXCEPT !.pc = "wait", !.seq = 0, !.tx = NoTx, !.hash = h] \in Locals
       /\ \A n \in 0 .. MaxPolls : [l EXCEPT !.polls = n] \in Locals
       /\ \A status \in Statuses :
            [l EXCEPT !.pc = "block", !.polls = 0, !.status = status] \in Locals
<1>1. /\ \A pc \in Active \cup {"idle", "done", "crashed"} : [NewRun EXCEPT !.pc = pc] \in Locals
      /\ NewRun \in Locals
  BY BoundsAssumption DEF NewRun, Locals, Short, Long, Active, Statuses
<1> SUFFICES ASSUME NEW l \in Locals
             PROVE  /\ \A gas \in {Short, Long} : [l EXCEPT !.pc = "loop", !.gas = gas] \in Locals
                    /\ \A n \in 0 .. Repeat, gas \in {Short, Long} :
                         [l EXCEPT !.pc = "loop", !.round = n, !.gas = gas] \in Locals
                    /\ \A n \in Nat : [l EXCEPT !.pc = "create", !.seq = n] \in Locals
                    /\ \A t \in Tx : [l EXCEPT !.pc = "send", !.tx = t] \in Locals
                    /\ \A h \in Tx \cup {NoTx} :
                         [l EXCEPT !.pc = "wait", !.seq = 0, !.tx = NoTx, !.hash = h] \in Locals
                    /\ \A n \in 0 .. MaxPolls : [l EXCEPT !.polls = n] \in Locals
                    /\ \A status \in Statuses :
                         [l EXCEPT !.pc = "block", !.polls = 0, !.status = status] \in Locals
  BY <1>1
<1> USE DEF Locals, Active
<1>2. \A gas \in {Short, Long} : [l EXCEPT !.pc = "loop", !.gas = gas] \in Locals
  OBVIOUS
<1>7. \A n \in 0 .. Repeat, gas \in {Short, Long} :
        [l EXCEPT !.pc = "loop", !.round = n, !.gas = gas] \in Locals
  OBVIOUS
<1>3. \A n \in Nat : [l EXCEPT !.pc = "create", !.seq = n] \in Locals
  OBVIOUS
<1>4. \A t \in Tx : [l EXCEPT !.pc = "send", !.tx = t] \in Locals
  OBVIOUS
<1>5. \A h \in Tx \cup {NoTx} :
        [l EXCEPT !.pc = "wait", !.seq = 0, !.tx = NoTx, !.hash = h] \in Locals
  OBVIOUS
<1>6. \A n \in 0 .. MaxPolls : [l EXCEPT !.polls = n] \in Locals
  OBVIOUS
<1>8. \A status \in Statuses :
        [l EXCEPT !.pc = "block", !.polls = 0, !.status = status] \in Locals
  <2>1. 0 \in 0 .. MaxPolls
    BY BoundsAssumption
  <2> QED
    BY <2>1
<1> QED
  BY <1>2, <1>3, <1>4, <1>5, <1>6, <1>7, <1>8

LEMMA InitIInv == Init => IInv
<1> SUFFICES ASSUME Init PROVE IInv
  OBVIOUS
<1>1. run \in [Clients -> Locals]
  BY LocalsClosed DEF Init
<1>2. TypeOK
  <2>1. runs \in 0 .. MaxRuns /\ now \in 0 .. MaxTime /\ next \in Nat
    BY BoundsAssumption DEF Init
  <2>2. reported \in [Clients -> Seq(Report)]
    BY DEF Init
  <2>3. misled \in BOOLEAN /\ exists \in BOOLEAN /\ pool = {} /\ committed = {}
    BY DEF Init
  <2> QED
    BY <1>1, <2>1, <2>2, <2>3 DEF TypeOK
<1>3. PollInv /\ SeqInv
  BY BoundsAssumption DEF Init, NewRun, PollInv, SeqInv, NeverAhead
<1>4. GasInv
  BY DEF Init, NewRun, GasInv, OutOfGasExplained, Short, Long
<1>5. ChainInv
  BY DEF Init, ChainInv, Committed
<1>6. ReportInv /\ SuccessInv
  BY DEF Init, NewRun, ReportInv, SuccessInv, Range
<1> QED
  BY <1>2, <1>3, <1>4, <1>5, <1>6 DEF IInv

\* A step of terminal c gives its run new locals and leaves the others alone.
LEMMA OneRunMoves ==
  ASSUME TypeOK, NEW c \in Clients, NEW l \in Locals, run' = [run EXCEPT ![c] = l]
  PROVE  /\ run' \in [Clients -> Locals]
         /\ run'[c] = l /\ \A d \in Clients \ {c} : run'[d] = run[d]
BY DEF TypeOK

\* The last transaction of a run ends it, any other one leads to the next.
LEMMA NextRoundTyped ==
  ASSUME TypeOK, NEW c \in Clients, NextRound(c)
  PROVE  /\ run' \in [Clients -> Locals]
         /\ \A d \in Clients \ {c} : run'[d] = run[d]
         /\ run'[c].pc \in {"loop", "done"} /\ run'[c].polls = 0
         /\ run'[c].gas = Short => run[c].gas = Short
         /\ run'[c].status = "other"
<1>1. run[c] \in Locals
  BY DEF TypeOK
<1>2. CASE run[c].round + 1 < Repeat
  <2> DEFINE l == [NewRun EXCEPT !.pc = "loop", !.round = run[c].round + 1, !.gas = run[c].gas]
  <2>1. run[c].round + 1 \in 0 .. Repeat
    BY <1>1, <1>2, BoundsAssumption DEF Locals
  <2>a. NewRun \in Locals /\ run[c].gas \in {Short, Long}
    BY <1>1, LocalsClosed DEF Locals
  <2>2. l \in Locals
    BY <2>a, <2>1, LocalsClosed
  <2>4. l.pc = "loop" /\ l.polls = 0 /\ l.gas = run[c].gas /\ l.status = "other"
    BY DEF NewRun
  <2>3. run' = [run EXCEPT ![c] = l]
    BY <1>2 DEF NextRound
  <2> HIDE DEF l
  <2> QED
    BY <2>2, <2>3, <2>4, OneRunMoves
<1>3. CASE ~(run[c].round + 1 < Repeat)
  <2>1. run' = [run EXCEPT ![c] = Ended("done")]
    BY <1>3 DEF NextRound
  <2>2. Ended("done") \in Locals
    BY LocalsClosed DEF Ended
  <2>3. /\ Ended("done").pc = "done" /\ Ended("done").polls = 0 /\ Ended("done").gas # Short
        /\ Ended("done").status = "other"
    BY DEF Ended, NewRun, Short, Long
  <2> QED
    BY <2>1, <2>2, <2>3, OneRunMoves
<1> QED
  BY <1>2, <1>3

LEMMA StepTypeOK == IInv /\ [Next]_vars => TypeOK'
<1> SUFFICES ASSUME IInv, [Next]_vars PROVE TypeOK'
  OBVIOUS
<1>0. TypeOK /\ PollInv /\ SeqInv
  BY DEF IInv
<1>a. ASSUME run' \in [Clients -> Locals], UNCHANGED <<runs, reported, misled, chain, now>>
      PROVE  TypeOK'
  BY <1>a, <1>0 DEF TypeOK, chain
<1>1. ASSUME NEW c \in Clients, start(c) PROVE TypeOK'
  <2>1. run' \in [Clients -> Locals]
    BY <1>1, <1>0, LocalsClosed, OneRunMoves DEF start
  <2>2. runs' \in 0 .. MaxRuns
    BY <1>1, <1>0, BoundsAssumption DEF start, TypeOK
  <2> QED
    BY <1>1, <1>0, <2>1, <2>2 DEF start, chain, TypeOK
<1>2. ASSUME NEW c \in Clients, account_exists(c) PROVE TypeOK'
  <2>1. PICK notnull \in BOOLEAN :
          /\ run' = [run EXCEPT ![c] = [run[c] EXCEPT !.pc = "loop",
                       !.gas = IF exists \/ notnull THEN Short ELSE Long]]
          /\ misled' = (misled \/ (notnull /\ ~exists))
    BY <1>2 DEF account_exists
  <2>2. run' \in [Clients -> Locals]
    BY <2>1, <1>0, LocalsClosed, OneRunMoves DEF TypeOK
  <2>3. misled' \in BOOLEAN
    BY <2>1
  <2> QED
    BY <1>2, <1>0, <2>2, <2>3 DEF account_exists, chain, TypeOK
<1>3. ASSUME NEW c \in Clients, get_account_seq_num(c) PROVE TypeOK'
  <2>1. run' = [run EXCEPT ![c] = [run[c] EXCEPT !.pc = "create", !.seq = next]]
    BY <1>3 DEF get_account_seq_num
  <2>2. run' \in [Clients -> Locals]
    BY <2>1, <1>0, LocalsClosed, OneRunMoves DEF TypeOK
  <2> QED
    BY <1>3, <1>a, <2>2 DEF get_account_seq_num
<1>4. ASSUME NEW c \in Clients, create_raw_tx(c) PROVE TypeOK'
  <2> DEFINE t == [seq |-> run[c].seq, gas |-> run[c].gas, expiry |-> now + Expiry]
  <2>1. t \in Tx
    BY <1>0, BoundsAssumption DEF Tx, TypeOK, Locals
  <2>2. run' = [run EXCEPT ![c] = [run[c] EXCEPT !.pc = "send", !.tx = t]]
    BY <1>4 DEF create_raw_tx
  <2> HIDE DEF t
  <2>3. run' \in [Clients -> Locals]
    BY <2>1, <2>2, <1>0, LocalsClosed, OneRunMoves DEF TypeOK
  <2> QED
    BY <1>4, <1>a, <2>3 DEF create_raw_tx
<1>5. ASSUME NEW c \in Clients, submit_tx_json(c) PROVE TypeOK'
  <2>1. run[c].tx \in Tx
    BY <1>5, <1>0 DEF submit_tx_json, SeqInv
  <2>2. PICK h \in Tx \cup {NoTx} :
          run' = [run EXCEPT ![c] = [run[c] EXCEPT !.pc = "wait", !.seq = 0, !.tx = NoTx, !.hash = h]]
    BY <1>5, <2>1 DEF submit_tx_json
  <2>3. run' \in [Clients -> Locals]
    BY <2>2, <1>0, LocalsClosed, OneRunMoves DEF TypeOK
  <2> QED
    BY <1>5, <1>0, <2>1, <2>3 DEF submit_tx_json, TypeOK
<1>6. ASSUME NEW c \in Clients, wait_for_tx(c) PROVE TypeOK'
  <2>1. run[c].polls + 1 \in 0 .. MaxPolls
    BY <1>6, <1>0, BoundsAssumption DEF wait_for_tx, PollInv, TypeOK, Locals
  <2>2. PICK l \in Locals : run' = [run EXCEPT ![c] = l]
    <3>1. PICK status \in Statuses :
            run' = [run EXCEPT ![c] =
              IF status = "Success" \/ run[c].polls + 1 = MaxPolls
              THEN [run[c] EXCEPT !.pc = "block", !.polls = 0, !.status = status]
              ELSE [run[c] EXCEPT !.polls = run[c].polls + 1]]
      BY <1>6 DEF wait_for_tx
    <3>2. /\ [run[c] EXCEPT !.pc = "block", !.polls = 0, !.status = status] \in Locals
          /\ [run[c] EXCEPT !.polls = run[c].polls + 1] \in Locals
      BY <2>1, <1>0, LocalsClosed DEF TypeOK
    <3> QED
      BY <3>1, <3>2
  <2>3. run' \in [Clients -> Locals]
    BY <2>2, <1>0, OneRunMoves
  <2> QED
    BY <1>6, <1>a, <2>3 DEF wait_for_tx
<1>7. ASSUME NEW c \in Clients, get_transaction_block_time(c) PROVE TypeOK'
  <2>1. CASE run[c].hash \in Committed
    <3>1. run[c].hash \in Tx
      BY <2>1, <1>0 DEF Committed, TypeOK, Entry
    <3>2. /\ reported' = [reported EXCEPT ![c] =
                           Append(@, [tx |-> run[c].hash, status |-> run[c].status])]
          /\ NextRound(c)
      BY <1>7, <2>1 DEF get_transaction_block_time
    <3>5. [tx |-> run[c].hash, status |-> run[c].status] \in Report
      BY <3>1, <1>0 DEF TypeOK, Locals, Report
    <3>3. reported' \in [Clients -> Seq(Report)]
      <4>1. reported[c] \in Seq(Report)
        BY <1>0 DEF TypeOK
      <4>2. Append(reported[c], [tx |-> run[c].hash, status |-> run[c].status]) \in Seq(Report)
        BY <3>5, <4>1, RangeOfAppend
      <4> QED
        BY <3>2, <4>2, <1>0 DEF TypeOK
    <3>4. run' \in [Clients -> Locals]
      BY <3>2, <1>0, NextRoundTyped
    <3> QED
      BY <1>7, <1>0, <3>3, <3>4 DEF get_transaction_block_time, chain, TypeOK
  <2>2. CASE run[c].hash \notin Committed
    <3>1. run' = [run EXCEPT ![c] = [NewRun EXCEPT !.pc = "crashed"]]
      BY <1>7, <2>2 DEF get_transaction_block_time, Ended
    <3>2. run' \in [Clients -> Locals]
      BY <3>1, <1>0, LocalsClosed, OneRunMoves
    <3> QED
      BY <1>7, <1>a, <2>2, <3>2 DEF get_transaction_block_time
  <2> QED
    BY <2>1, <2>2
<1>8. ASSUME NEW c \in Clients, abort(c) PROVE TypeOK'
  <2>1. run' = [run EXCEPT ![c] = [NewRun EXCEPT !.pc = "crashed"]]
    BY <1>8 DEF abort, Ended
  <2>2. run' \in [Clients -> Locals]
    BY <2>1, <1>0, LocalsClosed, OneRunMoves
  <2>3. pool' \subseteq Tx
    BY <1>8, <1>0 DEF abort, SeqInv, TypeOK
  <2> QED
    BY <1>8, <1>0, <2>2, <2>3 DEF abort, TypeOK
<1>9. CASE Commit
  <2>1. PICK t \in pool, outcome \in {"OutOfGas", "Success", "Fail"} :
          /\ committed' = committed \cup {[tx |-> t, outcome |-> outcome]}
          /\ exists' = (exists \/ outcome = "Success")
    BY <1>9 DEF Commit
  <2>2. committed' \subseteq Entry
    BY <2>1, <1>0 DEF TypeOK, Entry, Outcomes
  <2>3. exists' \in BOOLEAN
    BY <2>1
  <2> QED
    BY <1>9, <1>0, <2>2, <2>3 DEF Commit, TypeOK
<1>10. CASE Tick
  <2>1. now' \in 0 .. MaxTime /\ pool' \subseteq Tx
    BY <1>10, <1>0, BoundsAssumption DEF Tick, TypeOK
  <2> QED
    BY <1>10, <1>0, <2>1 DEF Tick, TypeOK
<1>11. CASE UNCHANGED vars
  BY <1>11, <1>0 DEF vars, chain, TypeOK
<1> QED
  BY <1>1, <1>2, <1>3, <1>4, <1>5, <1>6, <1>7, <1>8, <1>9, <1>10, <1>11 DEF Next, Step

\* What a step of terminal c has to keep that neither reports nor commits.
LEMMA OnlyThisRun ==
  ASSUME IInv, NEW c \in Clients,
         UNCHANGED <<next, committed, exists, reported>>, misled => misled',
         \A t \in pool' \ pool : t.seq <= next /\ (t.gas = Short => exists \/ misled'),
         \A d \in Clients \ {c} : run'[d] = run[d],
         run'[c].polls < MaxPolls,
         run'[c].status = "Success" => run'[c].pc = "block" /\ Succeeded(run'[c].hash),
         run'[c].pc = "create" => run'[c].seq <= next,
         run'[c].pc = "send" => run'[c].tx \in Tx /\ run'[c].tx.seq <= next,
         run'[c].gas = Short => exists \/ misled',
         run'[c].pc = "send" /\ run'[c].tx.gas = Short => exists \/ misled',
         \A r \in Range(reported[c]) :
           /\ run'[c].pc = "create" => r.tx.seq < run'[c].seq
           /\ run'[c].pc = "send" => r.tx.seq < run'[c].tx.seq
           /\ run'[c].pc \in {"wait", "block"} /\ run'[c].hash # NoTx => r.tx.seq < run'[c].hash.seq
  PROVE  PollInv' /\ SeqInv' /\ GasInv' /\ ChainInv' /\ ReportInv' /\ SuccessInv'
<1>1. PollInv'
  BY DEF IInv, PollInv
<1>2. SeqInv'
  BY DEF IInv, SeqInv, NeverAhead
<1>3. GasInv'
  BY DEF IInv, GasInv, OutOfGasExplained
<1>4. ChainInv'
  BY DEF IInv, ChainInv, Committed
<1>5. ReportInv'
  BY DEF IInv, ReportInv, Committed
<1>6. SuccessInv'
  BY DEF IInv, SuccessInv, Succeeded
<1> QED
  BY <1>1, <1>2, <1>3, <1>4, <1>5, <1>6

\* The lookups, the clock and the polls; what the node takes in is what was
\* signed.
LEMMA StepOfARun ==
  ASSUME IInv, NEW c \in Clients,
         \/ start(c) \/ account_exists(c) \/ get_account_seq_num(c) \/ create_raw_tx(c)
         \/ submit_tx_json(c) \/ wait_for_tx(c) \/ abort(c)
  PROVE  PollInv' /\ SeqInv' /\ GasInv' /\ ChainInv' /\ ReportInv' /\ SuccessInv'
<1>0. /\ TypeOK /\ PollInv /\ SeqInv /\ GasInv /\ ChainInv /\ ReportInv /\ SuccessInv
      /\ run \in [Clients -> Locals] /\ run[c] \in Locals
      /\ 0 < MaxPolls /\ Short # Long
  <2>1. 0 < MaxPolls /\ Short # Long
    BY BoundsAssumption DEF Short, Long
  <2> QED
    BY <2>1 DEF IInv, TypeOK
<1>1. CASE start(c)
  <2>1. /\ run'[c] = NewRun /\ \A d \in Clients \ {c} : run'[d] = run[d]
        /\ UNCHANGED <<next, pool, committed, exists, reported, misled>>
    BY <1>1, <1>0 DEF start, chain
  <2>2. NewRun.pc = "lookup" /\ NewRun.polls = 0 /\ NewRun.gas = Long /\ NewRun.status = "other"
    BY DEF NewRun
  <2> QED
    BY <2>1, <2>2, <1>0, OnlyThisRun
<1>2. CASE account_exists(c)
  <2>1. PICK notnull \in BOOLEAN :
          /\ run' = [run EXCEPT ![c] = [run[c] EXCEPT !.pc = "loop",
                       !.gas = IF exists \/ notnull THEN Short ELSE Long]]
          /\ misled' = (misled \/ (notnull /\ ~exists))
    BY <1>2 DEF account_exists
  <2>2. /\ run'[c].pc = "loop" /\ run'[c].polls = run[c].polls
        /\ run'[c].gas = Short => exists \/ notnull
        /\ run'[c].status = run[c].status
    BY <2>1, <1>0 DEF Locals
  <2>3. /\ run[c].pc = "lookup" /\ \A d \in Clients \ {c} : run'[d] = run[d]
        /\ UNCHANGED <<next, pool, committed, exists, reported>>
    BY <1>2, <1>0, <2>1 DEF account_exists, chain
  <2> QED
    BY <2>1, <2>2, <2>3, <1>0, OnlyThisRun DEF PollInv, SuccessInv
<1>3. CASE get_account_seq_num(c)
  <2>1. /\ run[c].pc = "loop" /\ run'[c] = [run[c] EXCEPT !.pc = "create", !.seq = next]
        /\ \A d \in Clients \ {c} : run'[d] = run[d]
        /\ UNCHANGED <<next, pool, committed, exists, reported, misled>>
    BY <1>3, <1>0 DEF get_account_seq_num, chain
  <2>2. /\ run'[c].pc = "create" /\ run'[c].seq = next
        /\ run'[c].polls = run[c].polls /\ run'[c].gas = run[c].gas
        /\ run'[c].status = run[c].status
    BY <2>1, <1>0 DEF Locals
  <2>3. \A r \in Range(reported[c]) : r.tx.seq < next
    BY <1>0 DEF ReportInv, ChainInv
  <2>4. next <= next
    BY <1>0 DEF TypeOK
  <2> QED
    BY <2>1, <2>2, <2>3, <2>4, <1>0, OnlyThisRun DEF PollInv, GasInv, SuccessInv
<1>4. CASE create_raw_tx(c)
  <2> DEFINE t == [seq |-> run[c].seq, gas |-> run[c].gas, expiry |-> now + Expiry]
  <2>1. /\ run[c].pc = "create" /\ run'[c] = [run[c] EXCEPT !.pc = "send", !.tx = t]
        /\ \A d \in Clients \ {c} : run'[d] = run[d]
        /\ UNCHANGED <<next, pool, committed, exists, reported, misled>>
    BY <1>4, <1>0 DEF create_raw_tx, chain
  <2>2. t \in Tx /\ t.seq = run[c].seq /\ t.gas = run[c].gas
    BY <1>0, BoundsAssumption DEF Tx, TypeOK, Locals
  <2> HIDE DEF t
  <2>3. /\ run'[c].pc = "send" /\ run'[c].tx = t
        /\ run'[c].polls = run[c].polls /\ run'[c].gas = run[c].gas
        /\ run'[c].status = run[c].status
    BY <2>1, <1>0 DEF Locals
  <2>4. run'[c].status # "Success"
    BY <2>1, <2>3, <1>0 DEF SuccessInv
  <2> QED
    BY <2>1, <2>2, <2>3, <2>4, <1>0, OnlyThisRun DEF PollInv, SeqInv, GasInv, ReportInv
<1>5. CASE submit_tx_json(c)
  <2>1. /\ run[c].pc = "send" /\ pool' \subseteq pool \cup {run[c].tx}
        /\ UNCHANGED <<next, committed, exists, reported, misled>>
    BY <1>5 DEF submit_tx_json
  <2>2. PICK h \in {run[c].tx, NoTx} :
          run' = [run EXCEPT ![c] = [run[c] EXCEPT !.pc = "wait", !.seq = 0, !.tx = NoTx, !.hash = h]]
    BY <1>5 DEF submit_tx_json
  <2>3. /\ run'[c].pc = "wait" /\ run'[c].hash = h
        /\ run'[c].polls = run[c].polls /\ run'[c].gas = run[c].gas
        /\ run'[c].status = run[c].status
        /\ \A d \in Clients \ {c} : run'[d] = run[d]
    BY <2>2, <1>0 DEF Locals
  <2>4. run'[c].status # "Success"
    BY <2>1, <2>3, <1>0 DEF SuccessInv
  <2>5. run'[c].polls < MaxPolls
    BY <2>3, <1>0 DEF PollInv
  <2> QED
    BY <2>1, <2>3, <2>4, <2>5, <1>0, OnlyThisRun DEF SeqInv, GasInv, ReportInv
<1>6. CASE wait_for_tx(c)
  <2>1. /\ run[c].pc = "wait" /\ run[c].polls < MaxPolls /\ run[c].polls \in Nat /\ MaxPolls \in Nat
    <3>1. run[c].pc = "wait"
      BY <1>6 DEF wait_for_tx
    <3>2. MaxPolls \in Nat
      BY BoundsAssumption
    <3> QED
      BY <3>1, <3>2, <1>0 DEF PollInv, Locals
  <2>2. PICK status \in Statuses :
          /\ status = "Success" => Succeeded(run[c].hash)
          /\ run' = [run EXCEPT ![c] =
               IF status = "Success" \/ run[c].polls + 1 = MaxPolls
               THEN [run[c] EXCEPT !.pc = "block", !.polls = 0, !.status = status]
               ELSE [run[c] EXCEPT !.polls = run[c].polls + 1]]
    BY <1>6 DEF wait_for_tx
  <2>3. \/ /\ run'[c].pc = "wait" /\ run'[c].status = run[c].status
           /\ run[c].polls + 1 # MaxPolls /\ run'[c].polls = run[c].polls + 1
        \/ run'[c].pc = "block" /\ run'[c].polls = 0 /\ run'[c].status = status
    BY <2>1, <2>2, <1>0 DEF Locals
  <2>4. /\ run'[c].hash = run[c].hash /\ run'[c].gas = run[c].gas
        /\ \A d \in Clients \ {c} : run'[d] = run[d]
        /\ UNCHANGED <<next, pool, committed, exists, reported, misled>>
    BY <1>6, <2>2, <1>0 DEF wait_for_tx, chain, Locals
  <2>5. run'[c].polls < MaxPolls
    BY <2>1, <2>3, <1>0
  <2>6. run'[c].status = "Success" => run'[c].pc = "block" /\ Succeeded(run'[c].hash)
    BY <2>1, <2>2, <2>3, <2>4, <1>0 DEF SuccessInv
  <2>7. run'[c].pc \in {"wait", "block"}
    BY <2>3
  <2> QED
    BY <2>1, <2>4, <2>5, <2>6, <2>7, <1>0, OnlyThisRun DEF GasInv, ReportInv
<1>7. CASE abort(c)
  <2>1. /\ run'[c] = Ended("crashed") /\ \A d \in Clients \ {c} : run'[d] = run[d]
        /\ UNCHANGED <<next, committed, exists, reported, misled>>
        /\ \A t \in pool' \ pool : run[c].pc = "send" /\ t = run[c].tx
    BY <1>7, <1>0 DEF abort
  <2>2. LET l == Ended("crashed")
        IN  l.pc = "crashed" /\ l.polls = 0 /\ l.gas = Long /\ l.status = "other"
    BY DEF Ended, NewRun
  <2> QED
    BY <2>1, <2>2, <1>0, OnlyThisRun DEF SeqInv, GasInv
<1> QED
  BY <1>1, <1>2, <1>3, <1>4, <1>5, <1>6, <1>7

\* A reported transaction is in a block, and the next one that the terminal
\* gets hold of has a later sequence number.
LEMMA ReportStep ==
  ASSUME IInv, NEW c \in Clients, get_transaction_block_time(c)
  PROVE  PollInv' /\ SeqInv' /\ GasInv' /\ ChainInv' /\ ReportInv' /\ SuccessInv'
<1>0. /\ TypeOK /\ PollInv /\ SeqInv /\ GasInv /\ ChainInv /\ ReportInv /\ SuccessInv
      /\ 0 < MaxPolls /\ UNCHANGED <<misled, next, pool, committed, exists>>
  BY BoundsAssumption DEF IInv, get_transaction_block_time, chain
<1>1. CASE run[c].hash \in Committed
  <2> DEFINE report == [tx |-> run[c].hash, status |-> run[c].status]
  <2>1. reported' = [reported EXCEPT ![c] = Append(@, report)] /\ NextRound(c)
    BY <1>1 DEF get_transaction_block_time
  <2>2. /\ report \in Report
        /\ report.tx = run[c].hash /\ report.status = run[c].status
    BY <1>1, <1>0 DEF Committed, TypeOK, Entry, Report, Locals
  <2> HIDE DEF report
  <2>3. /\ Range(reported'[c]) = Range(reported[c]) \cup {report}
        /\ \A d \in Clients \ {c} : reported'[d] = reported[d]
    <3>1. reported[c] \in Seq(Report)
      BY <1>0 DEF TypeOK
    <3>2. Range(Append(reported[c], report)) = Range(reported[c]) \cup {report}
      BY <2>2, <3>1, RangeOfAppend
    <3> QED
      BY <2>1, <3>2, <1>0 DEF TypeOK
  <2>4. /\ \A d \in Clients \ {c} : run'[d] = run[d]
        /\ run'[c].pc \in {"loop", "done"} /\ run'[c].polls = 0
        /\ run'[c].gas = Short => run[c].gas = Short
        /\ run'[c].status = "other"
    BY <2>1, <1>0, NextRoundTyped
  <2>5. PollInv' /\ SeqInv' /\ GasInv'
    BY <2>4, <1>0 DEF PollInv, SeqInv, GasInv, NeverAhead, OutOfGasExplained
  <2>6. ChainInv'
    BY <1>0 DEF ChainInv, Committed
  <2>7. ReportInv'
    BY <1>1, <2>2, <2>3, <2>4, <1>0 DEF ReportInv, Committed
  <2>8. SuccessInv'
    BY <2>2, <2>3, <2>4, <1>0 DEF SuccessInv, Succeeded
  <2> QED
    BY <2>5, <2>6, <2>7, <2>8
<1>2. CASE run[c].hash \notin Committed
  <2>1. run'[c] = Ended("crashed") /\ reported' = reported /\ \A d \in Clients \ {c} : run'[d] = run[d]
    BY <1>2, <1>0 DEF get_transaction_block_time, TypeOK
  <2>2. LET l == Ended("crashed")
        IN  l.pc = "crashed" /\ l.polls = 0 /\ l.gas # Short /\ l.status = "other"
    BY DEF Ended, NewRun, Short, Long
  <2> QED
    BY <2>1, <2>2, <1>0, OnlyThisRun
<1> QED
  BY <1>1, <1>2

\* A block takes the pending transaction whose turn it is, and the lower
\* max_gas fails for a recipient that does not exist.
LEMMA CommitStep ==
  ASSUME IInv, Commit
  PROVE  PollInv' /\ SeqInv' /\ GasInv' /\ ChainInv' /\ ReportInv' /\ SuccessInv'
<1>0. /\ TypeOK /\ PollInv /\ SeqInv /\ GasInv /\ ChainInv /\ ReportInv /\ SuccessInv
      /\ UNCHANGED <<run, reported, misled>> /\ next \in Nat /\ next' = next + 1
      /\ pool' \subseteq pool /\ (exists => exists')
  BY DEF IInv, Commit, TypeOK
<1>1. PICK t \in pool, outcome \in {"OutOfGas", "Success", "Fail"} :
        /\ t.seq = next /\ committed' = committed \cup {[tx |-> t, outcome |-> outcome]}
        /\ outcome = "OutOfGas" => t.gas = Short /\ ~exists
  BY DEF Commit
<1>2. Committed' = Committed \cup {t}
  <2>1. [tx |-> t, outcome |-> outcome].tx = t
    OBVIOUS
  <2>2. t \in Committed' /\ Committed \subseteq Committed'
    BY <1>1, <2>1 DEF Committed
  <2>3. Committed' \subseteq Committed \cup {t}
    BY <1>1, <2>1 DEF Committed
  <2> QED
    BY <2>2, <2>3
<1>3. PollInv'
  BY <1>0 DEF PollInv
<1>4. SeqInv'
  <2>1. \A n \in Nat : n <= next => n <= next'
    BY <1>0
  <2>2. \A u \in Tx : u.seq \in Nat
    BY DEF Tx
  <2>3. \A d \in Clients : run[d].seq \in Nat
    BY <1>0 DEF TypeOK, Locals
  <2> QED
    BY <2>1, <2>2, <2>3, <1>0 DEF SeqInv, NeverAhead, TypeOK
<1>5. GasInv'
  <2>1. /\ outcome = "OutOfGas" => misled
        /\ [tx |-> t, outcome |-> outcome].outcome = outcome
    BY <1>0, <1>1 DEF GasInv
  <2>2. OutOfGasExplained'
    BY <2>1, <1>0, <1>1 DEF GasInv, OutOfGasExplained
  <2> QED
    BY <2>2, <1>0 DEF GasInv
<1>6. ChainInv'
  <2>1. \A u \in Committed : u.seq \in Nat /\ u.seq < next
    BY <1>0 DEF ChainInv, TypeOK, Entry, Committed, Tx
  <2>2. \A n \in 0 .. next' - 1 : n \in 0 .. next - 1 \/ n = next
    BY <1>0
  <2>3. \A u \in Committed' : u.seq < next'
    BY <2>1, <1>0, <1>1, <1>2
  <2>4. \A n \in 0 .. next' - 1 : \E u \in Committed' : u.seq = n
    BY <2>2, <1>0, <1>1, <1>2 DEF ChainInv
  <2>5. \A d, e \in committed' : d.tx.seq = e.tx.seq => d = e
    <3>1. \A e \in committed : e.tx.seq \in Nat /\ e.tx.seq < next
      BY <2>1 DEF Committed
    <3>2. [tx |-> t, outcome |-> outcome].tx.seq = next
      BY <1>1
    <3> QED
      BY <3>1, <3>2, <1>0, <1>1 DEF ChainInv
  <2> QED
    BY <2>3, <2>4, <2>5 DEF ChainInv
<1>7. ReportInv' /\ SuccessInv'
  BY <1>0, <1>1, <1>2 DEF ReportInv, SuccessInv, Succeeded
<1> QED
  BY <1>3, <1>4, <1>5, <1>6, <1>7

LEMMA StepIInv == IInv /\ [Next]_vars => IInv'
<1> SUFFICES ASSUME IInv, [Next]_vars PROVE PollInv' /\ SeqInv' /\ GasInv' /\ ChainInv' /\ ReportInv' /\ SuccessInv'
  BY StepTypeOK DEF IInv
<1>1. ASSUME NEW c \in Clients, start(c) \/ Step(c) \/ abort(c)
      PROVE  PollInv' /\ SeqInv' /\ GasInv' /\ ChainInv' /\ ReportInv' /\ SuccessInv'
  BY <1>1, StepOfARun, ReportStep DEF Step
<1>2. CASE Commit
  BY <1>2, CommitStep
<1>3. CASE Tick
  <2>1. pool' \subseteq pool /\ UNCHANGED <<run, reported, misled, next, committed, exists>>
    BY <1>3 DEF Tick
  <2> QED
    BY <2>1 DEF IInv, PollInv, SeqInv, GasInv, ChainInv, ReportInv, SuccessInv,
                NeverAhead, OutOfGasExplained, Committed, Succeeded
<1>4. CASE UNCHANGED vars
  BY <1>4 DEF vars, chain, IInv, PollInv, SeqInv, GasInv, ChainInv, ReportInv, SuccessInv,
              NeverAhead, OutOfGasExplained, Committed, Succeeded
<1> QED
  BY <1>1, <1>2, <1>3, <1>4 DEF Next

\* Every reachable state, under every interleaving of the terminals with each
\* other and with the node, satisfies the inductive invariant.
THEOREM Invariance == Spec => []IInv
<1> QED
  BY InitIInv, StepIInv, PTL DEF Spec

\* The variables always have their types, whatever the bounds are.
THEOREM TypeCorrect == Spec => []TypeOK
<1> QED
  BY Invariance, PTL DEF IInv

\* With any number of terminals that read the sequence number of the same
\* account, none of which knows of the others, no pending transaction waits
\* for one before it that nobody has sent.
THEOREM NoGaps == Spec => []NeverAhead
<1>1. IInv => NeverAhead
  BY DEF IInv, SeqInv
<1> QED
  BY <1>1, Invariance, PTL

\* A transfer fails for want of gas only if, at some time before, a lookup of
\* the recipient that does not exist was answered with something else than null.
THEOREM GasExplained == Spec => []OutOfGasExplained
<1>1. IInv => OutOfGasExplained
  BY DEF IInv, GasInv
<1> QED
  BY <1>1, Invariance, PTL

\* TxClient's refinement mapping, of m committed transactions C.
Nth(C, n) == CHOOSE e \in C : e.tx.seq + 1 = n
Entries(C, m) == [n \in 1 .. m |-> Nth(C, n)]

\* What ChainInv says of them.
IsChain(C, m) ==
  /\ \A e \in C : e.tx.seq < m
  /\ \A n \in 0 .. m - 1 : \E e \in C : e.tx.seq = n
  /\ \A d, e \in C : d.tx.seq = e.tx.seq => d = e

LEMMA EntryType ==
  ASSUME NEW e \in Entry
  PROVE  e.tx \in Tx /\ e.tx.seq \in Nat
BY DEF Entry, Tx

\* The mapping is the sequence of the committed transactions.
LEMMA EntriesOfChain ==
  ASSUME NEW m \in Nat, NEW C \in SUBSET Entry, IsChain(C, m)
  PROVE  /\ \A n \in 1 .. m : Nth(C, n) \in C /\ Nth(C, n).tx.seq + 1 = n
         /\ Entries(C, m) \in Seq(Entry) /\ Len(Entries(C, m)) = m
         /\ Range(Entries(C, m)) = C
<1>0. \A e \in C : e.tx.seq \in Nat /\ e \in Entry
  BY EntryType
<1>1. ASSUME NEW n \in 1 .. m PROVE Nth(C, n) \in C /\ Nth(C, n).tx.seq + 1 = n
  <2>1. n - 1 \in 0 .. m - 1 /\ (n - 1) + 1 = n
    OBVIOUS
  <2>2. PICK e \in C : e.tx.seq = n - 1
    BY <2>1 DEF IsChain
  <2>3. e.tx.seq + 1 = n
    BY <2>1, <2>2
  <2> QED
    BY <2>2, <2>3 DEF Nth
<1>2. Entries(C, m) \in Seq(Entry) /\ Len(Entries(C, m)) = m
  BY <1>0, <1>1 DEF Entries
<1>3. ASSUME NEW e \in C PROVE e \in Range(Entries(C, m))
  <2>1. e.tx.seq + 1 \in 1 .. m
    BY <1>0 DEF IsChain
  <2>2. Nth(C, e.tx.seq + 1) \in C /\ Nth(C, e.tx.seq + 1).tx.seq + 1 = e.tx.seq + 1
    BY <2>1, <1>1
  <2>3. Nth(C, e.tx.seq + 1).tx.seq = e.tx.seq
    BY <2>2, <1>0
  <2>4. Nth(C, e.tx.seq + 1) = e
    BY <2>2, <2>3 DEF IsChain
  <2> QED
    BY <2>1, <2>4 DEF Entries, Range
<1>4. Range(Entries(C, m)) \subseteq C
  BY <1>1 DEF Entries, Range
<1> QED
  BY <1>1, <1>2, <1>3, <1>4

\* One more transaction makes the sequence longer at its end, by an entry of a
\* transaction that it did not have.
LEMMA EntriesGrow ==
  ASSUME NEW m \in Nat, NEW C \in SUBSET Entry, NEW D \in SUBSET Entry, C \subseteq D,
         IsChain(C, m), IsChain(D, m + 1)
  PROVE  /\ Entries(D, m + 1) # <<>>
         /\ Ledger!Front(Entries(D, m + 1)) = Entries(C, m)
         /\ Ledger!Last(Entries(D, m + 1)) \in Entry
         /\ \A e \in Range(Entries(C, m)) : e.tx # Ledger!Last(Entries(D, m + 1)).tx
<1>1. /\ Entries(C, m) \in Seq(Entry) /\ Len(Entries(C, m)) = m
      /\ Range(Entries(C, m)) = C
      /\ \A n \in 1 .. m : Nth(C, n) \in C /\ Nth(C, n).tx.seq + 1 = n
  BY EntriesOfChain
<1>2. /\ Entries(D, m + 1) \in Seq(Entry) /\ Len(Entries(D, m + 1)) = m + 1
      /\ \A n \in 1 .. m + 1 : Nth(D, n) \in D /\ Nth(D, n).tx.seq + 1 = n
  BY EntriesOfChain
<1>0. \A e \in D : e.tx.seq \in Nat /\ e \in Entry
  BY EntryType
<1>3. ASSUME NEW n \in 1 .. m PROVE Entries(D, m + 1)[n] = Entries(C, m)[n]
  <2>1. Nth(C, n) \in D /\ Nth(D, n) \in D /\ Nth(C, n).tx.seq = Nth(D, n).tx.seq
    BY <1>0, <1>1, <1>2
  <2>2. Nth(C, n) = Nth(D, n)
    BY <2>1 DEF IsChain
  <2> QED
    BY <2>2 DEF Entries
<1>4. Ledger!Front(Entries(D, m + 1)) = Entries(C, m)
  BY <1>1, <1>2, <1>3 DEF Ledger!Front
<1>5. Ledger!Last(Entries(D, m + 1)) = Nth(D, m + 1)
  BY <1>2 DEF Entries, Ledger!Last
<1>6. Nth(D, m + 1) \in D /\ Nth(D, m + 1).tx.seq = m
  BY <1>0, <1>2
<1>7. ASSUME NEW e \in C PROVE e.tx # Nth(D, m + 1).tx
  BY <1>0, <1>6 DEF IsChain
<1>8. \A e \in Range(Entries(C, m)) : e.tx # Nth(D, m + 1).tx
  BY <1>1, <1>7
<1>9. Nth(D, m + 1) \in Entry
  BY <1>0, <1>6
<1>10. Entries(D, m + 1) # <<>>
  BY <1>2
<1> QED
  BY <1>4, <1>5, <1>8, <1>9, <1>10

LEMMA LedgerInit == Init => Ledger!Init
<1> SUFFICES ASSUME Init PROVE Entries(committed, next) = <<>>
  BY DEF Init, Ledger!Init, Entries, Nth
<1>1. committed \in SUBSET Entry /\ next = 0 /\ IsChain(committed, 0)
  BY DEF Init, IsChain
<1>2. Entries(committed, 0) \in Seq(Entry) /\ Len(Entries(committed, 0)) = 0
  BY <1>1, EntriesOfChain
<1> QED
  BY <1>1, <1>2

\* The invariant says so of the chain.
LEMMA ChainOfInv ==
  ASSUME TypeOK, ChainInv
  PROVE  next \in Nat /\ committed \in SUBSET Entry /\ IsChain(committed, next)
BY DEF TypeOK, ChainInv, IsChain, Committed

\* A commit is a new entry.
LEMMA CommitIsEntry ==
  ASSUME IInv, IInv', Commit
  PROVE  Ledger!Commit
<1>1. next \in Nat /\ next' = next + 1 /\ UNCHANGED reported
  BY DEF IInv, TypeOK, Commit
<1>2. committed \in SUBSET Entry /\ IsChain(committed, next)
  BY ChainOfInv DEF IInv
<1>3. committed' \in SUBSET Entry /\ IsChain(committed', next')
  <2>1. TypeOK' /\ ChainInv'
    BY DEF IInv
  <2>2. \A e \in committed' : e.tx \in Committed'
    BY DEF Committed
  <2>3. \A t \in Committed' : \E e \in committed' : e.tx = t
    BY DEF Committed
  <2>4. \A e \in committed' : e.tx.seq < next'
    BY <2>1, <2>2 DEF ChainInv
  <2>5. \A n \in 0 .. next' - 1 : \E e \in committed' : e.tx.seq = n
    BY <2>1, <2>3 DEF ChainInv
  <2>6. \A d, e \in committed' : d.tx.seq = e.tx.seq => d = e
    BY <2>1 DEF ChainInv
  <2> QED
    BY <2>1, <2>4, <2>5, <2>6 DEF TypeOK, IsChain
<1>4. committed \subseteq committed'
  BY DEF Commit
<1> DEFINE old == Entries(committed, next)
           new == Entries(committed', next')
<1>5. /\ new # <<>> /\ Ledger!Front(new) = old /\ Ledger!Last(new) \in Entry
      /\ \A e \in Range(old) : e.tx # Ledger!Last(new).tx
  BY <1>1, <1>2, <1>3, <1>4, EntriesGrow
<1> HIDE DEF old, new
<1>6. Ledger!Last(new) \in [tx : Tx \ Ledger!TxsOf(old), outcome : Outcomes]
  <2>1. Ledger!Last(new).tx \notin Ledger!TxsOf(old)
    BY <1>5 DEF Ledger!TxsOf, Range, Ledger!Range
  <2> QED
    BY <1>5, <2>1 DEF Entry
<1>7. /\ new # <<>> /\ Ledger!Front(new) = old /\ UNCHANGED reported
      /\ Ledger!Last(new) \in [tx : Tx \ Ledger!TxsOf(old), outcome : Ledger!Outcomes]
  BY <1>1, <1>5, <1>6 DEF Ledger!Outcomes, Outcomes
<1> QED
  BY <1>7, Zenon DEF Ledger!Commit, old, new, Entries, Nth

\* A report is of an entry that this terminal has not reported, and with
\* Success only of one that paid.
LEMMA BlockTimeReports ==
  ASSUME IInv, NEW c \in Clients, get_transaction_block_time(c)
  PROVE  Ledger!Report(c) \/ UNCHANGED <<committed, next, reported>>
<1>1. /\ committed \in SUBSET Entry /\ next \in Nat /\ IsChain(committed, next)
      /\ UNCHANGED <<committed, next>> /\ TypeOK /\ SuccessInv /\ ReportInv
  BY ChainOfInv DEF IInv, get_transaction_block_time, chain
<1>2. CASE run[c].hash \in Committed
  <2>1. reported' = [reported EXCEPT ![c] =
                       Append(@, [tx |-> run[c].hash, status |-> run[c].status])]
    BY <1>2 DEF get_transaction_block_time
  <2>2. PICK e \in committed :
          e.tx = run[c].hash /\ (run[c].status = "Success" => e.outcome = "Success")
    <3>1. CASE run[c].status = "Success"
      <4>1. [tx |-> run[c].hash, outcome |-> "Success"] \in committed
        BY <1>1, <3>1 DEF SuccessInv, Succeeded
      <4> QED
        BY <4>1
    <3>2. CASE run[c].status # "Success"
      BY <1>2, <3>2 DEF Committed
    <3> QED
      BY <3>1, <3>2
  <2>3. e \in Entry /\ e \in Range(Entries(committed, next))
    BY <1>1, <2>2, EntriesOfChain
  <2>4. run[c].hash \in Tx
    BY <2>2, <2>3, EntryType
  <2>5. run[c].hash \notin Ledger!TxsOf(reported[c])
    <3>1. run[c].hash \in Tx /\ run[c].hash.seq \in Nat
      BY <2>4 DEF Tx
    <3>2. run[c].pc = "block" /\ run[c].hash # NoTx
      BY <3>1, NoTxAssumption DEF get_transaction_block_time
    <3>3. \A r \in Range(reported[c]) : r.tx # run[c].hash
      BY <1>1, <3>1, <3>2 DEF ReportInv
    <3> QED
      BY <3>3 DEF Range, Ledger!Range, Ledger!TxsOf
  <2>6. run[c].status \in Statuses
    BY <1>1 DEF TypeOK, Locals
  <2>7. \E f \in Ledger!Range(Entries(committed, next)), status \in Statuses :
          /\ f.tx \notin Ledger!TxsOf(reported[c])
          /\ status = "Success" => f.outcome = "Success"
          /\ reported' = [reported EXCEPT ![c] = Append(@, [tx |-> f.tx, status |-> status])]
    <3>1. e \in Ledger!Range(Entries(committed, next))
      BY <2>3 DEF Range, Ledger!Range
    <3>2. e.tx \notin Ledger!TxsOf(reported[c])
      BY <2>2, <2>5
    <3>3. reported' = [reported EXCEPT ![c] =
                         Append(@, [tx |-> e.tx, status |-> run[c].status])]
      BY <2>1, <2>2
    <3> QED
      BY <2>2, <2>6, <3>1, <3>2, <3>3
  <2>8. UNCHANGED Entries(committed, next)
    BY <1>1 DEF Entries, Nth
  <2> QED
    BY <2>7, <2>8 DEF Ledger!Report, Ledger!Statuses, Statuses, Entries, Nth
<1>3. CASE run[c].hash \notin Committed
  BY <1>1, <1>3 DEF get_transaction_block_time
<1> QED
  BY <1>2, <1>3

LEMMA LedgerStep == IInv /\ IInv' /\ [Next]_vars => [Ledger!Next]_(Ledger!vars)
<1> SUFFICES ASSUME IInv, IInv', [Next]_vars PROVE [Ledger!Next]_(Ledger!vars)
  OBVIOUS
<1>0. UNCHANGED <<committed, next, reported>> => UNCHANGED Ledger!vars
  BY DEF Ledger!vars
<1>1. ASSUME NEW c \in Clients, start(c) \/ Step(c) \/ abort(c) PROVE [Ledger!Next]_(Ledger!vars)
  <2>1. CASE get_transaction_block_time(c)
    BY <2>1, <1>0, BlockTimeReports DEF Ledger!Next
  <2>2. CASE ~get_transaction_block_time(c)
    <3>1. UNCHANGED <<committed, next, reported>>
      BY <1>1, <2>2 DEF Step, start, account_exists, get_account_seq_num, create_raw_tx,
                        submit_tx_json, wait_for_tx, abort, chain
    <3> QED
      BY <3>1, <1>0
  <2> QED
    BY <2>1, <2>2
<1>2. CASE Commit
  BY <1>2, CommitIsEntry DEF Ledger!Next
<1>3. CASE Tick
  BY <1>3, <1>0 DEF Tick
<1>4. CASE UNCHANGED vars
  BY <1>4, <1>0 DEF vars, chain
<1> QED
  BY <1>1, <1>2, <1>3, <1>4 DEF Next

\* The terminals, the scripts they run and the node implement the ledger: what
\* is printed with Success has paid, every reported transaction is in a block,
\* whatever became of it, and no terminal reports one twice.
THEOREM Refinement == Spec => ImplementsLedger
<1> QED
  BY Invariance, LedgerInit, LedgerStep, PTL DEF Spec, ImplementsLedger, Ledger!Spec
=============================================================================
