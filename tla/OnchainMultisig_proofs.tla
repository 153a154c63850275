----------------------- MODULE OnchainMultisig_proofs -----------------------
(***************************************************************************)
(* What OnchainMultisig's executed transfers are owed to, for any number   *)
(* of script runs, owners, payloads and thresholds.                        *)
(***************************************************************************)
EXTENDS OnchainMultisig, FiniteSetTheorems, TLAPS

\* The script that executes or removes is the only one that first reads.
SendInv == \A r \in Runs : run[r].pc = "send" => run[r].op.kind \in {"execute", "remove"}

\* Nothing is known on the chain by the hash of a transaction that is not
\* sent, and nobody polls it.
FreshInv ==
  \A r \in Runs : run[r].pc \in {"idle", "send"} =>
    /\ \A x \in pending \cup results : x.id # r
    /\ \A q \in Runs : run[q].hash # r

\* A hash names one transaction, which is pending, committed or dropped.
HashInv ==
  /\ \A x, y \in pending : x.id = y.id => x = y
  /\ \A x \in pending, y \in results : x.id # y.id

\* An operation is that of a run: made as proposal s, or executed as proposal s.
Made(s, op) == s \in DOMAIN queue /\ queue[s].payload = op.payload
Executes(s, op, shown) == s \in Executed /\ queue[s].payload = op.payload /\ shown <= s

\* A run polls the transaction of its own operation.
PollInv ==
  \A r \in Runs :
    /\ \A x \in pending : x.id = run[r].hash => x.op = run[r].op
    /\ \A x \in results : x.id = run[r].hash /\ x.ok =>
         /\ run[r].op.kind = "propose" => Made(x.seq, run[r].op)
         /\ run[r].op.kind = "execute" => Executes(x.seq, run[r].op, run[r].shown)

\* Account 0 creates.  An owner who proposes has asked for the payload, and
\* one who votes yes has approved the number.
Voted(o, s) == \E a \in approved : a.owner = o /\ a.seq = s
PendingInv ==
  \A x \in pending :
    /\ x.op.kind = "create" => x.from = Creator
    /\ x.op.kind = "propose" => <<x.from, x.op.payload>> \in proposed
    /\ x.op.kind = "vote" /\ x.op.approved => Voted(x.from, x.op.seq)

\* Who votes for a payload has seen the number announced for it.
ApprovedInv == \A a \in approved :
  a.payload = Unseen \/ [seq |-> a.seq, payload |-> a.payload] \in announced

\* A yes is the proposer's or that of an owner who voted on the number; of the
\* owners who did not vote, only one is the proposer.
VotesInv ==
  \A s \in DOMAIN queue :
    /\ \A o \in Owners : queue[s].votes[o] = "yes" =>
         <<o, queue[s].payload>> \in proposed \/ Voted(o, s)
    /\ \A o, p \in Owners : queue[s].votes[o] = "yes" /\ queue[s].votes[p] = "yes" =>
         o = p \/ Voted(o, s) \/ Voted(p, s)

\* The announced numbers are those of the payloads they were announced with.
AnnouncedInv == \A a \in announced : queue[a.seq].payload = a.payload

\* What is executed is not ahead of what is resolved.
ExecutedInv == \A s \in Executed : s <= resolved

IInv ==
  /\ TypeOK /\ SendInv /\ FreshInv /\ HashInv /\ PollInv /\ PendingInv /\ VotesInv
  /\ ApprovedInv /\ AnnouncedInv /\ ExecutedInv
  /\ AgreedByThreshold /\ UnannouncedExplained /\ SuccessMeansResolved

Proposals == [payload : Payloads, expired : BOOLEAN, outcome : {"open", "executed", "failed", "removed"},
              votes : [Owners -> {"yes", "no", "none"}]]

\* The queue is numbered from 1, and its unresolved part is at its end.
LEMMA QueueTyped ==
  ASSUME TypeOK
  PROVE  /\ queue \in Seq(Proposals) /\ Len(queue) \in Nat /\ DOMAIN queue = 1 .. Len(queue)
         /\ \A s \in DOMAIN queue : queue[s] \in Proposals
         /\ resolved \in Nat /\ resolved <= Len(queue) /\ FirstOpen \in Nat /\ resolved < FirstOpen
         /\ Open => FirstOpen \in DOMAIN queue
<1>1. queue \in Seq(Proposals) /\ resolved \in 0 .. Len(queue)
  BY DEF TypeOK, Proposals
<1>2. Len(queue) \in Nat /\ DOMAIN queue = 1 .. Len(queue) /\ \A s \in DOMAIN queue : queue[s] \in Proposals
  BY <1>1
<1> QED
  BY <1>1, <1>2 DEF FirstOpen, Open

\* What each kind of operation has for arguments.
LEMMA OperationKinds ==
  ASSUME NEW op \in Operations
  PROVE  /\ op.kind \in {"create", "propose", "vote", "execute", "remove"}
         /\ op.kind = "propose" => op.payload \in Payloads
         /\ op.kind = "vote" => op.seq \in Numbers /\ op.approved \in BOOLEAN
         /\ op.kind = "execute" => op.payload \in Payloads
<1> USE DEF Operations
<1>1. CASE op \in {Create, Remove}
  BY <1>1 DEF Create, Remove
<1>2. CASE \E o \in Owners, p \in Payloads : op = Propose(o, p)
  BY <1>2 DEF Propose
<1>3. CASE \E s \in Numbers, b \in BOOLEAN : op = Vote(s, b)
  BY <1>3 DEF Vote
<1>4. CASE \E p \in Payloads : op = Execute(p)
  BY <1>4 DEF Execute
<1> QED
  BY <1>1, <1>2, <1>3, <1>4

\* The more owners are counted, the larger their number.
LEMMA Counted ==
  ASSUME NEW S \in SUBSET Owners, NEW T \in SUBSET Owners, S \subseteq T
  PROVE  /\ Cardinality(S) \in Nat /\ Cardinality(T) \in Nat
         /\ Cardinality(S) <= Cardinality(T)
<1>1. IsFiniteSet(S) /\ IsFiniteSet(T)
  BY OwnersAssumption, FS_Subset
<1> QED
  BY <1>1, FS_Subset, FS_CardinalityType

\* Who has asked for a proposal's payload has asked for it from then on.
LEMMA AskedGrow ==
  ASSUME NEW s, queue'[s].payload = queue[s].payload,
         proposed \subseteq proposed', approved \subseteq approved'
  PROVE  /\ Cardinality({o \in Owners : Asked(o, s)}) \in Nat
         /\ Cardinality({o \in Owners : Asked(o, s)'}) \in Nat
         /\ Cardinality({o \in Owners : Asked(o, s)}) <= Cardinality({o \in Owners : Asked(o, s)'})
<1>1. {o \in Owners : Asked(o, s)} \subseteq {o \in Owners : Asked(o, s)'}
  BY DEF Asked, Approves
<1> QED
  BY <1>1, Counted

\* A step that leaves the chain alone and forgets nothing keeps what is said
\* of the queue.
LEMMA QueueKept ==
  ASSUME IInv, proposed \subseteq proposed', approved \subseteq approved',
         announced \subseteq announced', UNCHANGED module
  PROVE  /\ VotesInv' /\ ExecutedInv' /\ AgreedByThreshold' /\ UnannouncedExplained'
         /\ Executed' = Executed
<1>0. UNCHANGED <<accounts, threshold, queue, resolved>> /\ Executed' = Executed
  BY DEF module, Executed
<1>1. VotesInv'
  BY <1>0 DEF IInv, VotesInv, Voted
<1>2. ExecutedInv'
  BY <1>0 DEF IInv, ExecutedInv
<1>3. AgreedByThreshold'
  <2> SUFFICES ASSUME NEW s \in Executed
               PROVE  Cardinality({o \in Owners : Asked(o, s)'}) >= threshold
    BY <1>0 DEF AgreedByThreshold
  <2>1. Cardinality({o \in Owners : Asked(o, s)}) >= threshold
    BY DEF IInv, AgreedByThreshold
  <2>2. threshold \in Nat
    BY OwnersAssumption, FS_CardinalityType DEF IInv, TypeOK
  <2>3. /\ Cardinality({o \in Owners : Asked(o, s)}) \in Nat
        /\ Cardinality({o \in Owners : Asked(o, s)'}) \in Nat
        /\ Cardinality({o \in Owners : Asked(o, s)}) <= Cardinality({o \in Owners : Asked(o, s)'})
    BY <1>0, AskedGrow
  <2> QED
    BY <2>1, <2>2, <2>3
<1>4. UnannouncedExplained'
  BY <1>0 DEF IInv, UnannouncedExplained
<1> QED
  BY <1>0, <1>1, <1>2, <1>3, <1>4

\* What a run has to keep that sends op from o's account.
LEMMA Sends ==
  ASSUME IInv, NEW r \in Runs, NEW o \in Owners, NEW op \in Operations, NEW shown \in 0 .. FirstOpen,
         run[r].pc \in {"idle", "send"}, send_tx(r, o, op, shown),
         proposed \subseteq proposed', proposed' \subseteq Owners \X Payloads,
         approved \subseteq approved',
         \A a \in approved' \ approved :
           /\ a \in [owner : Owners, seq : Numbers, payload : Payloads \cup {Unseen}]
           /\ a.payload = Unseen \/ [seq |-> a.seq, payload |-> a.payload] \in announced,
         UNCHANGED <<announced, succeeded, nonce, results, module>>,
         op.kind = "create" => o = Creator,
         op.kind = "propose" => <<o, op.payload>> \in proposed',
         op.kind = "vote" /\ op.approved => Voted(o, op.seq)'
  PROVE  IInv'
<1> DEFINE x(id) == [id |-> id, from |-> o, op |-> op]
<1>1. PICK id \in Runs, accepted \in BOOLEAN, h \in Runs \cup {NoRun} :
        /\ id = r \/ \E y \in pending : y.id = id /\ y.from = o /\ y.op = op
        /\ pending' = IF accepted THEN pending \cup {x(id)} ELSE pending
        /\ h = NoRun \/ (h = id /\ accepted)
        /\ run' = [run EXCEPT ![r] = [pc |-> "wait", op |-> op, shown |-> shown, hash |-> h]]
  <2>1. PICK id \in {r} \cup {y.id : y \in {z \in pending : z.from = o /\ z.op = op}},
             accepted \in BOOLEAN, readable \in BOOLEAN :
          /\ pending' = IF accepted THEN pending \cup {x(id)} ELSE pending
          /\ run' = [run EXCEPT ![r] = [pc |-> "wait", op |-> op, shown |-> shown,
                                        hash |-> IF accepted /\ readable THEN id ELSE NoRun]]
    BY DEF send_tx
  <2>2. id = r \/ \E y \in pending : y.id = id /\ y.from = o /\ y.op = op
    OBVIOUS
  <2>3. id \in Runs
    BY <2>2 DEF IInv, TypeOK, Transactions
  <2> HIDE DEF x
  <2> QED
    BY <2>1, <2>2, <2>3
<1>0. /\ TypeOK /\ SendInv /\ FreshInv /\ HashInv /\ PollInv /\ PendingInv /\ VotesInv
      /\ ApprovedInv /\ AnnouncedInv /\ ExecutedInv /\ SuccessMeansResolved
      /\ UNCHANGED <<accounts, threshold, queue, resolved>> /\ Operations' = Operations
      /\ NoRun \notin Runs
  BY OwnersAssumption DEF IInv, module, Operations
<1>2. id # r => x(id) \in pending
  BY <1>1, <1>0 DEF TypeOK, Transactions
<1>3. x(id) \in Transactions /\ x(id).id = id /\ x(id).from = o /\ x(id).op = op
  BY DEF Transactions
<1> HIDE DEF x
<1>4. pending' \subseteq pending \cup {x(id)} /\ (id # r => pending' = pending)
  BY <1>1, <1>2
<1>5. /\ run'[r].pc = "wait" /\ run'[r].op = op /\ run'[r].shown = shown /\ run'[r].hash = h
      /\ \A q \in Runs \ {r} : run'[q] = run[q]
  BY <1>1, <1>0 DEF TypeOK
<1>6. TypeOK'
  <2>1. [pc |-> "wait", op |-> op, shown |-> shown, hash |-> h] \in
          [pc : Active \cup {"idle", "ended"}, op : Operations, shown : 0 .. FirstOpen,
           hash : Runs \cup {NoRun}]
    BY <1>1 DEF Active
  <2>2. run' \in [Runs -> [pc : Active \cup {"idle", "ended"}, op : Operations,
                           shown : 0 .. FirstOpen, hash : Runs \cup {NoRun}]]
    BY <1>1, <1>0, <2>1 DEF TypeOK
  <2>3. pending' \subseteq Transactions
    BY <1>3, <1>4, <1>0 DEF TypeOK
  <2> QED
    BY <1>0, <2>2, <2>3 DEF TypeOK, FirstOpen, Transactions
<1>7. SendInv'
  BY <1>5, <1>0 DEF SendInv
<1>8. FreshInv'
  <2> SUFFICES ASSUME NEW q \in Runs, run'[q].pc \in {"idle", "send"}
               PROVE  /\ \A y \in pending' \cup results : y.id # q
                      /\ \A p \in Runs : run'[p].hash # q
    BY <1>0 DEF FreshInv
  <2>1. q # r /\ run[q].pc \in {"idle", "send"}
    BY <1>5
  <2>2. id # q
    BY <1>1, <2>1, <1>0 DEF FreshInv
  <2> QED
    BY <1>1, <1>3, <1>4, <1>5, <2>1, <2>2, <1>0 DEF FreshInv
<1>9. HashInv'
  <2>1. ASSUME id = r PROVE \A y \in pending \cup results : y.id # id
    BY <2>1, <1>0 DEF FreshInv
  <2> QED
    BY <1>2, <1>3, <1>4, <2>1, <1>0 DEF HashInv
<1>10. PollInv'
  <2> SUFFICES ASSUME NEW q \in Runs
               PROVE  /\ \A y \in pending' : y.id = run'[q].hash => y.op = run'[q].op
                      /\ \A y \in results : y.id = run'[q].hash /\ y.ok =>
                           /\ run'[q].op.kind = "propose" => Made(y.seq, run'[q].op)
                           /\ run'[q].op.kind = "execute" => Executes(y.seq, run'[q].op, run'[q].shown)
    BY <1>0 DEF PollInv, Made, Executes, Executed
  <2>1. CASE q = r
    <3>1. ASSUME NEW y \in pending', y.id = h PROVE y.op = op
      <4>1. y.id = id
        BY <3>1, <1>1, <1>4, <1>3, <1>0 DEF TypeOK, Transactions
      <4>2. x(id) \in pending'
        BY <1>1, <3>1, <4>1, <1>4, <1>2, <1>0 DEF FreshInv
      <4> QED
        BY <4>1, <4>2, <1>9, <1>3 DEF HashInv
    <3>2. ASSUME NEW y \in results, y.id = h PROVE FALSE
      <4>1. y.id \in Runs
        BY <1>0 DEF TypeOK
      <4>2. h = id /\ id # NoRun /\ accepted
        BY <4>1, <3>2, <1>1, <1>0
      <4> QED
        BY <4>2, <3>2, <1>1, <1>2, <1>0, <1>3 DEF HashInv, FreshInv
    <3> QED
      BY <2>1, <3>1, <3>2, <1>5
  <2>2. CASE q # r
    <3>1. run'[q] = run[q]
      BY <2>2, <1>5
    <3>2. id = r => run[q].hash # id
      BY <1>0 DEF FreshInv
    <3> QED
      BY <3>1, <3>2, <1>3, <1>4, <1>0 DEF PollInv
  <2> QED
    BY <2>1, <2>2
<1>11. PendingInv'
  BY <1>3, <1>4, <1>0 DEF PendingInv, Voted
<1>12. AnnouncedInv' /\ ApprovedInv'
  BY <1>0 DEF AnnouncedInv, ApprovedInv
<1>13. SuccessMeansResolved'
  BY <1>0 DEF SuccessMeansResolved, Executed
<1> QED
  BY <1>6, <1>7, <1>8, <1>9, <1>10, <1>11, <1>12, <1>13, QueueKept DEF IInv

\* What a run has to keep that goes on to send, or ends and tells its reader.
LEMMA Tells ==
  ASSUME IInv, NEW r \in Runs, NEW l, run' = [run EXCEPT ![r] = l],
         l \in [pc : Active \cup {"idle", "ended"}, op : Operations, shown : 0 .. FirstOpen,
                hash : Runs \cup {NoRun}],
         l.pc \in {"send", "ended"}, l.hash = NoRun,
         l.pc = "send" => run[r].pc = "idle" /\ l.op.kind \in {"execute", "remove"},
         UNCHANGED <<proposed, approved, nonce, pending, results, module>>,
         announced \subseteq announced',
         \A a \in announced' \ announced :
           a \in [seq : DOMAIN queue, payload : Payloads] /\ queue[a.seq].payload = a.payload,
         \A e \in succeeded' \ succeeded :
           /\ e \in [id : Runs, shown : Nat, payload : Payloads]
           /\ \E x \in results : x.id = e.id /\ Executes(x.seq, e, e.shown)
  PROVE  IInv'
<1>0. /\ TypeOK /\ SendInv /\ FreshInv /\ HashInv /\ PollInv /\ PendingInv
      /\ ApprovedInv /\ AnnouncedInv /\ SuccessMeansResolved
      /\ UNCHANGED <<accounts, threshold, queue, resolved>> /\ Operations' = Operations
      /\ NoRun \notin Runs
  BY OwnersAssumption DEF IInv, module, Operations
<1>1. run'[r] = l /\ \A q \in Runs \ {r} : run'[q] = run[q]
  BY <1>0 DEF TypeOK
<1>2. TypeOK'
  BY <1>0 DEF TypeOK, FirstOpen, Transactions
<1>3. SendInv'
  BY <1>0, <1>1 DEF SendInv
<1>4. FreshInv'
  BY <1>0, <1>1 DEF FreshInv
<1>5. HashInv' /\ PendingInv'
  BY <1>0 DEF HashInv, PendingInv, Voted
<1>6. PollInv'
  <2>1. \A x \in pending \cup results : x.id # NoRun
    BY <1>0 DEF TypeOK, Transactions
  <2> QED
    BY <2>1, <1>0, <1>1 DEF PollInv, Made, Executes, Executed
<1>7. AnnouncedInv' /\ ApprovedInv'
  BY <1>0 DEF AnnouncedInv, ApprovedInv
<1>8. SuccessMeansResolved'
  <2> SUFFICES ASSUME NEW e \in succeeded'
               PROVE  \E x \in results : x.id = e.id /\ x.seq \in Executed /\ x.seq >= e.shown
                                         /\ queue[x.seq].payload = e.payload
    BY <1>0 DEF SuccessMeansResolved, Executed
  <2>1. CASE e \in succeeded
    BY <2>1, <1>0 DEF SuccessMeansResolved
  <2>2. CASE e \notin succeeded
    <3>1. PICK x \in results : x.id = e.id /\ Executes(x.seq, e, e.shown)
      BY <2>2
    <3>2. x.seq \in Nat /\ e.shown \in Nat
      BY <2>2, <1>0, QueueTyped DEF TypeOK
    <3> QED
      BY <3>1, <3>2 DEF Executes
  <2> QED
    BY <2>1, <2>2
<1> QED
  BY <1>2, <1>3, <1>4, <1>5, <1>6, <1>7, <1>8, QueueKept DEF IInv

LEMMA StepOfARun == ASSUME IInv, NEW r \in Runs, Step(r) PROVE IInv'
<1>0. /\ TypeOK /\ SendInv /\ PollInv /\ AnnouncedInv
      /\ run[r] \in [pc : Active \cup {"idle", "ended"}, op : Operations, shown : 0 .. FirstOpen,
                     hash : Runs \cup {NoRun}]
      /\ FirstOpen \in Nat /\ 0 \in 0 .. FirstOpen /\ FirstOpen \in 0 .. FirstOpen
  BY QueueTyped DEF IInv, TypeOK
<1>a. Ended \in [pc : Active \cup {"idle", "ended"}, op : Operations, shown : 0 .. FirstOpen,
                 hash : Runs \cup {NoRun}] /\ Ended.pc = "ended" /\ Ended.hash = NoRun
  BY <1>0 DEF Ended, Idle, Operations
<1>1. CASE create(r)
  <2>1. Create \in Operations /\ Create.kind = "create"
    BY DEF Create, Operations
  <2> QED
    BY <1>1, <1>0, <2>1, OwnersAssumption, Sends DEF create, Start, TypeOK
<1>2. CASE propose(r)
  <2>1. PICK o \in Owners, p \in Payloads :
          send_tx(r, o, Propose(o, p), 0) /\ proposed' = proposed \cup {<<o, p>>}
    BY <1>2 DEF propose
  <2>2. /\ Propose(o, p) \in Operations
        /\ Propose(o, p).kind = "propose" /\ Propose(o, p).payload = p
    BY DEF Propose, Operations
  <2>3. proposed' \subseteq Owners \X Payloads
    BY <2>1, <1>0 DEF TypeOK
  <2> QED
    BY <1>2, <1>0, <2>1, <2>2, <2>3, Sends DEF propose, Start
<1>3. CASE vote(r)
  <2>1. PICK o \in Owners, n \in Numbers, b \in BOOLEAN :
          send_tx(r, o, Vote(n, b), 0) /\ Approve(o, n, b)
    BY <1>3 DEF vote
  <2>2. /\ Vote(n, b) \in Operations /\ Vote(n, b).kind = "vote"
        /\ Vote(n, b).seq = n /\ Vote(n, b).approved = b
    BY DEF Vote, Operations
  <2>3. PICK p \in Payloads \cup {Unseen} :
          /\ p = Unseen \/ [seq |-> n, payload |-> p] \in announced
          /\ approved' = IF b THEN approved \cup {[owner |-> o, seq |-> n, payload |-> p]} ELSE approved
    <3> DEFINE known == {a.payload : a \in {c \in announced : c.seq = n}}
    <3>1. PICK p \in IF known = {} THEN {Unseen} ELSE known :
            approved' = IF b THEN approved \cup {[owner |-> o, seq |-> n, payload |-> p]} ELSE approved
      BY <2>1 DEF Approve
    <3>2. CASE p = Unseen
      BY <3>1, <3>2
    <3>3. CASE p \in known
      <4>1. PICK a \in announced : a.seq = n /\ a.payload = p
        BY <3>3
      <4>2. a \in [seq : DOMAIN queue, payload : Payloads]
        BY <1>0 DEF TypeOK
      <4>3. a = [seq |-> n, payload |-> p] /\ p \in Payloads
        BY <4>1, <4>2
      <4> QED
        BY <3>1, <4>1, <4>3
    <3> QED
      BY <3>1, <3>2, <3>3
  <2>4. /\ approved \subseteq approved'
        /\ \A a \in approved' \ approved :
             /\ a \in [owner : Owners, seq : Numbers, payload : Payloads \cup {Unseen}]
             /\ a.payload = Unseen \/ [seq |-> a.seq, payload |-> a.payload] \in announced
        /\ b => Voted(o, n)'
    <3> DEFINE v == [owner |-> o, seq |-> n, payload |-> p]
    <3>1. /\ v \in [owner : Owners, seq : Numbers, payload : Payloads \cup {Unseen}]
          /\ v.owner = o /\ v.seq = n /\ v.payload = p
      OBVIOUS
    <3>2. approved' = IF b THEN approved \cup {v} ELSE approved
      BY <2>3
    <3> HIDE DEF v
    <3> QED
      BY <2>3, <3>1, <3>2 DEF Voted
  <2>5. proposed' = proposed /\ proposed' \subseteq Owners \X Payloads
    BY <1>3, <1>0 DEF vote, TypeOK
  <2> QED
    BY <1>3, <1>0, <2>1, <2>2, <2>4, <2>5, Sends DEF vote, Start
<1>4. ASSUME NEW op \in {Remove} \cup {Execute(p) : p \in Payloads}, view(r, op) PROVE IInv'
  <2>1. op \in Operations /\ op.kind \in {"execute", "remove"}
    BY DEF Operations, Remove, Execute
  <2>2. CASE Address(Creator) \in accounts
    <3> DEFINE l == [Idle EXCEPT !.pc = "send", !.op = op, !.shown = resolved + 1]
    <3>1. /\ l \in [pc : Active \cup {"idle", "ended"}, op : Operations, shown : 0 .. FirstOpen,
                    hash : Runs \cup {NoRun}]
          /\ l.pc = "send" /\ l.hash = NoRun /\ l.op = op
      BY <1>0, <2>1 DEF Idle, Active, FirstOpen
    <3>2. run' = [run EXCEPT ![r] = l]
      BY <1>4, <2>2 DEF view
    <3> HIDE DEF l
    <3> QED
      BY <1>4, <2>1, <3>1, <3>2, Tells DEF view, Start
  <2>3. CASE Address(Creator) \notin accounts
    BY <1>4, <2>3, <1>a, Tells DEF view
  <2> QED
    BY <2>2, <2>3
<1>5. CASE execute(r)
  <2>1. run[r].op.kind \in {"execute", "remove"}
    BY <1>5, <1>0 DEF execute, SendInv
  <2> QED
    BY <1>5, <1>0, <2>1, OwnersAssumption, Sends DEF execute, TypeOK
<1>6. CASE wait_for_tx(r)
  <2>1. ASSUME NEW e \in succeeded' \ succeeded
        PROVE  /\ e \in [id : Runs, shown : Nat, payload : Payloads]
               /\ \E x \in results : x.id = e.id /\ Executes(x.seq, e, e.shown)
    <3>1. PICK x \in Status(r) :
            /\ x.ok /\ run[r].op.kind = "execute"
            /\ e = [id |-> run[r].hash, shown |-> run[r].shown, payload |-> run[r].op.payload]
      BY <1>6, <2>1 DEF wait_for_tx
    <3>2. x \in results /\ x.id = run[r].hash /\ Executes(x.seq, run[r].op, run[r].shown)
      BY <3>1, <1>0 DEF Status, PollInv
    <3>3. run[r].hash \in Runs /\ run[r].op.payload \in Payloads /\ run[r].shown \in Nat
      BY <3>1, <3>2, <1>0, OperationKinds DEF TypeOK
    <3> QED
      BY <3>1, <3>2, <3>3 DEF Executes
  <2> QED
    BY <1>6, <1>a, <2>1, Tells DEF wait_for_tx
<1>7. CASE get_multisig_tx_sequence_from_tx_hash(r)
  <2>1. ASSUME NEW a \in announced' \ announced
        PROVE  a \in [seq : DOMAIN queue, payload : Payloads] /\ queue[a.seq].payload = a.payload
    <3>1. PICK x \in Status(r) : x.ok /\ a = [seq |-> x.seq, payload |-> run[r].op.payload]
      BY <1>7, <2>1 DEF get_multisig_tx_sequence_from_tx_hash
    <3>2. Made(x.seq, run[r].op) /\ run[r].op.kind = "propose"
      BY <1>7, <3>1, <1>0 DEF get_multisig_tx_sequence_from_tx_hash, Status, PollInv
    <3>3. run[r].op.payload \in Payloads
      BY <3>2, <1>0, OperationKinds
    <3> QED
      BY <3>1, <3>2, <3>3 DEF Made
  <2> QED
    BY <1>7, <1>a, <2>1, Tells DEF get_multisig_tx_sequence_from_tx_hash
<1>8. CASE abort(r)
  BY <1>8, <1>a, Tells DEF abort
<1> QED
  BY <1>1, <1>2, <1>3, <1>4, <1>5, <1>6, <1>7, <1>8 DEF Step

\* What a successful operation x does to the queue: it may append its own
\* proposal, enter its own vote or resolve the first open proposal, and
\* nothing else is ever changed.
AppendedBy(x, s) == x.op.kind = "propose" /\ s = Len(queue) + 1
MovedBy(x) ==
  /\ queue' \in Seq(Proposals) /\ Len(queue) <= Len(queue')
  /\ \A s \in DOMAIN queue : queue'[s].payload = queue[s].payload
  /\ \A s \in DOMAIN queue' : s \in DOMAIN queue \/ AppendedBy(x, s)
  /\ \A s \in DOMAIN queue', o \in Owners : queue'[s].votes[o] = "yes" =>
       \/ s \in DOMAIN queue /\ queue[s].votes[o] = "yes"
       \/ AppendedBy(x, s) /\ o = x.from /\ queue'[s].payload = x.op.payload
       \/ x.op.kind = "vote" /\ x.op.approved /\ s = x.op.seq /\ o = x.from /\ s \in DOMAIN queue
  /\ Executed \subseteq Executed'
  /\ \A s \in Executed' : \/ s \in Executed
                          \/ /\ x.op.kind = "execute" /\ s = FirstOpen /\ resolved' = FirstOpen
                             /\ s \in DOMAIN queue
  /\ resolved <= resolved' /\ resolved' \in 0 .. Len(queue')
  /\ accounts' \subseteq {Creator} \X Nat /\ threshold' = threshold
  /\ Subject(x) \in {0} \cup DOMAIN queue'
  /\ x.op.kind = "propose" => Subject(x) \in DOMAIN queue' /\ queue'[Subject(x)].payload = x.op.payload
  /\ x.op.kind = "execute" => Subject(x) = FirstOpen /\ FirstOpen \in Executed'
                              /\ queue[FirstOpen].payload = x.op.payload

LEMMA ApplyMoves ==
  ASSUME IInv, NEW x \in pending, CanApply(x), Apply(x)
  PROVE  MovedBy(x)
<1>0. /\ x.op \in Operations /\ x.from \in Owners /\ nonce \in Nat /\ accounts \subseteq {Creator} \X Nat
      /\ x.op.kind = "create" => x.from = Creator
  BY DEF IInv, TypeOK, Transactions, PendingInv
<1>q. /\ queue \in Seq(Proposals) /\ Len(queue) \in Nat /\ DOMAIN queue = 1 .. Len(queue)
      /\ \A s \in DOMAIN queue : queue[s] \in Proposals
      /\ resolved \in Nat /\ resolved <= Len(queue) /\ FirstOpen \in Nat /\ resolved < FirstOpen
      /\ Open => FirstOpen \in DOMAIN queue
  BY QueueTyped DEF IInv
<1>1. CASE x.op.kind = "create"
  <2>1. accounts' = accounts \cup {<<x.from, nonce>>} /\ UNCHANGED <<threshold, queue, resolved>>
    BY <1>1 DEF Apply
  <2>2. Subject(x) = 0
    BY <1>1 DEF Subject
  <2> QED
    BY <1>0, <1>q, <1>1, <2>1, <2>2 DEF MovedBy, Executed
<1>2. CASE x.op.kind = "propose"
  <2>1. queue' = Append(queue, Proposal(x.from, x.op.payload)) /\ UNCHANGED <<accounts, threshold, resolved>>
    BY <1>2 DEF Apply
  <2>2. /\ Proposal(x.from, x.op.payload) \in Proposals
        /\ Proposal(x.from, x.op.payload).payload = x.op.payload
        /\ Proposal(x.from, x.op.payload).outcome = "open"
        /\ \A o \in Owners : Proposal(x.from, x.op.payload).votes[o] = "yes" => o = x.from
    BY <1>0, <1>2, OperationKinds DEF Proposal, Proposals
  <2>3. /\ queue' \in Seq(Proposals) /\ DOMAIN queue' = 1 .. Len(queue) + 1 /\ Len(queue') = Len(queue) + 1
        /\ \A s \in DOMAIN queue : queue'[s] = queue[s]
        /\ queue'[Len(queue) + 1] = Proposal(x.from, x.op.payload)
    BY <2>1, <2>2, <1>q
  <2>4. Subject(x) = Len(queue) + 1
    BY <1>2 DEF Subject
  <2>5. Executed' = Executed
    BY <2>2, <2>3, <1>q DEF Executed
  <2>6. /\ \A s \in DOMAIN queue' : s \in DOMAIN queue \/ AppendedBy(x, s)
        /\ Subject(x) \in DOMAIN queue' /\ queue'[Subject(x)].payload = x.op.payload
    BY <1>2, <1>q, <2>2, <2>3, <2>4 DEF AppendedBy
  <2>7. \A s \in DOMAIN queue', o \in Owners : queue'[s].votes[o] = "yes" =>
          \/ s \in DOMAIN queue /\ queue[s].votes[o] = "yes"
          \/ AppendedBy(x, s) /\ o = x.from /\ queue'[s].payload = x.op.payload
    BY <1>2, <2>2, <2>3, <2>6 DEF AppendedBy
  <2> QED
    BY <1>0, <1>q, <1>2, <2>1, <2>3, <2>4, <2>5, <2>6, <2>7 DEF MovedBy
<1>3. CASE x.op.kind = "vote"
  <2> DEFINE v == IF x.op.approved THEN "yes" ELSE "no"
  <2>0. x.op.seq \in DOMAIN queue
    BY <1>q, <1>3 DEF CanApply
  <2>1. /\ queue' = [queue EXCEPT ![x.op.seq] = [queue[x.op.seq] EXCEPT !.votes =
                       [queue[x.op.seq].votes EXCEPT ![x.from] = v]]]
        /\ UNCHANGED <<accounts, threshold, resolved>>
    BY <1>3 DEF Apply
  <2>2. /\ [queue[x.op.seq] EXCEPT !.votes = [queue[x.op.seq].votes EXCEPT ![x.from] = v]] \in Proposals
        /\ queue[x.op.seq].votes \in [Owners -> {"yes", "no", "none"}]
    BY <2>0, <1>0, <1>q DEF Proposals
  <2>3. /\ queue' \in Seq(Proposals) /\ Len(queue') = Len(queue) /\ DOMAIN queue' = DOMAIN queue
        /\ \A s \in DOMAIN queue \ {x.op.seq} : queue'[s] = queue[s]
        /\ queue'[x.op.seq] = [queue[x.op.seq] EXCEPT !.votes = [queue[x.op.seq].votes EXCEPT ![x.from] = v]]
    BY <2>0, <2>1, <2>2, <1>q
  <2>4. /\ queue'[x.op.seq].payload = queue[x.op.seq].payload
        /\ queue'[x.op.seq].outcome = queue[x.op.seq].outcome
        /\ queue'[x.op.seq].votes = [queue[x.op.seq].votes EXCEPT ![x.from] = v]
    BY <2>0, <2>3, <1>q DEF Proposals
  <2>5. Executed' = Executed
    BY <2>3, <2>4 DEF Executed
  <2>6. Subject(x) = x.op.seq
    BY <1>3 DEF Subject
  <2>7. \A s \in DOMAIN queue', o \in Owners : queue'[s].votes[o] = "yes" =>
          \/ s \in DOMAIN queue /\ queue[s].votes[o] = "yes"
          \/ x.op.approved /\ s = x.op.seq /\ o = x.from
    <3>1. \A o \in Owners : queue'[x.op.seq].votes[o] = IF o = x.from THEN v ELSE queue[x.op.seq].votes[o]
      BY <2>2, <2>4
    <3>2. v = "yes" => x.op.approved
      OBVIOUS
    <3> QED
      BY <2>0, <2>3, <3>1, <3>2
  <2> QED
    BY <1>0, <1>q, <1>3, <2>0, <2>1, <2>3, <2>4, <2>5, <2>6, <2>7 DEF MovedBy
<1>4. CASE x.op.kind \in {"execute", "remove"}
  <2>0. Open /\ FirstOpen \in DOMAIN queue /\ (x.op.kind = "execute" => queue[FirstOpen].payload = x.op.payload)
    BY <1>4, <1>q DEF CanApply
  <2>1. PICK how \in IF x.op.kind = "execute" THEN {"executed", "failed"} ELSE {"removed"} :
          /\ queue' = [queue EXCEPT ![FirstOpen] = [queue[FirstOpen] EXCEPT !.outcome = how]]
          /\ resolved' = FirstOpen /\ UNCHANGED <<accounts, threshold>>
    BY <1>4 DEF Apply
  <2>2. [queue[FirstOpen] EXCEPT !.outcome = how] \in Proposals
    BY <2>0, <1>q DEF Proposals
  <2>3. /\ queue' \in Seq(Proposals) /\ Len(queue') = Len(queue) /\ DOMAIN queue' = DOMAIN queue
        /\ \A s \in DOMAIN queue \ {FirstOpen} : queue'[s] = queue[s]
        /\ queue'[FirstOpen] = [queue[FirstOpen] EXCEPT !.outcome = how]
    BY <2>0, <2>1, <2>2, <1>q
  <2>4. /\ queue'[FirstOpen].payload = queue[FirstOpen].payload
        /\ queue'[FirstOpen].outcome = how
        /\ queue'[FirstOpen].votes = queue[FirstOpen].votes
    BY <2>0, <2>3, <1>q DEF Proposals
  <2>5. FirstOpen \notin Executed
    BY <1>q DEF IInv, ExecutedInv
  <2>6. /\ Executed \subseteq Executed'
        /\ \A s \in Executed' : s \in Executed \/ (x.op.kind = "execute" /\ s = FirstOpen)
        /\ x.op.kind = "execute" => FirstOpen \in Executed'
    BY <2>0, <2>3, <2>4, <2>5 DEF Executed
  <2>7. Subject(x) = FirstOpen
    BY <1>4 DEF Subject
  <2> QED
    BY <1>0, <1>q, <1>4, <2>0, <2>1, <2>3, <2>4, <2>6, <2>7 DEF MovedBy
<1> QED
  BY <1>0, <1>1, <1>2, <1>3, <1>4, OperationKinds

\* One yes does not make two.
LEMMA OneVoter ==
  ASSUME NEW s, \A o, p \in Owners : queue[s].votes[o] = "yes" /\ queue[s].votes[p] = "yes" => o = p
  PROVE  Cardinality(Voters(s, "yes")) <= 1
<1>1. CASE Voters(s, "yes") = {}
  BY <1>1, FS_EmptySet
<1>2. ASSUME NEW o \in Voters(s, "yes") PROVE Cardinality(Voters(s, "yes")) <= 1
  <2>1. Voters(s, "yes") = {o}
    BY DEF Voters
  <2> QED
    BY <2>1, FS_Singleton
<1> QED
  BY <1>1, <1>2

\* Who has a yes has asked for the payload.
LEMMA VotersAsked ==
  ASSUME IInv, NEW s \in DOMAIN queue, NEW o \in Voters(s, "yes")
  PROVE  Asked(o, s)
<1>1. o \in Owners /\ (<<o, queue[s].payload>> \in proposed \/ Voted(o, s))
  BY DEF IInv, VotesInv, Voters
<1>2. ASSUME Voted(o, s) PROVE Approves(o, s)
  <2>1. PICK a \in approved : a.owner = o /\ a.seq = s
    BY <1>2 DEF Voted
  <2>2. a.payload = Unseen \/ [seq |-> a.seq, payload |-> a.payload] \in announced
    BY DEF IInv, ApprovedInv
  <2>3. [seq |-> a.seq, payload |-> a.payload] \in announced => queue[s].payload = a.payload
    BY <2>1 DEF IInv, AnnouncedInv
  <2> QED
    BY <2>1, <2>2, <2>3 DEF Approves
<1> QED
  BY <1>1, <1>2 DEF Asked

\* A successful operation keeps what is said of the queue: who voted yes has
\* asked, and what is executed has yes votes enough.
LEMMA QueueMoves ==
  ASSUME IInv, NEW x \in pending, CanApply(x), MovedBy(x), UNCHANGED scripts
  PROVE  VotesInv' /\ ExecutedInv' /\ AgreedByThreshold' /\ UnannouncedExplained'
<1>0. /\ TypeOK /\ PendingInv /\ VotesInv /\ ApprovedInv /\ AnnouncedInv /\ ExecutedInv
      /\ AgreedByThreshold /\ UnannouncedExplained
      /\ UNCHANGED <<proposed, approved, announced>> /\ threshold' = threshold /\ threshold \in Nat
      /\ x.op \in Operations /\ x.from \in Owners
  BY OwnersAssumption, FS_CardinalityType DEF IInv, scripts, MovedBy, TypeOK, Transactions
<1>q. /\ queue \in Seq(Proposals) /\ Len(queue) \in Nat /\ DOMAIN queue = 1 .. Len(queue)
      /\ resolved \in Nat /\ resolved <= Len(queue) /\ FirstOpen \in Nat /\ resolved < FirstOpen
  BY <1>0, QueueTyped
<1>1. VotesInv'
  <2>1. ASSUME NEW s \in DOMAIN queue', NEW o \in Owners, queue'[s].votes[o] = "yes"
        PROVE  <<o, queue'[s].payload>> \in proposed \/ Voted(o, s)
    <3>1. CASE s \in DOMAIN queue /\ queue[s].votes[o] = "yes"
      BY <3>1, <1>0 DEF VotesInv, MovedBy
    <3>2. CASE AppendedBy(x, s) /\ o = x.from /\ queue'[s].payload = x.op.payload
      BY <3>2, <1>0 DEF PendingInv, AppendedBy
    <3>3. CASE x.op.kind = "vote" /\ x.op.approved /\ s = x.op.seq /\ o = x.from
      BY <3>3, <1>0 DEF PendingInv
    <3> QED
      BY <2>1, <3>1, <3>2, <3>3 DEF MovedBy
  <2>2. ASSUME NEW s \in DOMAIN queue', NEW o \in Owners, NEW p \in Owners,
               queue'[s].votes[o] = "yes", queue'[s].votes[p] = "yes",
               ~Voted(o, s), ~Voted(p, s)
        PROVE  o = p
    <3>0. ~(x.op.kind = "vote" /\ x.op.approved /\ s = x.op.seq /\ (o = x.from \/ p = x.from))
      BY <2>2, <1>0 DEF PendingInv
    <3>1. CASE s \in DOMAIN queue
      <4>1. ~AppendedBy(x, s)
        BY <3>1, <1>q DEF AppendedBy
      <4>2. queue[s].votes[o] = "yes" /\ queue[s].votes[p] = "yes"
        BY <2>2, <3>0, <4>1 DEF MovedBy
      <4> QED
        BY <2>2, <3>1, <4>2, <1>0 DEF VotesInv
    <3>2. CASE s \notin DOMAIN queue
      <4>1. AppendedBy(x, s)
        BY <3>2 DEF MovedBy
      <4>2. o = x.from /\ p = x.from
        BY <2>2, <3>2, <4>1 DEF MovedBy, AppendedBy
      <4> QED
        BY <4>2
    <3> QED
      BY <3>1, <3>2
  <2> QED
    BY <2>1, <2>2, <1>0 DEF VotesInv, Voted
<1>2. ExecutedInv'
  <2>1. \A s \in Executed : s \in Nat /\ s <= resolved
    BY <1>0, <1>q DEF ExecutedInv, Executed
  <2>2. resolved' \in Nat /\ resolved <= resolved'
    BY DEF MovedBy
  <2> QED
    BY <2>1, <2>2, <1>q DEF ExecutedInv, MovedBy
<1>3. ASSUME NEW s \in Executed', s \notin Executed
      PROVE  /\ s \in DOMAIN queue /\ queue'[s].payload = queue[s].payload
             /\ Cardinality(Voters(s, "yes")) >= threshold
  <2>1. x.op.kind = "execute" /\ s = FirstOpen /\ s \in DOMAIN queue
    BY <1>3 DEF MovedBy
  <2>2. Enough(s, "yes")
    BY <2>1 DEF CanApply
  <2> QED
    BY <2>1, <2>2 DEF Enough, MovedBy
<1>4. \A s \in Executed : s \in Executed' /\ s \in DOMAIN queue /\ queue'[s].payload = queue[s].payload
  BY DEF Executed, MovedBy
<1>5. AgreedByThreshold'
  <2> SUFFICES ASSUME NEW s \in Executed'
               PROVE  Cardinality({o \in Owners : Asked(o, s)'}) >= threshold
    BY <1>0 DEF AgreedByThreshold
  <2>0. s \in DOMAIN queue /\ queue'[s].payload = queue[s].payload
    BY <1>3, <1>4
  <2>1. /\ Cardinality({o \in Owners : Asked(o, s)}) \in Nat
        /\ Cardinality({o \in Owners : Asked(o, s)'}) \in Nat
        /\ Cardinality({o \in Owners : Asked(o, s)}) <= Cardinality({o \in Owners : Asked(o, s)'})
    BY <1>0, <2>0, AskedGrow
  <2>2. Cardinality({o \in Owners : Asked(o, s)}) >= threshold
    <3>1. CASE s \in Executed
      BY <3>1, <1>0 DEF AgreedByThreshold
    <3>2. CASE s \notin Executed
      <4>1. Voters(s, "yes") \subseteq {o \in Owners : Asked(o, s)}
        BY <2>0, VotersAsked DEF Voters
      <4>2. Voters(s, "yes") \in SUBSET Owners
        BY DEF Voters
      <4>3. /\ Cardinality(Voters(s, "yes")) \in Nat
            /\ Cardinality(Voters(s, "yes")) <= Cardinality({o \in Owners : Asked(o, s)})
        BY <4>1, <4>2, Counted
      <4> QED
        BY <3>2, <4>3, <2>1, <1>3, <1>0
    <3> QED
      BY <3>1, <3>2
  <2> QED
    BY <2>1, <2>2, <1>0
<1>6. UnannouncedExplained'
  <2> SUFFICES ASSUME NEW s \in Executed', threshold # 1
               PROVE  \/ [seq |-> s, payload |-> queue'[s].payload] \in announced
                      \/ \E a \in approved : a.seq = s /\ a.payload = Unseen
    BY <1>0 DEF UnannouncedExplained
  <2>1. CASE s \in Executed
    BY <2>1, <1>4, <1>0 DEF UnannouncedExplained
  <2>2. CASE s \notin Executed
    <3>1. Cardinality(Voters(s, "yes")) \in Nat
      BY Counted DEF Voters
    <3>2. ~(Cardinality(Voters(s, "yes")) <= 1)
      <4>1. threshold \in 1 .. Cardinality(Owners)
        BY <1>0, OwnersAssumption DEF TypeOK
      <4> QED
        BY <2>2, <1>3, <3>1, <4>1, <1>0, OwnersAssumption, FS_CardinalityType
    <3>3. PICK o \in Owners : Voted(o, s)
      BY <2>2, <1>3, <3>2, <1>0, OneVoter DEF VotesInv
    <3>4. PICK a \in approved : a.owner = o /\ a.seq = s
      BY <3>3 DEF Voted
    <3>5. a.payload = Unseen \/ [seq |-> a.seq, payload |-> a.payload] \in announced
      BY <1>0 DEF ApprovedInv
    <3>6. [seq |-> a.seq, payload |-> a.payload] \in announced => queue[s].payload = a.payload
      BY <3>4, <1>0 DEF AnnouncedInv
    <3> QED
      BY <2>2, <1>3, <3>4, <3>5, <3>6
  <2> QED
    BY <2>1, <2>2
<1> QED
  BY <1>1, <1>2, <1>5, <1>6

\* The scripts know of a commit only what they ask for.
LEMMA CommitStep == ASSUME IInv, Commit PROVE IInv'
<1>1. PICK x \in pending :
        /\ IF CanApply(x) THEN Apply(x) ELSE UNCHANGED module
        /\ results' = results \cup {[id |-> x.id, ok |-> CanApply(x),
                                     seq |-> IF CanApply(x) THEN Subject(x) ELSE 0]}
        /\ nonce' = IF x.from = Creator THEN nonce + 1 ELSE nonce
        /\ pending' = {y \in pending : y.from # x.from}
        /\ UNCHANGED scripts
  BY DEF Commit
<1> DEFINE ok == CanApply(x)
           y == [id |-> x.id, ok |-> ok, seq |-> IF ok THEN Subject(x) ELSE 0]
<1>0. /\ TypeOK /\ SendInv /\ FreshInv /\ HashInv /\ PollInv /\ PendingInv
      /\ ApprovedInv /\ AnnouncedInv /\ SuccessMeansResolved
      /\ UNCHANGED <<run, proposed, approved, announced, succeeded>>
      /\ x.op \in Operations /\ x.from \in Owners /\ x.id \in Runs
  BY <1>1 DEF IInv, scripts, TypeOK, Transactions
<1>q. /\ queue \in Seq(Proposals) /\ Len(queue) \in Nat /\ DOMAIN queue = 1 .. Len(queue)
      /\ resolved \in Nat /\ resolved <= Len(queue) /\ FirstOpen \in Nat
      /\ Open => FirstOpen \in DOMAIN queue
  BY <1>0, QueueTyped
<1>2. pending' \subseteq pending /\ x \notin pending' /\ results' = results \cup {y}
      /\ y.id = x.id /\ y.ok = ok /\ y.seq = IF ok THEN Subject(x) ELSE 0
  BY <1>1
<1>3. CanApply(x) => MovedBy(x)
  BY <1>1, ApplyMoves
<1>4. ~CanApply(x) => UNCHANGED <<accounts, threshold, queue, resolved>>
  BY <1>1 DEF module
<1> HIDE DEF ok, y
<1>5. /\ queue' \in Seq(Proposals) /\ DOMAIN queue \subseteq DOMAIN queue' /\ Executed \subseteq Executed'
      /\ \A s \in DOMAIN queue : queue'[s].payload = queue[s].payload
      /\ resolved' \in 0 .. Len(queue') /\ FirstOpen' \in Nat /\ FirstOpen <= FirstOpen'
      /\ accounts' \subseteq {Creator} \X Nat /\ threshold' = threshold
      /\ y.seq \in {0} \cup DOMAIN queue'
  <2>1. CASE CanApply(x)
    <3>1. MovedBy(x) /\ y.seq = Subject(x) /\ Len(queue') \in Nat /\ DOMAIN queue' = 1 .. Len(queue')
      BY <2>1, <1>2, <1>3 DEF MovedBy, ok
    <3>2. DOMAIN queue \subseteq DOMAIN queue'
      BY <3>1, <1>q DEF MovedBy
    <3>3. resolved \in Nat /\ resolved' \in Nat /\ resolved <= resolved'
      BY <3>1, <1>q DEF MovedBy
    <3>4. FirstOpen' \in Nat /\ FirstOpen <= FirstOpen'
      <4>1. \A m, n \in Nat : m <= n => n + 1 \in Nat /\ m + 1 <= n + 1
        OBVIOUS
      <4> QED
        BY <3>3, <4>1 DEF FirstOpen
    <3>5. y.seq \in {0} \cup DOMAIN queue'
      BY <3>1 DEF MovedBy
    <3>6. /\ queue' \in Seq(Proposals) /\ Executed \subseteq Executed'
          /\ \A s \in DOMAIN queue : queue'[s].payload = queue[s].payload
          /\ resolved' \in 0 .. Len(queue')
          /\ accounts' \subseteq {Creator} \X Nat /\ threshold' = threshold
      BY <3>1 DEF MovedBy
    <3> QED
      BY <3>2, <3>4, <3>5, <3>6
  <2>2. CASE ~CanApply(x)
    BY <2>2, <1>2, <1>4, <1>q, <1>0 DEF FirstOpen, Executed, TypeOK, ok
  <2> QED
    BY <2>1, <2>2
<1>6. TypeOK'
  <2>1. Operations' = Operations
    BY DEF Operations
  <2>2. 0 .. FirstOpen \subseteq 0 .. FirstOpen'
    BY <1>5, <1>q
  <2>3. run' \in [Runs -> [pc : Active \cup {"idle", "ended"}, op : Operations',
                           shown : 0 .. FirstOpen', hash : Runs \cup {NoRun}]]
    BY <2>1, <2>2, <1>0 DEF TypeOK
  <2>4. Transactions \subseteq Transactions'
    BY <2>1 DEF Transactions
  <2>5. y \in [id : Runs, ok : BOOLEAN, seq : {0} \cup DOMAIN queue']
    <3>1. ok \in BOOLEAN
      <4>1. CASE x.op.kind = "create"
        BY <4>1 DEF ok, CanApply
      <4>2. CASE x.op.kind = "propose"
        BY <4>2 DEF ok, CanApply
      <4>3. CASE x.op.kind = "vote"
        BY <4>3 DEF ok, CanApply
      <4>4. CASE x.op.kind = "execute"
        BY <4>4 DEF ok, CanApply
      <4>5. CASE x.op.kind = "remove"
        BY <4>5 DEF ok, CanApply
      <4> QED
        BY <4>1, <4>2, <4>3, <4>4, <4>5, <1>0, OperationKinds
    <3> QED
      BY <3>1, <1>0, <1>2, <1>5 DEF y
  <2>6. results' \subseteq [id : Runs, ok : BOOLEAN, seq : {0} \cup DOMAIN queue']
    BY <2>5, <1>0, <1>2, <1>5 DEF TypeOK
  <2>7. nonce' \in Nat
    BY <1>1, <1>0 DEF TypeOK
  <2>8. announced' \subseteq [seq : DOMAIN queue', payload : Payloads]
    BY <1>0, <1>5 DEF TypeOK
  <2> QED
    BY <2>3, <2>4, <2>6, <2>7, <2>8, <1>0, <1>2, <1>5 DEF TypeOK, Proposals
<1>7. SendInv'
  BY <1>0 DEF SendInv
<1>8. FreshInv' /\ HashInv'
  BY <1>0, <1>2 DEF FreshInv, HashInv
<1>9. PollInv'
  <2> SUFFICES ASSUME NEW q \in Runs, NEW z \in results', z.id = run[q].hash, z.ok
               PROVE  /\ run[q].op.kind = "propose" => Made(z.seq, run[q].op)'
                      /\ run[q].op.kind = "execute" => Executes(z.seq, run[q].op, run[q].shown)'
    BY <1>0, <1>2 DEF PollInv, Made, Executes
  <2>1. CASE z \in results
    BY <2>1, <1>0, <1>5 DEF PollInv, Made, Executes, Executed
  <2>2. CASE z = y
    <3>1. x.op = run[q].op /\ CanApply(x) /\ z.seq = Subject(x) /\ run[q].shown \in 0 .. FirstOpen
      BY <2>2, <1>0, <1>2 DEF PollInv, TypeOK, ok
    <3>2. ASSUME run[q].op.kind = "propose" PROVE Made(z.seq, run[q].op)'
      BY <3>1, <3>2, <1>0, <1>3 DEF MovedBy, Made
    <3>3. ASSUME run[q].op.kind = "execute" PROVE Executes(z.seq, run[q].op, run[q].shown)'
      <4>1. /\ z.seq = FirstOpen /\ FirstOpen \in Executed'
            /\ queue[FirstOpen].payload = run[q].op.payload
        BY <3>1, <3>3, <1>3 DEF MovedBy
      <4>2. queue'[FirstOpen].payload = queue[FirstOpen].payload
        BY <3>1, <3>3, <1>5, <1>q DEF CanApply
      <4>3. run[q].shown <= FirstOpen
        BY <3>1, <1>q
      <4> QED
        BY <4>1, <4>2, <4>3, <1>0 DEF Executes
    <3> QED
      BY <3>2, <3>3
  <2> QED
    BY <2>1, <2>2, <1>2
<1>10. PendingInv' /\ ApprovedInv' /\ AnnouncedInv'
  <2>1. PendingInv' /\ ApprovedInv'
    BY <1>0, <1>2 DEF PendingInv, Voted, ApprovedInv
  <2>2. AnnouncedInv'
    BY <1>0, <1>5 DEF AnnouncedInv, TypeOK
  <2> QED
    BY <2>1, <2>2
<1>11. SuccessMeansResolved'
  BY <1>0, <1>2, <1>5 DEF SuccessMeansResolved, Executed
<1>12. VotesInv' /\ ExecutedInv' /\ AgreedByThreshold' /\ UnannouncedExplained'
  <2>1. CASE CanApply(x)
    BY <2>1, <1>1, <1>3, QueueMoves
  <2>2. CASE ~CanApply(x)
    BY <2>2, <1>1, <1>0, QueueKept
  <2> QED
    BY <2>1, <2>2
<1> QED
  BY <1>6, <1>7, <1>8, <1>9, <1>10, <1>11, <1>12 DEF IInv

\* A dropped transaction leaves its run polling for nothing.
LEMMA DropStep == ASSUME IInv, Drop PROVE IInv'
<1>0. /\ TypeOK /\ SendInv /\ FreshInv /\ HashInv /\ PollInv /\ PendingInv /\ ApprovedInv
      /\ AnnouncedInv /\ SuccessMeansResolved /\ pending' \subseteq pending
      /\ UNCHANGED <<run, proposed, approved, announced, succeeded, nonce, results, module>>
      /\ UNCHANGED <<accounts, threshold, queue, resolved>>
  BY DEF IInv, Drop, scripts, module
<1>1. TypeOK'
  BY <1>0 DEF TypeOK, FirstOpen, Transactions, Operations
<1>2. SendInv' /\ FreshInv' /\ HashInv' /\ PendingInv' /\ ApprovedInv' /\ AnnouncedInv'
  BY <1>0 DEF SendInv, FreshInv, HashInv, PendingInv, Voted, ApprovedInv, AnnouncedInv
<1>3. PollInv' /\ SuccessMeansResolved'
  BY <1>0 DEF PollInv, Made, Executes, Executed, SuccessMeansResolved
<1> QED
  BY <1>0, <1>1, <1>2, <1>3, QueueKept DEF IInv

\* An expiry changes nothing that a vote, a transfer or a number depends on.
LEMMA ExpireStep == ASSUME IInv, Expire PROVE IInv'
<1>0. /\ TypeOK /\ SendInv /\ FreshInv /\ HashInv /\ PollInv /\ PendingInv /\ VotesInv
      /\ ApprovedInv /\ AnnouncedInv /\ ExecutedInv /\ AgreedByThreshold /\ UnannouncedExplained
      /\ SuccessMeansResolved
      /\ UNCHANGED <<run, proposed, approved, announced, succeeded, nonce, pending, results, accounts, threshold, resolved>>
  BY DEF IInv, Expire, scripts
<1>q. /\ queue \in Seq(Proposals) /\ Len(queue) \in Nat /\ DOMAIN queue = 1 .. Len(queue)
      /\ \A s \in DOMAIN queue : queue[s] \in Proposals
      /\ FirstOpen \in DOMAIN queue
  BY <1>0, QueueTyped DEF Expire
<1>1. /\ queue' = [queue EXCEPT ![FirstOpen] = [queue[FirstOpen] EXCEPT !.expired = TRUE]]
      /\ [queue[FirstOpen] EXCEPT !.expired = TRUE] \in Proposals
  BY <1>q DEF Expire, Proposals
<1>2. /\ queue' \in Seq(Proposals) /\ Len(queue') = Len(queue) /\ DOMAIN queue' = DOMAIN queue
      /\ \A s \in DOMAIN queue \ {FirstOpen} : queue'[s] = queue[s]
      /\ queue'[FirstOpen] = [queue[FirstOpen] EXCEPT !.expired = TRUE]
  BY <1>1, <1>q
<1>3. \A s \in DOMAIN queue : /\ queue'[s].payload = queue[s].payload
                              /\ queue'[s].outcome = queue[s].outcome
                              /\ queue'[s].votes = queue[s].votes
  BY <1>2, <1>q DEF Proposals
<1>4. Executed' = Executed /\ Operations' = Operations
  BY <1>2, <1>3 DEF Executed, Operations
<1>5. TypeOK'
  BY <1>0, <1>2, <1>4 DEF TypeOK, FirstOpen, Transactions, Proposals
<1>6. SendInv' /\ FreshInv' /\ HashInv'
  BY <1>0 DEF SendInv, FreshInv, HashInv
<1>7. PollInv'
  BY <1>0, <1>2, <1>3, <1>4 DEF PollInv, Made, Executes, Executed
<1>8. PendingInv' /\ ApprovedInv'
  BY <1>0 DEF PendingInv, Voted, ApprovedInv
<1>9. VotesInv' /\ AnnouncedInv'
  <2>1. DOMAIN queue' = DOMAIN queue
    BY <1>2
  <2>2. VotesInv'
    BY <1>0, <1>3, <2>1 DEF VotesInv, Voted
  <2>3. \A a \in announced : a.seq \in DOMAIN queue
    BY <1>0 DEF TypeOK
  <2> QED
    BY <1>0, <1>3, <2>2, <2>3 DEF AnnouncedInv
<1>10. ExecutedInv' /\ AgreedByThreshold' /\ UnannouncedExplained'
  <2>1. ExecutedInv' /\ UnannouncedExplained'
    BY <1>0, <1>3, <1>4 DEF ExecutedInv, UnannouncedExplained, Executed
  <2>2. ASSUME NEW s \in Executed PROVE \A o \in Owners : Asked(o, s)' <=> Asked(o, s)
    BY <1>0, <1>3 DEF Asked, Approves, Executed
  <2>3. ASSUME NEW s \in Executed PROVE {o \in Owners : Asked(o, s)'} = {o \in Owners : Asked(o, s)}
    BY <2>2
  <2> QED
    BY <2>1, <2>3, <1>0, <1>4 DEF AgreedByThreshold
<1>11. SuccessMeansResolved'
  BY <1>0, <1>3, <1>4 DEF SuccessMeansResolved, Executed
<1> QED
  BY <1>5, <1>6, <1>7, <1>8, <1>9, <1>10, <1>11 DEF IInv

LEMMA StepIInv == IInv /\ [Next]_vars => IInv'
<1> SUFFICES ASSUME IInv, [Next]_vars PROVE IInv'
  OBVIOUS
<1>1. CASE UNCHANGED vars
  <2>1. UNCHANGED <<run, proposed, approved, announced, succeeded, nonce, pending, results, accounts, queue, threshold, resolved>>
    BY <1>1 DEF vars, scripts, module
  <2>2. TypeOK'
    BY <2>1 DEF IInv, TypeOK, FirstOpen, Transactions, Operations
  <2>3. SendInv' /\ FreshInv' /\ HashInv' /\ PollInv' /\ SuccessMeansResolved'
    BY <2>1 DEF IInv, SendInv, FreshInv, HashInv, PollInv, Made, Executes, Executed, SuccessMeansResolved
  <2>4. PendingInv' /\ ApprovedInv' /\ AnnouncedInv'
    BY <2>1 DEF IInv, PendingInv, Voted, ApprovedInv, AnnouncedInv
  <2> QED
    BY <2>1, <2>2, <2>3, <2>4, QueueKept DEF IInv, module
<1> QED
  BY <1>1, StepOfARun, CommitStep, DropStep, ExpireStep DEF Next

LEMMA InitIInv == Init => IInv
<1> SUFFICES ASSUME Init PROVE IInv
  OBVIOUS
<1>1. /\ run = [r \in Runs |-> Idle] /\ proposed = {} /\ approved = {} /\ announced = {} /\ succeeded = {}
      /\ pending = {} /\ results = {} /\ queue = <<>> /\ resolved = 0 /\ threshold \in Thresholds
      /\ nonce \in Nat /\ accounts \subseteq {Creator} \X Nat
  BY DEF Init, Address
<1>2. Idle.pc = "idle" /\ Idle.hash = NoRun
  BY DEF Idle
<1>3. TypeOK
  <2>1. Idle \in [pc : Active \cup {"idle", "ended"}, op : Operations, shown : 0 .. FirstOpen,
                  hash : Runs \cup {NoRun}]
    BY <1>1 DEF Idle, Operations, FirstOpen
  <2>2. queue \in Seq(Proposals) /\ resolved \in 0 .. Len(queue)
    BY <1>1
  <2> QED
    BY <1>1, <2>1, <2>2 DEF TypeOK, Proposals
<1>4. SendInv /\ FreshInv /\ HashInv /\ PollInv /\ PendingInv
  BY <1>1, <1>2, OwnersAssumption DEF SendInv, FreshInv, HashInv, PollInv, PendingInv
<1>5. VotesInv /\ ApprovedInv /\ AnnouncedInv /\ Executed = {}
  BY <1>1 DEF VotesInv, ApprovedInv, AnnouncedInv, Executed
<1>6. ExecutedInv /\ AgreedByThreshold /\ UnannouncedExplained /\ SuccessMeansResolved
  BY <1>1, <1>5 DEF ExecutedInv, AgreedByThreshold, UnannouncedExplained, SuccessMeansResolved
<1> QED
  BY <1>3, <1>4, <1>5, <1>6 DEF IInv

\* Every reachable state, however the scripts, the transactions they have left
\* behind and the chain interleave, satisfies the inductive invariant.
THEOREM Invariance == Spec => []IInv
<1> QED
  BY InitIInv, StepIInv, PTL DEF Spec

\* The variables always have their types; above all, the numbers that propose
\* prints are those of proposals in the queue.
THEOREM TypeCorrect == Spec => []TypeOK
<1> QED
  BY Invariance, PTL DEF IInv

\* No transfer is executed, with or without success, that fewer owners than
\* the threshold asked for: by proposing it, or by voting yes on its number
\* when it was announced for this transfer or for none.  Votes name a number
\* only, and execute sends whatever payload its script was edited to send.
THEOREM Agreed == Spec => []AgreedByThreshold
<1> QED
  BY Invariance, PTL DEF IInv

\* A proposal whose script never printed its number is executed only with a
\* threshold of one or after a yes vote on a number that was not announced:
\* else to propose a transfer again after a failure pays only once.
THEOREM GivenUpNeedsBlindVote == Spec => []UnannouncedExplained
<1> QED
  BY Invariance, PTL DEF IInv

\* When an execute run sees Success, the payload that it sent was run and its
\* proposal resolved, the one that it showed or a later one, however stale its
\* view was.  It does not follow that the transfer was paid.
THEOREM SuccessResolvesOwn == Spec => []SuccessMeansResolved
<1> QED
  BY Invariance, PTL DEF IInv
=============================================================================
