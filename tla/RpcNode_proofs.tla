--------------------------- MODULE RpcNode_proofs ---------------------------
(***************************************************************************)
(* The safety properties of Genesis, for any number of callers, keys and   *)
(* write sets, and on top of them those of RpcNode, for any number of      *)
(* requests, VMs and threads, and of stops, crashes and power failures.    *)
(* What a node keeps of Genesis, it keeps as one caller among the others.  *)
(***************************************************************************)
EXTENDS RpcNode, TLAPS

(***************************************************************************)
(* Genesis.                                                                *)
(***************************************************************************)

\* A version is empty or holds all of some caller's genesis.
Whole(version) ==
  \/ version = Empty
  \/ /\ chain_id(version) # Deleted
     /\ \E p \in Procs : \A k \in Ops(p) : version[k] = WriteSet[p][k]

IInv == TypeOK /\ LockFollowsHandle /\ ServesOwnGenesis /\ NoTornGenesis

\* The log is never without a version, so that there is a current one.
LEMMA StoreTyped ==
  ASSUME TypeOK
  PROVE  Len(versions) \in Nat \ {0} /\ store \in [Keys -> Values]
BY DEF TypeOK, store

\* The batch of p leads to a version in which all of p's genesis is found.
LEMMA WrittenWhole ==
  ASSUME TypeOK, NEW p \in Procs
  PROVE  /\ Written(p, Ops(p)) \in [Keys -> Values]
         /\ \A k \in Ops(p) : Written(p, Ops(p))[k] = WriteSet[p][k]
         /\ Whole(Written(p, Ops(p)))
<1>1. store \in [Keys -> Values]
  BY StoreTyped
<1>2. \A k \in Ops(p) : WriteSet[p][k] \in Values
  BY DEF Values
<1>3. \A k \in Ops(p) : Written(p, Ops(p))[k] = WriteSet[p][k]
  BY WriteSetAssumption DEF Written
<1>4. Written(p, Ops(p)) \in [Keys -> Values]
  BY <1>1, <1>2 DEF Written
<1>5. chain_id(Written(p, Ops(p))) # Deleted
  BY <1>3, WriteSetAssumption DEF chain_id
<1> QED
  BY <1>3, <1>4, <1>5 DEF Whole

\* LOCK makes its holder the only caller with a handle.
LEMMA OneHandle ==
  ASSUME LockFollowsHandle, NEW p \in Procs, NEW q \in Procs,
         pc[p] \in HasHandle, pc[q] \in HasHandle
  PROVE  p = q
BY DEF LockFollowsHandle

LEMMA InitIInv == Init => IInv
<1> SUFFICES ASSUME Init PROVE IInv
  OBVIOUS
<1>1. TypeOK
  BY LockAssumption DEF Init, TypeOK, Empty, Values, HasHandle
<1>2. LockFollowsHandle
  BY LockAssumption DEF Init, LockFollowsHandle, HasHandle
<1>3. ServesOwnGenesis
  BY DEF Init, ServesOwnGenesis
<1>4. NoTornGenesis
  BY DEF Init, NoTornGenesis
<1> QED
  BY <1>1, <1>2, <1>3, <1>4 DEF IInv

LEMMA StepTypeOK == TypeOK /\ [Next]_vars => TypeOK'
<1> SUFFICES ASSUME TypeOK, [Next]_vars PROVE TypeOK'
  OBVIOUS
<1> USE DEF TypeOK, HasHandle
<1>1. ASSUME NEW p \in Procs, open(p) PROVE TypeOK'
  <2>1. runs' \in [Procs -> 0 .. MaxRuns]
    BY <1>1, LockAssumption DEF open
  <2>2. /\ pc' \in [Procs -> HasHandle \cup {"idle", "locked_out", "failed", "stopped"}]
        /\ lock' \in Procs \cup {NoProc}
    <3>1. CASE lock = NoProc
      BY <1>1, <3>1 DEF open
    <3>2. CASE lock # NoProc
      BY <1>1, <3>2 DEF open
    <3> QED
      BY <3>1, <3>2
  <2> QED
    BY <1>1, <2>1, <2>2 DEF open
<1>2. ASSUME NEW p \in Procs, add_write_set(p) PROVE TypeOK'
  BY <1>2 DEF add_write_set
<1>3. ASSUME NEW p \in Procs, write(p) PROVE TypeOK'
  <2>1. Written(p, Ops(p)) \in [Keys -> Values]
    BY WrittenWhole
  <2>2. /\ versions' \in Seq([Keys -> Values])
        /\ Len(versions') = Len(versions) + 1
    BY <1>3, <2>1 DEF write
  <2> QED
    BY <1>3, <2>2 DEF write
<1>4. ASSUME NEW p \in Procs, create_genesis_fails(p) PROVE TypeOK'
  BY <1>4 DEF create_genesis_fails
<1>5. ASSUME NEW p \in Procs, drop(p) PROVE TypeOK'
  BY <1>5 DEF drop
<1>6. ASSUME NEW p \in Procs, crash(p) PROVE TypeOK'
  BY <1>6 DEF crash
<1>7. ASSUME NEW p \in Procs, restart(p) PROVE TypeOK'
  BY <1>7 DEF restart
<1>8. CASE sync
  BY <1>8 DEF sync
<1>9. CASE power_loss
  <2>1. PICK n \in synced .. Len(versions) : versions' = SubSeq(versions, 1, n)
    BY <1>9 DEF power_loss
  <2>2. versions' \in Seq([Keys -> Values]) /\ Len(versions') = n /\ n \in Nat \ {0}
    BY <2>1
  <2> QED
    BY <1>9, <2>2 DEF power_loss
<1>10. CASE UNCHANGED vars
  BY <1>10 DEF vars
<1> QED
  BY <1>1, <1>2, <1>3, <1>4, <1>5, <1>6, <1>7, <1>8, <1>9, <1>10 DEF Next, Call

LEMMA StepLock == IInv /\ [Next]_vars => LockFollowsHandle'
<1> SUFFICES ASSUME IInv, [Next]_vars PROVE LockFollowsHandle'
  OBVIOUS
<1> USE LockAssumption DEF LockFollowsHandle, HasHandle
<1>0. TypeOK /\ LockFollowsHandle
  BY DEF IInv
<1>1. ASSUME NEW p \in Procs, open(p) PROVE LockFollowsHandle'
  BY <1>1, <1>0 DEF open, TypeOK
<1>2. ASSUME NEW p \in Procs, add_write_set(p) PROVE LockFollowsHandle'
  BY <1>2, <1>0 DEF add_write_set, TypeOK
<1>3. ASSUME NEW p \in Procs, write(p) PROVE LockFollowsHandle'
  BY <1>3, <1>0 DEF write, TypeOK
<1>4. ASSUME NEW p \in Procs, create_genesis_fails(p) PROVE LockFollowsHandle'
  BY <1>4, <1>0 DEF create_genesis_fails, TypeOK
<1>5. ASSUME NEW p \in Procs, drop(p) PROVE LockFollowsHandle'
  BY <1>5, <1>0 DEF drop, TypeOK
<1>6. ASSUME NEW p \in Procs, crash(p) PROVE LockFollowsHandle'
  BY <1>6, <1>0 DEF crash, TypeOK
<1>7. ASSUME NEW p \in Procs, restart(p) PROVE LockFollowsHandle'
  BY <1>7, <1>0 DEF restart, TypeOK
<1>8. CASE sync
  BY <1>8, <1>0 DEF sync
<1>9. CASE power_loss
  BY <1>9, <1>0 DEF power_loss
<1>10. CASE UNCHANGED vars
  BY <1>10, <1>0 DEF vars
<1> QED
  BY <1>1, <1>2, <1>3, <1>4, <1>5, <1>6, <1>7, <1>8, <1>9, <1>10 DEF Next, Call

\* Only write touches the store while somebody serves, and then it is the
\* batch of the one caller that has a handle.
LEMMA StepServes == IInv /\ [Next]_vars => ServesOwnGenesis'
<1> SUFFICES ASSUME IInv, [Next]_vars PROVE ServesOwnGenesis'
  OBVIOUS
<1> USE DEF ServesOwnGenesis
<1>0. TypeOK /\ LockFollowsHandle /\ ServesOwnGenesis
  BY DEF IInv
<1>a. ASSUME versions' = versions,
             \A q \in Procs : pc'[q] = "serving" => pc[q] = "serving"
      PROVE  ServesOwnGenesis'
  BY <1>a, <1>0 DEF store
<1>1. ASSUME NEW p \in Procs, open(p) PROVE ServesOwnGenesis'
  BY <1>1, <1>a, <1>0 DEF open, TypeOK
<1>2. ASSUME NEW p \in Procs, add_write_set(p) PROVE ServesOwnGenesis'
  BY <1>2, <1>a, <1>0 DEF add_write_set, TypeOK
<1>3. ASSUME NEW p \in Procs, write(p) PROVE ServesOwnGenesis'
  <2>1. store' = Written(p, Ops(p))
    BY <1>3, <1>0, WrittenWhole DEF write, store, TypeOK
  <2>2. ASSUME NEW q \in Procs, pc'[q] = "serving" PROVE q = p
    <3>1. CASE q # p
      <4>1. pc[q] \in HasHandle /\ pc[p] \in HasHandle
        BY <1>3, <1>0, <2>2, <3>1 DEF write, TypeOK, HasHandle
      <4> QED
        BY <4>1, <1>0, OneHandle
    <3> QED
      BY <3>1
  <2> QED
    BY <2>1, <2>2, <1>0, WrittenWhole
<1>4. ASSUME NEW p \in Procs, create_genesis_fails(p) PROVE ServesOwnGenesis'
  BY <1>4, <1>a, <1>0 DEF create_genesis_fails, TypeOK
<1>5. ASSUME NEW p \in Procs, drop(p) PROVE ServesOwnGenesis'
  BY <1>5, <1>a, <1>0 DEF drop, TypeOK
<1>6. ASSUME NEW p \in Procs, crash(p) PROVE ServesOwnGenesis'
  BY <1>6, <1>a, <1>0 DEF crash, TypeOK
<1>7. ASSUME NEW p \in Procs, restart(p) PROVE ServesOwnGenesis'
  BY <1>7, <1>a, <1>0 DEF restart, TypeOK
<1>8. CASE sync
  BY <1>8, <1>a DEF sync
<1>9. CASE power_loss
  BY <1>9 DEF power_loss
<1>10. CASE UNCHANGED vars
  BY <1>10, <1>a DEF vars
<1> QED
  BY <1>1, <1>2, <1>3, <1>4, <1>5, <1>6, <1>7, <1>8, <1>9, <1>10 DEF Next, Call

LEMMA StepNoTorn == IInv /\ [Next]_vars => NoTornGenesis'
<1> SUFFICES ASSUME IInv, [Next]_vars PROVE NoTornGenesis'
  OBVIOUS
<1>0. TypeOK /\ \A n \in 1 .. Len(versions) : Whole(versions[n])
  BY DEF IInv, NoTornGenesis, Whole
<1>s. (\A n \in 1 .. Len(versions') : Whole(versions'[n])) => NoTornGenesis'
  BY DEF NoTornGenesis, Whole
<1>a. ASSUME versions' = versions PROVE NoTornGenesis'
  BY <1>a, <1>0, <1>s
<1>1. ASSUME NEW p \in Procs, write(p) PROVE NoTornGenesis'
  <2>1. /\ Len(versions') = Len(versions) + 1
        /\ \A n \in 1 .. Len(versions) : versions'[n] = versions[n]
        /\ versions'[Len(versions) + 1] = Written(p, Ops(p))
    BY <1>1, <1>0, WrittenWhole DEF write, TypeOK
  <2>2. ASSUME NEW n \in 1 .. Len(versions') PROVE Whole(versions'[n])
    <3>1. CASE n \in 1 .. Len(versions)
      BY <3>1, <2>1, <1>0
    <3>2. CASE n = Len(versions) + 1
      BY <3>2, <2>1, <1>0, WrittenWhole
    <3> QED
      BY <3>1, <3>2, <2>1, <1>0, StoreTyped
  <2> QED
    BY <2>2, <1>s
<1>2. CASE power_loss
  <2>1. PICK m \in synced .. Len(versions) : versions' = SubSeq(versions, 1, m)
    BY <1>2 DEF power_loss
  <2>2. \A n \in 1 .. Len(versions') : versions'[n] = versions[n] /\ n \in 1 .. Len(versions)
    BY <2>1, <1>0 DEF TypeOK
  <2> QED
    BY <2>2, <1>0, <1>s
<1> QED
  BY <1>1, <1>2, <1>a
  DEF Next, Call, open, add_write_set, create_genesis_fails, drop, crash, restart, sync, vars

\* The four invariants are inductive together.
THEOREM Invariance == Spec => []IInv
<1>1. IInv /\ [Next]_vars => IInv'
  BY StepTypeOK, StepLock, StepServes, StepNoTorn DEF IInv
<1> QED
  BY <1>1, InitIInv, PTL DEF Spec

\* The state of the callers and of the store has its type.
THEOREM TypeCorrect == Spec => []TypeOK
BY Invariance, PTL DEF IInv

\* LOCK is never left behind and never held twice, on whatever path a caller
\* leaves create_genesis.
THEOREM LockNotLeaked == Spec => []LockFollowsHandle
BY Invariance, PTL DEF IInv

\* A caller with a MoveStore finds its own genesis in it.
THEOREM OwnGenesisServed == Spec => []ServesOwnGenesis
BY Invariance, PTL DEF IInv

\* No crash and no power failure leaves a part of a genesis.
THEOREM GenesisAtomic == Spec => []NoTornGenesis
BY Invariance, PTL DEF IInv
-----------------------------------------------------------------------------
(***************************************************************************)
(* RpcNode.                                                                *)
(***************************************************************************)

\* The state that the process keeps in memory, with a VM for what was posted.
MemoryTypes ==
  /\ phase \in {"main", "listening", "stopping"}
  /\ handler \in [Requests -> {"idle", "awaiting", "ok", "err", "dropped"}]
  /\ task \in [Requests -> {"none", "queued", "locking", "validating",
                            "valid", "invalid", "panicked", "refused"}]
  /\ vm \in [Requests -> VMs \cup {NoVM}]
  /\ \A r \in Requests : handler[r] # "idle" => vm[r] \in VMs
  /\ poisoned \in [VMs -> BOOLEAN]

\* Requests are taken in, and closures run, only on top of an open MoveStore.
ServingInv ==
  /\ phase # "main" => pc[Server] = "serving"
  /\ phase = "main" => \A r \in Requests : handler[r] = "idle"

\* What a verdict says of the store as it is now and of the VM, and what an
\* answer says of the verdict it was written from.
VerdictInv ==
  \A r \in Requests :
    /\ handler[r] = "idle" => task[r] = "none"
    /\ task[r] = "valid" => r \in Accepted
    /\ task[r] = "invalid" => r \notin Accepted
    /\ task[r] \in {"panicked", "refused"} => poisoned[vm[r]]
    /\ handler[r] = "ok" => task[r] = "valid"
    /\ handler[r] = "err" => task[r] \in {"invalid", "panicked", "refused"}

NodeIInv == IInv /\ MemoryTypes /\ ServingInv /\ VerdictInv

\* To the database the server is a caller like any other.
LEMMA StepOfACaller == [NodeNext]_nodeVars => [Next]_vars
<1> SUFFICES ASSUME [NodeNext]_nodeVars PROVE [Next]_vars
  OBVIOUS
<1>1. ASSUME NEW r \in Requests, Submit(r) \/ Work(r) \/ Disconnect(r) PROVE UNCHANGED vars
  BY <1>1 DEF Submit, Work, Disconnect
<1>2. ASSUME bind \/ stop \/ UNCHANGED nodeVars PROVE UNCHANGED vars
  BY <1>2 DEF bind, stop, nodeVars
<1>3. CASE exit
  BY <1>3, ServerAssumption DEF exit, Next, Call
<1>4. CASE die
  BY <1>4, ServerAssumption DEF die, Next, Call
<1>5. CASE Blackout
  BY <1>5 DEF Blackout, Next
<1>6. ASSUME NEW p \in Procs, Caller(p) PROVE Next
  BY <1>6 DEF Caller, Next
<1>7. CASE sync
  BY <1>7 DEF Next
<1> QED
  BY <1>1, <1>2, <1>3, <1>4, <1>5, <1>6, <1>7 DEF NodeNext

\* RpcNode implements Genesis: whatever the server does with its requests,
\* create_genesis and the database see one more caller of theirs, and keep
\* all their promises.
THEOREM NodeIsACaller == NodeSpec => Spec
<1>1. NodeInit => Init
  BY DEF NodeInit
<1> QED
  BY <1>1, StepOfACaller, PTL DEF NodeSpec, Spec

LEMMA InitNode == NodeInit => MemoryTypes /\ ServingInv /\ VerdictInv
BY DEF NodeInit, R!Init, MemoryTypes, ServingInv, VerdictInv

\* A process that is gone starts with an empty memory.
LEMMA Forgotten == Forget => MemoryTypes' /\ ServingInv' /\ VerdictInv'
BY DEF Forget, MemoryTypes, ServingInv, VerdictInv

\* A step that neither touches the store nor the server's callers of it.
LEMMA SameStore ==
  ASSUME UNCHANGED vars
  PROVE  Accepted' = Accepted /\ pc' = pc
BY DEF vars, Accepted, store

\* A request in main's time is posted, its closure works, its client leaves.
LEMMA StepOfARequest ==
  ASSUME NodeIInv, NEW r \in Requests, Submit(r) \/ Work(r) \/ Disconnect(r)
  PROVE  MemoryTypes' /\ ServingInv' /\ VerdictInv'
<1>0. /\ MemoryTypes /\ ServingInv /\ VerdictInv
      /\ UNCHANGED <<vars, phase>> /\ Accepted' = Accepted /\ pc' = pc
  BY SameStore DEF NodeIInv, Submit, Work, Disconnect
<1> USE DEF MemoryTypes, ServingInv, VerdictInv
<1>1. CASE Submit(r)
  BY <1>0, <1>1 DEF Submit, R!submit_txn, R!get_next_vm
<1>2. CASE Work(r)
  <2>1. PICK V \in {Accepted} : R(V)!Step(r)
    BY <1>2 DEF Work
  <2>2. task[r] # "none" => handler[r] # "idle" /\ vm[r] \in VMs
    BY <1>0
  <2>3. CASE R(V)!spawn_blocking(r)
    BY <1>0, <2>3 DEF R!spawn_blocking
  <2>4. CASE R(V)!lock(r)
    BY <1>0, <2>4 DEF R!lock
  <2>5. CASE R(V)!unwrap_poisoned(r)
    BY <1>0, <2>5 DEF R!unwrap_poisoned
  <2>6. CASE R(V)!validate_transaction(r)
    BY <1>0, <2>6 DEF R!validate_transaction, R!Finish
  <2>7. CASE R(V)!validate_panics(r)
    BY <1>0, <2>2, <2>7 DEF R!validate_panics, R!Finish
  <2>8. CASE R(V)!respond(r)
    BY <1>0, <2>8 DEF R!respond, R!Finished
  <2> QED
    BY <2>1, <2>3, <2>4, <2>5, <2>6, <2>7, <2>8 DEF R!Step
<1>3. CASE Disconnect(r)
  BY <1>0, <1>3 DEF Disconnect, R!disconnect
<1> QED
  BY <1>1, <1>2, <1>3

\* Another caller cannot write under a server, nor the server under its own
\* validations.
LEMMA StepOfCallers ==
  ASSUME NodeIInv, NEW p \in Procs, Caller(p)
  PROVE  MemoryTypes' /\ ServingInv' /\ VerdictInv'
<1>0. /\ MemoryTypes /\ ServingInv /\ VerdictInv /\ TypeOK /\ LockFollowsHandle
      /\ UNCHANGED <<phase, handler, task, vm, holder, poisoned>>
      /\ Server \in Procs
  BY ServerAssumption DEF NodeIInv, IInv, Caller, volatile
<1>1. MemoryTypes'
  BY <1>0 DEF MemoryTypes
<1>2. CASE phase = "main"
  BY <1>0, <1>1, <1>2 DEF ServingInv, VerdictInv
<1>3. CASE phase # "main"
  <2>1. pc[Server] = "serving" /\ p # Server
    BY <1>0, <1>3 DEF ServingInv, Caller
  <2>2. pc'[Server] = pc[Server]
    BY <1>0, <2>1 DEF Caller, Call, open, add_write_set, write, create_genesis_fails, drop,
                      crash, restart, TypeOK
  <2>3. ~write(p)
    BY <1>0, <2>1, OneHandle DEF write, HasHandle
  <2>4. versions' = versions
    BY <2>3 DEF Caller, Call, open, add_write_set, create_genesis_fails, drop, crash, restart
  <2>5. Accepted' = Accepted
    BY <2>4 DEF Accepted, store
  <2> QED
    BY <1>0, <1>1, <2>2, <2>5 DEF ServingInv, VerdictInv
<1> QED
  BY <1>1, <1>2, <1>3

LEMMA NodeStep == NodeIInv /\ [NodeNext]_nodeVars => NodeIInv'
<1> SUFFICES ASSUME NodeIInv, [NodeNext]_nodeVars PROVE MemoryTypes' /\ ServingInv' /\ VerdictInv'
  BY StepOfACaller, StepTypeOK, StepLock, StepServes, StepNoTorn DEF NodeIInv, IInv
<1>0. MemoryTypes /\ ServingInv /\ VerdictInv
  BY DEF NodeIInv
<1>1. ASSUME NEW r \in Requests, Submit(r) \/ Work(r) \/ Disconnect(r)
      PROVE  MemoryTypes' /\ ServingInv' /\ VerdictInv'
  BY <1>1, StepOfARequest
<1>2. CASE bind
  <2>1. /\ pc[Server] = "serving" /\ phase' = "listening" /\ Accepted' = Accepted /\ pc' = pc
        /\ UNCHANGED <<handler, task, vm, holder, poisoned>>
    BY <1>2, SameStore DEF bind, volatile
  <2> QED
    BY <1>0, <2>1 DEF MemoryTypes, ServingInv, VerdictInv
<1>3. CASE stop
  <2>1. Accepted' = Accepted /\ pc' = pc
    BY <1>3, SameStore DEF stop
  <2> QED
    BY <1>0, <1>3, <2>1 DEF stop, MemoryTypes, ServingInv, VerdictInv
<1>4. ASSUME exit \/ die \/ Blackout PROVE MemoryTypes' /\ ServingInv' /\ VerdictInv'
  BY <1>4, Forgotten DEF exit, die, Blackout
<1>5. ASSUME NEW p \in Procs, Caller(p) PROVE MemoryTypes' /\ ServingInv' /\ VerdictInv'
  BY <1>5, StepOfCallers
<1>6. CASE sync /\ UNCHANGED <<phase, volatile>>
  <2>1. /\ Accepted' = Accepted /\ pc' = pc
        /\ UNCHANGED <<phase, handler, task, vm, holder, poisoned>>
    BY <1>6 DEF sync, volatile, Accepted, store
  <2> QED
    BY <1>0, <2>1 DEF MemoryTypes, ServingInv, VerdictInv
<1>7. CASE UNCHANGED nodeVars
  <2>1. /\ Accepted' = Accepted /\ pc' = pc
        /\ UNCHANGED <<phase, handler, task, vm, holder, poisoned>>
    BY <1>7, SameStore DEF nodeVars, volatile
  <2> QED
    BY <1>0, <2>1 DEF MemoryTypes, ServingInv, VerdictInv
<1> QED
  BY <1>1, <1>2, <1>3, <1>4, <1>5, <1>6, <1>7 DEF NodeNext

\* The invariants of the process and of the database are inductive together.
THEOREM NodeInvariance == NodeSpec => []NodeIInv
<1>1. NodeInit => NodeIInv
  BY InitIInv, InitNode DEF NodeInit, NodeIInv
<1> QED
  BY <1>1, NodeStep, PTL DEF NodeSpec

\* No validation outlives its process's hold of the database.
THEOREM LockOutlivesValidations == NodeSpec => []ValidatesUnderLock
<1>1. NodeIInv => ValidatesUnderLock
  <2> SUFFICES ASSUME NodeIInv, NEW r \in Running PROVE lock = Server
    BY DEF ValidatesUnderLock
  <2>1. r \in Requests /\ task[r] \in {"locking", "validating"}
    BY DEF Running, R!OnThread
  <2>2. phase # "main"
    BY <2>1 DEF NodeIInv, ServingInv, VerdictInv
  <2> QED
    BY <2>2, ServerAssumption DEF NodeIInv, ServingInv, IInv, LockFollowsHandle, HasHandle
<1> QED
  BY <1>1, NodeInvariance, PTL

\* What a server has answered is what its store says now.
THEOREM AnswersStay == NodeSpec => []AnswersHold
<1>1. NodeIInv => AnswersHold
  <2> SUFFICES ASSUME NodeIInv, NEW V, V = Accepted PROVE R(V)!AnswersJustified
    BY DEF AnswersHold
  <2> QED
    BY DEF NodeIInv, MemoryTypes, VerdictInv, R!AnswersJustified
<1> QED
  BY <1>1, NodeInvariance, PTL

\* The invariants of create_genesis hold in a node that serves and restarts.
THEOREM NodeKeepsGenesis ==
  NodeSpec => [](TypeOK /\ LockFollowsHandle /\ ServesOwnGenesis /\ NoTornGenesis)
BY NodeInvariance, PTL DEF NodeIInv, IInv
=============================================================================
