-------------------------- MODULE RpcServer_proofs --------------------------
(***************************************************************************)
(* RpcServer's safety properties, and its implementation of the atomic     *)
(* validation service, for any number of requests, VMs and threads.        *)
(***************************************************************************)
EXTENDS RpcServer, TLAPS

\* A task that validates holds the mutex of its VM, which is not poisoned,
\* and a mutex is held by nobody else.
LockInv ==
  /\ \A r \in Requests : task[r] = "validating" =>
       holder[vm[r]] = r /\ ~poisoned[vm[r]]
  /\ \A v \in VMs : holder[v] # NoRequest =>
       task[holder[v]] = "validating" /\ vm[holder[v]] = v

\* What a verdict says of the request and of its VM, and what an answer says
\* of the verdict it was written from.
VerdictInv ==
  \A r \in Requests :
    /\ handler[r] = "idle" <=> task[r] = "none"
    /\ task[r] = "valid" => r \in Valid
    /\ task[r] = "invalid" => r \notin Valid
    /\ task[r] \in {"panicked", "refused"} => poisoned[vm[r]]
    /\ handler[r] = "ok" => task[r] = "valid"
    /\ handler[r] = "err" => task[r] \in {"invalid", "panicked", "refused"}

IInv == TypeOK /\ LockInv /\ VerdictInv /\ OnePanicPerVm

LEMMA InitIInv == Init => IInv
<1> SUFFICES ASSUME Init PROVE IInv
  OBVIOUS
<1>1. TypeOK
  BY DEF Init, TypeOK, Finished
<1>2. LockInv
  BY RequestAssumption DEF Init, LockInv
<1>3. VerdictInv
  BY DEF Init, VerdictInv
<1>4. OnePanicPerVm
  BY DEF Init, OnePanicPerVm
<1> QED
  BY <1>1, <1>2, <1>3, <1>4 DEF IInv

LEMMA StepTypeOK == TypeOK /\ [Next]_vars => TypeOK'
<1> SUFFICES ASSUME TypeOK, [Next]_vars PROVE TypeOK'
  OBVIOUS
<1> USE DEF TypeOK, Finished
<1>1. ASSUME NEW r \in Requests, submit_txn(r) PROVE TypeOK'
  BY <1>1 DEF submit_txn, get_next_vm
<1>2. ASSUME NEW r \in Requests, spawn_blocking(r) PROVE TypeOK'
  BY <1>2 DEF spawn_blocking
<1>3. ASSUME NEW r \in Requests, lock(r) PROVE TypeOK'
  BY <1>3 DEF lock
<1>4. ASSUME NEW r \in Requests, unwrap_poisoned(r) PROVE TypeOK'
  BY <1>4 DEF unwrap_poisoned
<1>5. ASSUME NEW r \in Requests, validate_transaction(r) PROVE TypeOK'
  BY <1>5 DEF validate_transaction, Finish
<1>6. ASSUME NEW r \in Requests, validate_panics(r) PROVE TypeOK'
  BY <1>6 DEF validate_panics, Finish
<1>7. ASSUME NEW r \in Requests, respond(r) PROVE TypeOK'
  BY <1>7 DEF respond
<1>8. ASSUME NEW r \in Requests, disconnect(r) PROVE TypeOK'
  BY <1>8 DEF disconnect
<1>9. CASE UNCHANGED vars
  BY <1>9 DEF vars
<1> QED
  BY <1>1, <1>2, <1>3, <1>4, <1>5, <1>6, <1>7, <1>8, <1>9 DEF Next, Step

\* A posted request is on a VM of the pool, so the functions on VMs that its
\* steps update are updated inside their domain.
LEMMA PostedOnVm ==
  ASSUME TypeOK, VerdictInv, NEW r \in Requests, task[r] # "none"
  PROVE  vm[r] \in VMs
BY DEF TypeOK, VerdictInv

LEMMA StepLockInv == IInv /\ [Next]_vars => LockInv'
<1> SUFFICES ASSUME IInv, [Next]_vars PROVE LockInv'
  OBVIOUS
<1> USE RequestAssumption DEF TypeOK, LockInv
<1>0. \A r \in Requests : task[r] # "none" => vm[r] \in VMs
  BY PostedOnVm DEF IInv
<1>a. TypeOK /\ LockInv /\ VerdictInv
  BY DEF IInv
<1>1. ASSUME NEW r \in Requests, submit_txn(r) PROVE LockInv'
  <2>1. task[r] = "none"
    BY <1>1, <1>a DEF submit_txn, get_next_vm, VerdictInv
  <2> QED
    BY <1>1, <1>0, <1>a, <2>1 DEF submit_txn, get_next_vm
<1>2. ASSUME NEW r \in Requests, spawn_blocking(r) PROVE LockInv'
  BY <1>2, <1>a DEF spawn_blocking
<1>3. ASSUME NEW r \in Requests, lock(r) PROVE LockInv'
  BY <1>3, <1>0, <1>a DEF lock
<1>4. ASSUME NEW r \in Requests, unwrap_poisoned(r) PROVE LockInv'
  BY <1>4, <1>a DEF unwrap_poisoned
<1>5. ASSUME NEW r \in Requests, validate_transaction(r) PROVE LockInv'
  BY <1>5, <1>0, <1>a DEF validate_transaction, Finish
<1>6. ASSUME NEW r \in Requests, validate_panics(r) PROVE LockInv'
  BY <1>6, <1>0, <1>a DEF validate_panics, Finish
<1>7. ASSUME NEW r \in Requests, respond(r) PROVE LockInv'
  BY <1>7, <1>a DEF respond
<1>8. ASSUME NEW r \in Requests, disconnect(r) PROVE LockInv'
  BY <1>8, <1>a DEF disconnect
<1>9. CASE UNCHANGED vars
  BY <1>9, <1>a DEF vars
<1> QED
  BY <1>1, <1>2, <1>3, <1>4, <1>5, <1>6, <1>7, <1>8, <1>9 DEF Next, Step

LEMMA StepVerdictInv == IInv /\ [Next]_vars => VerdictInv'
<1> SUFFICES ASSUME IInv, [Next]_vars PROVE VerdictInv'
  OBVIOUS
<1> USE DEF TypeOK, VerdictInv
<1>0. \A r \in Requests : task[r] # "none" => vm[r] \in VMs
  BY PostedOnVm DEF IInv
<1>a. TypeOK /\ VerdictInv
  BY DEF IInv
<1>1. ASSUME NEW r \in Requests, submit_txn(r) PROVE VerdictInv'
  BY <1>1, <1>a DEF submit_txn, get_next_vm
<1>2. ASSUME NEW r \in Requests, spawn_blocking(r) PROVE VerdictInv'
  BY <1>2, <1>a DEF spawn_blocking
<1>3. ASSUME NEW r \in Requests, lock(r) PROVE VerdictInv'
  BY <1>3, <1>a DEF lock
<1>4. ASSUME NEW r \in Requests, unwrap_poisoned(r) PROVE VerdictInv'
  BY <1>4, <1>a DEF unwrap_poisoned
<1>5. ASSUME NEW r \in Requests, validate_transaction(r) PROVE VerdictInv'
  BY <1>5, <1>a DEF validate_transaction, Finish
<1>6. ASSUME NEW r \in Requests, validate_panics(r) PROVE VerdictInv'
  BY <1>6, <1>0, <1>a DEF validate_panics, Finish
<1>7. ASSUME NEW r \in Requests, respond(r) PROVE VerdictInv'
  BY <1>7, <1>a DEF respond, Finished
<1>8. ASSUME NEW r \in Requests, disconnect(r) PROVE VerdictInv'
  BY <1>8, <1>a DEF disconnect
<1>9. CASE UNCHANGED vars
  BY <1>9, <1>a DEF vars
<1> QED
  BY <1>1, <1>2, <1>3, <1>4, <1>5, <1>6, <1>7, <1>8, <1>9 DEF Next, Step

LEMMA StepOnePanicPerVm == IInv /\ [Next]_vars => OnePanicPerVm'
<1> SUFFICES ASSUME IInv, [Next]_vars PROVE OnePanicPerVm'
  OBVIOUS
<1> USE DEF OnePanicPerVm, TypeOK
<1>0. \A r \in Requests : task[r] # "none" => vm[r] \in VMs
  BY PostedOnVm DEF IInv
<1>a. TypeOK /\ OnePanicPerVm
  BY DEF IInv
<1>1. ASSUME NEW r \in Requests, submit_txn(r) PROVE OnePanicPerVm'
  <2>1. task[r] = "none"
    BY <1>1 DEF submit_txn, get_next_vm, IInv, VerdictInv
  <2> QED
    BY <1>1, <1>a, <2>1 DEF submit_txn, get_next_vm
<1>2. ASSUME NEW r \in Requests, spawn_blocking(r) PROVE OnePanicPerVm'
  BY <1>2, <1>a DEF spawn_blocking
<1>3. ASSUME NEW r \in Requests, lock(r) PROVE OnePanicPerVm'
  BY <1>3, <1>a DEF lock
<1>4. ASSUME NEW r \in Requests, unwrap_poisoned(r) PROVE OnePanicPerVm'
  BY <1>4, <1>a DEF unwrap_poisoned
<1>5. ASSUME NEW r \in Requests, validate_transaction(r) PROVE OnePanicPerVm'
  BY <1>5, <1>a DEF validate_transaction, Finish
<1>6. ASSUME NEW r \in Requests, validate_panics(r) PROVE OnePanicPerVm'
  \* The mutex r holds was not poisoned, so nobody had panicked on it.
  <2>1. vm[r] \in VMs /\ ~poisoned[vm[r]]
    BY <1>6, <1>0 DEF validate_panics, IInv, LockInv
  <2>2. \A q \in Requests : ~(task[q] = "panicked" /\ vm[q] = vm[r])
    BY <2>1, <1>a
  <2>3. /\ task' = [task EXCEPT ![r] = "panicked"]
        /\ poisoned' = [poisoned EXCEPT ![vm[r]] = TRUE]
        /\ vm' = vm
    BY <1>6 DEF validate_panics, Finish
  <2>4. ASSUME NEW v \in VMs
        PROVE  poisoned'[v] <=> \E q \in Requests : task'[q] = "panicked" /\ vm'[q] = v
    <3>1. CASE v = vm[r]
      BY <3>1, <2>1, <2>3, <1>a
    <3>2. CASE v # vm[r]
      BY <3>2, <2>1, <2>3, <1>a
    <3> QED
      BY <3>1, <3>2
  <2>5. ASSUME NEW v \in VMs, NEW p \in Requests, NEW q \in Requests,
               task'[p] = "panicked", task'[q] = "panicked", vm'[p] = v, vm'[q] = v
        PROVE  p = q
    BY <2>2, <2>3, <2>5, <1>a
  <2> QED
    BY <2>4, <2>5
<1>7. ASSUME NEW r \in Requests, respond(r) PROVE OnePanicPerVm'
  BY <1>7, <1>a DEF respond
<1>8. ASSUME NEW r \in Requests, disconnect(r) PROVE OnePanicPerVm'
  BY <1>8, <1>a DEF disconnect
<1>9. CASE UNCHANGED vars
  BY <1>9, <1>a DEF vars
<1> QED
  BY <1>1, <1>2, <1>3, <1>4, <1>5, <1>6, <1>7, <1>8, <1>9 DEF Next, Step

\* IInv holds in every reachable state of the server.
THEOREM Invariance == Spec => []IInv
<1>1. IInv /\ [Next]_vars => IInv'
  BY StepTypeOK, StepLockInv, StepVerdictInv, StepOnePanicPerVm DEF IInv
<1> QED
  BY <1>1, InitIInv, PTL DEF Spec

\* The state of the server has its type, and posted requests a VM in range.
THEOREM TypeCorrect == Spec => []TypeOK
BY Invariance, PTL DEF IInv

\* A VM never validates two transactions at a time and no mutex is leaked.
THEOREM MutualExclusion == Spec => []VmExclusive
<1>1. IInv => VmExclusive
  BY DEF IInv, LockInv, VmExclusive
<1> QED
  BY <1>1, Invariance, PTL

\* The blocking pool never fills up with tasks that wait for each other.
THEOREM PoolProgress == Spec => []NoStuckPool
<1>1. IInv => NoStuckPool
  <2> SUFFICES ASSUME IInv, NEW r \in OnThread
               PROVE  \E q \in OnThread : task[q] = "validating" \/ holder[vm[q]] = NoRequest
    BY DEF NoStuckPool
  <2>1. r \in Requests /\ vm[r] \in VMs
    BY PostedOnVm DEF IInv, OnThread
  <2>2. CASE holder[vm[r]] = NoRequest
    BY <2>2
  <2>3. CASE holder[vm[r]] # NoRequest
    \* The holder validates, hence is itself on a thread.
    <3>1. holder[vm[r]] \in Requests
      BY <2>1, <2>3 DEF IInv, TypeOK
    <3>2. task[holder[vm[r]]] = "validating"
      BY <2>1, <2>3 DEF IInv, LockInv
    <3> QED
      BY <3>1, <3>2 DEF OnThread
  <2> QED
    BY <2>2, <2>3
<1> QED
  BY <1>1, Invariance, PTL

\* Poisoned VMs and panicking validations are in one-to-one correspondence.
THEOREM PanicsCounted == Spec => []OnePanicPerVm
BY Invariance, PTL DEF IInv

\* No 200 without a valid transaction, no 500 for one but from a lost VM.
THEOREM AnswersCorrect == Spec => []AnswersJustified
<1>1. IInv => AnswersJustified
  BY PostedOnVm DEF IInv, VerdictInv, AnswersJustified
<1> QED
  BY <1>1, Invariance, PTL
-----------------------------------------------------------------------------
(***************************************************************************)
(* The refinement.  Judging is where a validation releases the mutex; the  *)
(* scheduling of the closure and the acquisition of the lock are stutters. *)
(***************************************************************************)
Verdict == [r \in Requests |-> IF task[r] \in Finished THEN task[r] ELSE "none"]
Alive == {v \in VMs : ~poisoned[v]}

LEMMA InitService == Init => Service!Init
BY DEF Init, Service!Init, Finished

\* A step that ends task r with a verdict changes the abstract verdict of r,
\* which was "none", and of no other request.
LEMMA VerdictStep ==
  ASSUME TypeOK, NEW r \in Requests, NEW result \in Finished,
         task' = [task EXCEPT ![r] = result]
  PROVE  Verdict' = [Verdict EXCEPT ![r] = result]
BY DEF TypeOK, Verdict

\* A step that moves task r between unfinished states does not change it.
LEMMA VerdictStutter ==
  ASSUME TypeOK, NEW r \in Requests, NEW s \in {"none", "queued", "locking", "validating"},
         task[r] \notin Finished, task' = [task EXCEPT ![r] = s]
  PROVE  Verdict' = Verdict
BY DEF TypeOK, Verdict, Finished

LEMMA StepService == IInv /\ [Next]_vars => [Service!Next]_(Service!vars)
<1> SUFFICES ASSUME IInv, [Next]_vars PROVE [Service!Next]_(Service!vars)
  OBVIOUS
<1>0. TypeOK /\ LockInv /\ VerdictInv
  BY DEF IInv
<1>1. ASSUME NEW r \in Requests, submit_txn(r) PROVE Service!Receive(r)
  <2>1. task[r] \notin Finished /\ task' = [task EXCEPT ![r] = "queued"]
    BY <1>1, <1>0 DEF submit_txn, get_next_vm, VerdictInv, Finished
  <2>2. Verdict' = Verdict
    BY <2>1, <1>0, VerdictStutter
  <2> QED
    BY <1>1, <2>2 DEF submit_txn, get_next_vm, Service!Receive, Verdict, Alive
<1>2. ASSUME NEW r \in Requests, spawn_blocking(r) PROVE UNCHANGED Service!vars
  <2>1. task[r] \notin Finished /\ task' = [task EXCEPT ![r] = "locking"]
    BY <1>2 DEF spawn_blocking, Finished
  <2>2. Verdict' = Verdict
    BY <2>1, <1>0, VerdictStutter
  <2> QED
    BY <1>2, <2>2 DEF spawn_blocking, Service!vars, Verdict, Alive
<1>3. ASSUME NEW r \in Requests, lock(r) PROVE UNCHANGED Service!vars
  <2>1. task[r] \notin Finished /\ task' = [task EXCEPT ![r] = "validating"]
    BY <1>3 DEF lock, Finished
  <2>2. Verdict' = Verdict
    BY <2>1, <1>0, VerdictStutter
  <2> QED
    BY <1>3, <2>2 DEF lock, Service!vars, Verdict, Alive
<1>4. ASSUME NEW r \in Requests, unwrap_poisoned(r) PROVE Service!Refuse(r)
  <2>1. Verdict' = [Verdict EXCEPT ![r] = "refused"] /\ Verdict[r] = "none"
    BY <1>4, <1>0, VerdictStep DEF unwrap_poisoned, Finished, Verdict
  <2>2. handler[r] # "idle" /\ vm[r] \notin Alive
    BY <1>4, <1>0 DEF unwrap_poisoned, Alive, VerdictInv
  <2> QED
    BY <1>4, <2>1, <2>2 DEF unwrap_poisoned, Service!Refuse, Service!Pending, Verdict, Alive
<1>5. ASSUME NEW r \in Requests, validate_transaction(r) PROVE Service!Judge(r)
  <2> DEFINE result == IF r \in Valid THEN "valid" ELSE "invalid"
  <2>1. Verdict' = [Verdict EXCEPT ![r] = result] /\ Verdict[r] = "none"
    BY <1>5, <1>0, VerdictStep DEF validate_transaction, Finish, Finished, Verdict
  <2>2. handler[r] # "idle" /\ vm[r] \in Alive
    BY <1>5, <1>0, PostedOnVm DEF validate_transaction, Alive, VerdictInv, LockInv
  <2> QED
    BY <1>5, <2>1, <2>2
    DEF validate_transaction, Finish, Service!Judge, Service!Pending, Verdict, Alive
<1>6. ASSUME NEW r \in Requests, validate_panics(r) PROVE Service!Crash(r)
  <2>1. Verdict' = [Verdict EXCEPT ![r] = "panicked"] /\ Verdict[r] = "none"
    BY <1>6, <1>0, VerdictStep DEF validate_panics, Finish, Finished, Verdict
  <2>2. handler[r] # "idle" /\ vm[r] \in Alive
    BY <1>6, <1>0, PostedOnVm DEF validate_panics, Alive, VerdictInv, LockInv
  <2>3. Alive' = Alive \ {vm[r]}
    BY <1>6, <1>0 DEF validate_panics, Alive, TypeOK
  <2> QED
    BY <1>6, <2>1, <2>2, <2>3
    DEF validate_panics, Finish, Service!Crash, Service!Pending, Verdict, Alive
<1>7. ASSUME NEW r \in Requests, respond(r) PROVE Service!Answer(r)
  BY <1>7, <1>0 DEF respond, Service!Answer, Finished, TypeOK
<1>8. ASSUME NEW r \in Requests, disconnect(r) PROVE Service!Leave(r)
  BY <1>8 DEF disconnect, Service!Leave
<1>9. CASE UNCHANGED vars
  BY <1>9 DEF vars, Service!vars
<1> QED
  BY <1>1, <1>2, <1>3, <1>4, <1>5, <1>6, <1>7, <1>8, <1>9 DEF Next, Step, Service!Next

\* The pool of mutex-protected VMs implements the atomic validation service.
THEOREM Refinement == Spec => ImplementsService
BY InitService, StepService, Invariance, PTL DEF Spec, ImplementsService, Service!Spec
=============================================================================
