----------------------------- MODULE RpcServer -----------------------------
(***************************************************************************)
(* The submit endpoint of rpc_server while main is serving: handlers on    *)
(* the web workers (src/lib.rs), validation tasks on tokio's blocking      *)
(* pool, and the pool of AptosVMs behind std mutexes (src/state.rs).       *)
(*                                                                         *)
(* A handler picks a VM at random and moves the validation to a blocking   *)
(* thread; the task locks that VM's mutex with lock().unwrap(), validates  *)
(* under the lock and returns its verdict to the awaiting handler.  A      *)
(* panic under the lock poisons the mutex: every later unwrap of it        *)
(* panics as well.  The store is read-only while serving (executing the    *)
(* transaction is commented out), so whether a transaction passes is a     *)
(* function of the request: the constant Valid.                            *)
(***************************************************************************)
EXTENDS Integers, FiniteSets

CONSTANTS Requests,     \* the submissions the server may receive
          VMs,          \* the indices of RpcState.vms
          MaxBlocking,  \* the number of threads of the blocking pool
          Valid,        \* the requests whose transaction the store accepts
          NoVM,         \* a request that has picked no VM yet
          NoRequest     \* a mutex that nobody holds

ASSUME PoolAssumption == VMs # {} /\ NoVM \notin VMs /\ MaxBlocking \in Nat \ {0}
ASSUME RequestAssumption == Valid \subseteq Requests /\ NoRequest \notin Requests

VARIABLES handler,   \* handler[r]: the future of submit_txn
          task,      \* task[r]: the closure given to spawn_blocking
          vm,        \* vm[r]: the VM that get_next_vm returned
          holder,    \* holder[v]: the request whose task holds v's mutex
          poisoned   \* poisoned[v]: v's mutex was poisoned by a panic

vars == <<handler, task, vm, holder, poisoned>>

Finished == {"valid", "invalid", "panicked", "refused"}

Init ==
  /\ handler = [r \in Requests |-> "idle"]
  /\ task = [r \in Requests |-> "none"]
  /\ vm = [r \in Requests |-> NoVM]
  /\ holder = [v \in VMs |-> NoRequest]
  /\ poisoned = [v \in VMs |-> FALSE]

\* The requests whose closure occupies a thread of the blocking pool.
OnThread == {r \in Requests : task[r] \in {"locking", "validating"}}

\* RpcState::get_next_vm: an index drawn at random, busy and poisoned VMs
\* included.
get_next_vm(r) == \E v \in VMs : vm' = [vm EXCEPT ![r] = v]

\* The mutex of vm[r] is released and task r ends with a verdict.
Finish(r, verdict) ==
  /\ task' = [task EXCEPT ![r] = verdict]
  /\ holder' = [holder EXCEPT ![vm[r]] = NoRequest]
  /\ UNCHANGED <<handler, vm>>
-----------------------------------------------------------------------------
(***************************************************************************)
(* Mutated forms of the actions below, one per plausible slip in the code. *)
(***************************************************************************)
\* gen_range(0, len + 1): an index with no VM behind it.
SubmitPastTheEnd(r) ==
  /\ handler[r] = "idle"
  /\ handler' = [handler EXCEPT ![r] = "awaiting"]
  /\ task' = [task EXCEPT ![r] = "queued"]
  /\ \E v \in VMs \cup {NoVM} : vm' = [vm EXCEPT ![r] = v]
  /\ UNCHANGED <<holder, poisoned>>

\* The same VM is handed out a second time, unlocked.
LockWithoutWaiting(r) ==
  /\ task[r] = "locking"
  /\ ~poisoned[vm[r]]
  /\ task' = [task EXCEPT ![r] = "validating"]
  /\ holder' = [holder EXCEPT ![vm[r]] = r]
  /\ UNCHANGED <<handler, vm, poisoned>>

\* The poison flag is ignored: into_inner() in place of unwrap().
LockIgnoringPoison(r) ==
  /\ task[r] = "locking"
  /\ holder[vm[r]] = NoRequest
  /\ task' = [task EXCEPT ![r] = "validating"]
  /\ holder' = [holder EXCEPT ![vm[r]] = r]
  /\ UNCHANGED <<handler, vm, poisoned>>

\* The guard is forgotten, so the mutex is never released.
ValidateAndLeak(r) ==
  /\ task[r] = "validating"
  /\ task' = [task EXCEPT ![r] = IF r \in Valid THEN "valid" ELSE "invalid"]
  /\ UNCHANGED <<handler, vm, holder, poisoned>>

\* A VM status is taken for success, whatever it says.
RespondOk(r) ==
  /\ handler[r] = "awaiting"
  /\ task[r] \in Finished
  /\ handler' = [handler EXCEPT ![r] = IF task[r] = "refused" THEN "err" ELSE "ok"]
  /\ UNCHANGED <<task, vm, holder, poisoned>>

\* A panic drops the task without a result for the handler to wake up on.
PanicSilently(r) ==
  /\ task[r] = "validating"
  /\ task' = [task EXCEPT ![r] = "none"]
  /\ holder' = [holder EXCEPT ![vm[r]] = NoRequest]
  /\ poisoned' = [poisoned EXCEPT ![vm[r]] = TRUE]
  /\ UNCHANGED <<handler, vm>>

\* Dropping the handler's future aborts the task in place.
DisconnectAborts(r) ==
  /\ handler[r] = "awaiting"
  /\ handler' = [handler EXCEPT ![r] = "dropped"]
  /\ task' = [task EXCEPT ![r] = IF task[r] = "queued" THEN "none" ELSE @]
  /\ UNCHANGED <<vm, holder, poisoned>>
-----------------------------------------------------------------------------
\* A client posts a transaction: the handler picks a VM with get_next_vm,
\* queues the closure on the blocking pool and suspends at the await.
submit_txn(r) ==
  /\ handler[r] = "idle"
  /\ handler' = [handler EXCEPT ![r] = "awaiting"]
  /\ task' = [task EXCEPT ![r] = "queued"]
  /\ get_next_vm(r)
  /\ UNCHANGED <<holder, poisoned>>

\* A thread of the blocking pool takes the closure, which starts at lock().
spawn_blocking(r) ==
  /\ task[r] = "queued"
  /\ Cardinality(OnThread) < MaxBlocking
  /\ task' = [task EXCEPT ![r] = "locking"]
  /\ UNCHANGED <<handler, vm, holder, poisoned>>

lock(r) ==
  /\ task[r] = "locking"
  /\ holder[vm[r]] = NoRequest
  /\ ~poisoned[vm[r]]
  /\ task' = [task EXCEPT ![r] = "validating"]
  /\ holder' = [holder EXCEPT ![vm[r]] = r]
  /\ UNCHANGED <<handler, vm, poisoned>>

\* lock() returns Err(PoisonError) and unwrap() panics.
unwrap_poisoned(r) ==
  /\ task[r] = "locking"
  /\ holder[vm[r]] = NoRequest
  /\ poisoned[vm[r]]
  /\ task' = [task EXCEPT ![r] = "refused"]
  /\ UNCHANGED <<handler, vm, holder, poisoned>>

\* The guard lives to the end of the statement, the mapping of the status
\* included, and is dropped with it.
validate_transaction(r) ==
  /\ task[r] = "validating"
  /\ Finish(r, IF r \in Valid THEN "valid" ELSE "invalid")
  /\ UNCHANGED poisoned

\* The VM panics under the lock: unwinding drops the guard and poisons it.
validate_panics(r) ==
  /\ task[r] = "validating"
  /\ Finish(r, "panicked")
  /\ poisoned' = [poisoned EXCEPT ![vm[r]] = TRUE]

\* The join handle resolves: a verdict other than success, or a JoinError,
\* becomes a 500; success becomes a 200 with the transaction's hash.
respond(r) ==
  /\ handler[r] = "awaiting"
  /\ task[r] \in Finished
  /\ handler' = [handler EXCEPT ![r] = IF task[r] = "valid" THEN "ok" ELSE "err"]
  /\ UNCHANGED <<task, vm, holder, poisoned>>

\* The connection closes and the server drops the handler's future at the
\* await.  Dropping a join handle detaches its task, which goes on.
disconnect(r) ==
  /\ handler[r] = "awaiting"
  /\ handler' = [handler EXCEPT ![r] = "dropped"]
  /\ UNCHANGED <<task, vm, holder, poisoned>>

Step(r) ==
  \/ spawn_blocking(r)
  \/ lock(r)
  \/ unwrap_poisoned(r)
  \/ validate_transaction(r)
  \/ validate_panics(r)
  \/ respond(r)

Next == \E r \in Requests : submit_txn(r) \/ Step(r) \/ disconnect(r)

\* Threads that can run do run, and a validation terminates.  Requests is
\* finite and each is posted once, so weak fairness is enough: neither the
\* pool's queue nor a mutex can be contended forever.
Fairness == \A r \in Requests : WF_vars(Step(r))

Spec == Init /\ [][Next]_vars /\ Fairness
-----------------------------------------------------------------------------
\* The variables range over the states the code can name, and a request that
\* was posted has an index into RpcState.vms that is in range.
TypeOK ==
  /\ handler \in [Requests -> {"idle", "awaiting", "ok", "err", "dropped"}]
  /\ task \in [Requests -> {"none", "queued", "locking", "validating"} \cup Finished]
  /\ vm \in [Requests -> VMs \cup {NoVM}]
  /\ \A r \in Requests : handler[r] # "idle" => vm[r] \in VMs
  /\ holder \in [VMs -> Requests \cup {NoRequest}]
  /\ poisoned \in [VMs -> BOOLEAN]

\* At most one task validates on a VM at any time, and a mutex is held by a
\* validating task or by nobody: no panic, refusal or disconnection leaks it.
VmExclusive ==
  /\ \A r, q \in Requests :
       task[r] = "validating" /\ task[q] = "validating" /\ vm[r] = vm[q] => r = q
  /\ \A v \in VMs : holder[v] # NoRequest =>
       task[holder[v]] = "validating" /\ vm[holder[v]] = v

\* When every thread of the blocking pool is taken, some task on it can move:
\* tasks waiting for mutexes never use up the threads the holders need.
NoStuckPool ==
  OnThread # {} =>
    \E r \in OnThread : task[r] = "validating" \/ holder[vm[r]] = NoRequest

\* Each VM lost to poisoning is lost to exactly one panicking validation, so
\* k panics never cost more than k VMs.
OnePanicPerVm ==
  \A v \in VMs :
    /\ poisoned[v] <=> \E r \in Requests : task[r] = "panicked" /\ vm[r] = v
    /\ \A r, q \in Requests :
         task[r] = "panicked" /\ task[q] = "panicked" /\ vm[r] = v /\ vm[q] = v => r = q

\* A 200 is written only for a transaction the store accepts, and an
\* acceptable transaction gets a 500 only because its VM was poisoned.
AnswersJustified ==
  \A r \in Requests :
    /\ handler[r] = "ok" => r \in Valid
    /\ handler[r] = "err" /\ r \in Valid => vm[r] \in VMs /\ poisoned[vm[r]]

\* The mutexes, threads and futures implement the atomic service.
Service == INSTANCE ValidationService WITH
  reply <- handler,
  verdict <- [r \in Requests |-> IF task[r] \in Finished THEN task[r] ELSE "none"],
  route <- vm,
  alive <- {v \in VMs : ~poisoned[v]}

ImplementsService == Service!Spec

\* Every client that stays connected is answered, whatever panics or leaves.
EveryRequestAnswered ==
  \A r \in Requests : handler[r] = "awaiting" ~> handler[r] \in {"ok", "err", "dropped"}

\* The work of a client that went away is still finished, and its thread and
\* its VM are given back.
DetachedTasksFinish ==
  \A r \in Requests : task[r] = "queued" ~> task[r] \in Finished
=============================================================================
