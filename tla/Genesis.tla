------------------------------ MODULE Genesis ------------------------------
(***************************************************************************)
(* create_genesis (rpc_server/src/genesis.rs) and the store it leaves      *)
(* behind (move_store.rs), for all the programs and tests that call it:    *)
(* each opens the one RocksDB directory ./move_store.db, builds the        *)
(* genesis write set into a WriteBatch and writes the batch.               *)
(*                                                                         *)
(* RocksDB is external and taken at its word: one handle at a time holds   *)
(* LOCK, a batch is atomic, a write without sync survives the end of the   *)
(* process but not a power failure, and recovery restores a prefix of the  *)
(* batches.  So the store is the sequence of its versions, of which the    *)
(* first `synced` are safe.                                                *)
(***************************************************************************)
EXTENDS Naturals, Sequences

CONSTANTS Procs,     \* the callers of create_genesis: servers, tests, benches
          Keys,      \* the state keys of cf_move_state
          WriteSet,  \* WriteSet[p]: what generate_genesis yields for p's accounts
          ChainKey,  \* the key of the ChainIdResource
          Deleted,   \* a write op without a state value; the value of no key
          NoProc,    \* LOCK is free
          MaxRuns    \* bound: how often each caller is started

Ops(p) == DOMAIN WriteSet[p]

ASSUME WriteSetAssumption ==
  \A p \in Procs : /\ Ops(p) \subseteq Keys
                   /\ ChainKey \in Ops(p)
                   /\ WriteSet[p][ChainKey] # Deleted
ASSUME LockAssumption == NoProc \notin Procs /\ MaxRuns \in Nat

VARIABLES pc,        \* pc[p]: how far p has come
          runs,      \* runs[p]: how often p was started
          lock,      \* the caller whose handle holds LOCK
          versions,  \* the store after each batch, the current one last
          synced     \* the versions up to this one survive a power failure

vars == <<pc, runs, lock, versions, synced>>

Values == {Deleted} \cup UNION {{WriteSet[p][k] : k \in Ops(p)} : p \in Procs}
Empty == [k \in Keys |-> Deleted]
store == versions[Len(versions)]

\* The callers that hold a MoveStore.
HasHandle == {"opened", "batched", "serving"}

\* The store after the writes of p's batch to the keys in ks.
Written(p, ks) == [k \in Keys |-> IF k \in ks THEN WriteSet[p][k] ELSE store[k]]

\* What the endpoint chain_id finds: Deleted is "Missing chain resource."
chain_id(version) == version[ChainKey]

Init ==
  /\ pc = [p \in Procs |-> "idle"]
  /\ runs = [p \in Procs |-> 0]
  /\ lock = NoProc
  /\ versions = <<Empty>>
  /\ synced = 1
-----------------------------------------------------------------------------
(***************************************************************************)
(* Mutated forms of the actions below.                                     *)
(***************************************************************************)
\* Opening pays no attention to LOCK.
OpenUnlocked(p) ==
  /\ pc[p] = "idle"
  /\ runs[p] < MaxRuns
  /\ runs' = [runs EXCEPT ![p] = @ + 1]
  /\ pc' = [pc EXCEPT ![p] = "opened"]
  /\ lock' = p
  /\ UNCHANGED <<versions, synced>>

\* The write ops go to the database one by one, without a batch.
WriteOneByOne(p) ==
  /\ pc[p] = "batched"
  /\ \E k \in Ops(p) :
       versions' = versions \o <<Written(p, Ops(p) \ {k}), Written(p, Ops(p))>>
  /\ pc' = [pc EXCEPT ![p] = "serving"]
  /\ UNCHANGED <<runs, lock, synced>>

\* The handle is leaked on the error path.
FailLeakingHandle(p) ==
  /\ pc[p] \in {"opened", "batched"}
  /\ pc' = [pc EXCEPT ![p] = "failed"]
  /\ UNCHANGED <<runs, lock, versions, synced>>

\* What is written takes the place of the store instead of overlaying it.
WriteReplacing(p) ==
  /\ pc[p] = "batched"
  /\ versions' = Append(versions, WriteSet[p])
  /\ pc' = [pc EXCEPT ![p] = "serving"]
  /\ UNCHANGED <<runs, lock, synced>>
-----------------------------------------------------------------------------
\* MoveStore::new: creates what is missing, and fails when LOCK is taken, be
\* it by another process or by another thread of the same one.
open(p) ==
  /\ pc[p] = "idle"
  /\ runs[p] < MaxRuns
  /\ runs' = [runs EXCEPT ![p] = @ + 1]
  /\ IF lock = NoProc
     THEN lock' = p /\ pc' = [pc EXCEPT ![p] = "opened"]
     ELSE lock' = lock /\ pc' = [pc EXCEPT ![p] = "locked_out"]
  /\ UNCHANGED <<versions, synced>>

\* generate_genesis and add_write_set: puts and deletes, in memory only.
add_write_set(p) ==
  /\ pc[p] = "opened"
  /\ pc' = [pc EXCEPT ![p] = "batched"]
  /\ UNCHANGED <<runs, lock, versions, synced>>

\* db.write of the whole batch, after which Ok(move_store) is returned.
write(p) ==
  /\ pc[p] = "batched"
  /\ versions' = Append(versions, Written(p, Ops(p)))
  /\ pc' = [pc EXCEPT ![p] = "serving"]
  /\ UNCHANGED <<runs, lock, synced>>

\* Encoding an op or writing the batch fails, or the framework panics: the
\* error leaves create_genesis and the handle is dropped on the way.
create_genesis_fails(p) ==
  /\ pc[p] \in {"opened", "batched"}
  /\ pc' = [pc EXCEPT ![p] = "failed"]
  /\ lock' = NoProc
  /\ UNCHANGED <<runs, versions, synced>>

\* The last handle is dropped: server.run returns, or the test is over.
drop(p) ==
  /\ pc[p] = "serving"
  /\ pc' = [pc EXCEPT ![p] = "stopped"]
  /\ lock' = NoProc
  /\ UNCHANGED <<runs, versions, synced>>

\* The process dies: its file locks go with it, what it wrote does not.
crash(p) ==
  /\ pc[p] \in HasHandle
  /\ pc' = [pc EXCEPT ![p] = "idle"]
  /\ lock' = NoProc
  /\ UNCHANGED <<runs, versions, synced>>

restart(p) ==
  /\ pc[p] \in {"locked_out", "failed", "stopped"}
  /\ pc' = [pc EXCEPT ![p] = "idle"]
  /\ UNCHANGED <<runs, lock, versions, synced>>

\* RocksDB or the operating system writes part of the log back.
sync ==
  /\ \E n \in synced + 1 .. Len(versions) : synced' = n
  /\ UNCHANGED <<pc, runs, lock, versions>>

\* Every process dies, and recovery finds a prefix of the log that holds at
\* least what was synced.
power_loss ==
  /\ \E n \in synced .. Len(versions) : versions' = SubSeq(versions, 1, n)
  /\ synced' = Len(versions')
  /\ pc' = [p \in Procs |-> "idle"]
  /\ lock' = NoProc
  /\ UNCHANGED runs

Call(p) == open(p) \/ add_write_set(p) \/ write(p) \/ create_genesis_fails(p)
             \/ drop(p) \/ crash(p) \/ restart(p)

Next == (\E p \in Procs : Call(p)) \/ sync \/ power_loss

Spec == Init /\ [][Next]_vars
-----------------------------------------------------------------------------
\* The variables have their types: the synced versions exist, and a version
\* gives a value to every key, also to those that the last genesis left alone.
TypeOK ==
  /\ pc \in [Procs -> HasHandle \cup {"idle", "locked_out", "failed", "stopped"}]
  /\ runs \in [Procs -> 0 .. MaxRuns]
  /\ lock \in Procs \cup {NoProc}
  /\ versions \in Seq([Keys -> Values])
  /\ synced \in 1 .. Len(versions)

\* LOCK is held exactly as long as its holder has a handle: whichever way
\* create_genesis is left, the next caller is not locked out by a leftover.
LockFollowsHandle ==
  \A p \in Procs : lock = p <=> pc[p] \in HasHandle

\* A caller that got its MoveStore reads its own genesis from it, every key,
\* as long as it holds the handle: no other caller's batch lands in between.
ServesOwnGenesis ==
  \A p \in Procs : pc[p] = "serving" =>
    \A k \in Ops(p) : store[k] = WriteSet[p][k]

\* Each version of the store, hence whatever a crash or a power failure makes
\* of it, is empty or holds the entire genesis of some caller; a store with
\* any data can therefore answer chain_id.
NoTornGenesis ==
  \A n \in 1 .. Len(versions) :
    \/ versions[n] = Empty
    \/ /\ chain_id(versions[n]) # Deleted
       /\ \E p \in Procs : \A k \in Ops(p) : versions[n][k] = WriteSet[p][k]

\* test_create_accounts and its neighbours in genesis.rs and main.rs all state
\* that create_genesis returns Ok, and cargo runs them at the same time.
GenesisSucceeds == \A p \in Procs : pc[p] # "locked_out"
=============================================================================
