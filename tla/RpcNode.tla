------------------------------ MODULE RpcNode ------------------------------
(***************************************************************************)
(* main of rpc_server: the process of Server builds the genesis, makes an  *)
(* RpcState of the MoveStore, binds, serves submissions, and stops, dies   *)
(* or loses power at any time, while other callers of create_genesis come  *)
(* and go over the same database.  It composes Genesis (extended here)     *)
(* with the endpoint of RpcServer (the instance R).                        *)
(*                                                                         *)
(* Each validation holds a clone of the MoveStore and with it the handle   *)
(* of the database: when the server has stopped, the runtime waits for the *)
(* validations that are running, and only then LOCK is released.  What a   *)
(* validation finds depends on the store: a transaction is accepted if its *)
(* sender has an account, left there by whichever genesis.                 *)
(***************************************************************************)
EXTENDS Genesis, FiniteSets

CONSTANTS Server,       \* the caller that goes on to serve
          Requests,     \* the submissions its clients may post
          Sender,       \* Sender[r]: the state key of the sender's account
          VMs, MaxBlocking, NoVM, NoRequest   \* as in RpcServer

ASSUME ServerAssumption == Server \in Procs /\ Sender \in [Requests -> Keys]

VARIABLES phase,                                 \* main has not bound yet, listens or stops
          handler, task, vm, holder, poisoned    \* as in RpcServer

volatile == <<handler, task, vm, holder, poisoned>>
nodeVars == <<vars, phase, volatile>>

R(Valid) == INSTANCE RpcServer

\* The requests whose transaction the store accepts now.
Accepted == {r \in Requests : store[Sender[r]] # Deleted}

\* The validations that hold a clone of the MoveStore.
Running == R(Requests)!OnThread

NodeInit == Init /\ phase = "main" /\ R(Requests)!Init

\* The process is gone, and what it kept in memory with it.
Forget ==
  /\ phase' = "main"
  /\ handler' = [r \in Requests |-> "idle"]
  /\ task' = [r \in Requests |-> "none"]
  /\ vm' = [r \in Requests |-> NoVM]
  /\ holder' = [v \in VMs |-> NoRequest]
  /\ poisoned' = [v \in VMs |-> FALSE]
-----------------------------------------------------------------------------
(***************************************************************************)
(* Mutated forms of the actions below.                                     *)
(***************************************************************************)
\* The MoveStore is dropped with the server, under the validations.
ExitAtOnce == phase # "listening" /\ drop(Server) /\ phase' = "main" /\ UNCHANGED volatile
-----------------------------------------------------------------------------
\* HttpServer::new and bind; if it fails, main returns at once, as exit has it.
bind ==
  /\ pc[Server] = "serving" /\ phase = "main"
  /\ phase' = "listening"
  /\ UNCHANGED <<vars, volatile>>

\* A request is posted while the server listens.
Submit(r) ==
  /\ phase = "listening"
  /\ R(Requests)!submit_txn(r)
  /\ UNCHANGED <<vars, phase>>

\* The threads and handlers of the process; a validation reads the store.
Work(r) ==
  /\ \E V \in {Accepted} : R(V)!Step(r)
  /\ UNCHANGED <<vars, phase>>

Disconnect(r) == R(Requests)!disconnect(r) /\ UNCHANGED <<vars, phase>>

\* A signal ends server.run: the handlers are dropped, and the closures that
\* no thread has taken yet.
stop ==
  /\ phase = "listening"
  /\ phase' = "stopping"
  /\ handler' = [r \in Requests |-> IF handler[r] = "awaiting" THEN "dropped" ELSE handler[r]]
  /\ task' = [r \in Requests |-> IF task[r] = "queued" THEN "none" ELSE task[r]]
  /\ UNCHANGED <<vars, vm, holder, poisoned>>

\* main returns when no validation is left that holds a clone of the store.
exit ==
  /\ phase # "listening" /\ Running = {}
  /\ drop(Server)
  /\ Forget

\* The process of the server is killed.
die == crash(Server) /\ Forget

\* Everything else that a caller of create_genesis does.
Caller(p) ==
  /\ Call(p)
  /\ p = Server => pc[p] # "serving"
  /\ UNCHANGED <<phase, volatile>>

Blackout == power_loss /\ Forget

NodeNext ==
  \/ \E r \in Requests : Submit(r) \/ Work(r) \/ Disconnect(r)
  \/ bind \/ stop \/ exit \/ die \/ Blackout
  \/ \E p \in Procs : Caller(p)
  \/ sync /\ UNCHANGED <<phase, volatile>>

\* Threads that can run do run, validations terminate, and main returns.
NodeFairness == WF_nodeVars(exit) /\ \A r \in Requests : WF_nodeVars(Work(r))

NodeSpec == NodeInit /\ [][NodeNext]_nodeVars /\ NodeFairness
-----------------------------------------------------------------------------
\* A validation runs only while its process holds the database, whatever has
\* been stopped, restarted or opened by others in the meantime.
ValidatesUnderLock == Running # {} => lock = Server

\* Every answer of a process agrees with the store as it is now, not only as
\* it was when the transaction was validated: nothing is written under a
\* server, so a client that asks again is answered the same.
AnswersHold ==
  pc[Server] = "serving" => \E V \in {Accepted} : R(V)!AnswersJustified

\* A server that is told to stop gives the database back, whatever its
\* validations wait for: the next start is not locked out by them for ever.
StopReleasesLock == phase = "stopping" ~> lock # Server
=============================================================================
