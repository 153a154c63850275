------------------------- MODULE ValidationService -------------------------
(***************************************************************************)
(* What the submit endpoint of the RPC server promises, with its mutexes,  *)
(* its blocking pool and its futures abstracted away: every request is     *)
(* routed to one validator, which judges it in a single atomic step.  A    *)
(* validator that crashes over a request is lost for good, and the         *)
(* requests routed to it from then on are turned away.  A reply is written *)
(* only once the verdict is known and says exactly what the verdict says.  *)
(* RpcServer is shown to implement this specification.                     *)
(***************************************************************************)
CONSTANTS Requests,   \* the submissions the service may receive
          VMs,        \* the validators
          Valid,      \* the requests whose transaction the store accepts
          NoVM        \* the route of a request that has none yet

VARIABLES reply,      \* reply[r]: "idle", "awaiting", "ok", "err" or "dropped"
          verdict,    \* verdict[r]: "none", "valid", "invalid", "panicked" or "refused"
          route,      \* route[r]: the validator request r was given to
          alive       \* the validators that still work

vars == <<reply, verdict, route, alive>>

Init ==
  /\ reply = [r \in Requests |-> "idle"]
  /\ verdict = [r \in Requests |-> "none"]
  /\ route = [r \in Requests |-> NoVM]
  /\ alive = VMs

Receive(r) ==
  /\ reply[r] = "idle"
  /\ reply' = [reply EXCEPT ![r] = "awaiting"]
  /\ \E v \in VMs : route' = [route EXCEPT ![r] = v]
  /\ UNCHANGED <<verdict, alive>>

Pending(r) == reply[r] # "idle" /\ verdict[r] = "none"

\* A working validator judges the transaction by the store alone.
Judge(r) ==
  /\ Pending(r)
  /\ route[r] \in alive
  /\ verdict' = [verdict EXCEPT ![r] = IF r \in Valid THEN "valid" ELSE "invalid"]
  /\ UNCHANGED <<reply, route, alive>>

\* Judging crashes, and the validator is never used again.
Crash(r) ==
  /\ Pending(r)
  /\ route[r] \in alive
  /\ verdict' = [verdict EXCEPT ![r] = "panicked"]
  /\ alive' = alive \ {route[r]}
  /\ UNCHANGED <<reply, route>>

Refuse(r) ==
  /\ Pending(r)
  /\ route[r] \notin alive
  /\ verdict' = [verdict EXCEPT ![r] = "refused"]
  /\ UNCHANGED <<reply, route, alive>>

Answer(r) ==
  /\ reply[r] = "awaiting"
  /\ verdict[r] # "none"
  /\ reply' = [reply EXCEPT ![r] = IF verdict[r] = "valid" THEN "ok" ELSE "err"]
  /\ UNCHANGED <<verdict, route, alive>>

\* The client goes away; the judgement it asked for still takes place.
Leave(r) ==
  /\ reply[r] = "awaiting"
  /\ reply' = [reply EXCEPT ![r] = "dropped"]
  /\ UNCHANGED <<verdict, route, alive>>

Next == \E r \in Requests :
          Receive(r) \/ Judge(r) \/ Crash(r) \/ Refuse(r) \/ Answer(r) \/ Leave(r)

Spec == Init /\ [][Next]_vars
=============================================================================
