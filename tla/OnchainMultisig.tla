-------------------------- MODULE OnchainMultisig --------------------------
(***************************************************************************)
(* The scripts around an on-chain multisig account: create, propose, vote  *)
(* and execute, which also views and, edited to do so, removes.  Runs is   *)
(* the set of script runs, of which up to MaxActive may overlap.           *)
(*                                                                         *)
(* A run prepares one operation, sends it as a transaction of its account, *)
(* polls for a while and ends.  send_tx is TxClient's, seen from outside:  *)
(* the operation may be refused, the reply may be lost, and what has been  *)
(* accepted is committed at most once, possibly after its run has ended.   *)
(* The pending transactions of one account compete for its next sequence   *)
(* number (TxClient's NeverAhead), so that committing one discards others. *)
(*                                                                         *)
(* The framework's module multisig_account is external and modelled from   *)
(* its use here: an account's address depends on the creator's sequence    *)
(* number, and the account keeps a queue of proposals, payload hashes with *)
(* votes, of which only the first unresolved one is executed or removed.   *)
(* Executing it runs its payload.  A payload that fails, because the       *)
(* account is short of money, resolves the proposal all the same, in a     *)
(* transaction that succeeds.                                              *)
(***************************************************************************)
EXTENDS Naturals, FiniteSets, Sequences

CONSTANTS Runs,        \* bound: the script runs
          MaxActive,   \* bound: the script runs at a time
          Owners,      \* the accounts derived from the mnemonic
          Creator,     \* account 0, which creates the multisig account
          Payloads,    \* the transfers that scripts are edited to propose
          Numbers,     \* bound: the sequence numbers that scripts are edited to vote on
          Thresholds,  \* the choices for num_signatures_required
          NoRun,       \* a hash that names no transaction
          Unseen       \* the payload of a number that nobody announced

ASSUME OwnersAssumption ==
  /\ IsFiniteSet(Owners) /\ Creator \in Owners
  /\ Thresholds \subseteq 1 .. Cardinality(Owners)
  /\ Numbers \subseteq Nat
  /\ NoRun \notin Runs /\ Unseen \notin Payloads
  /\ MaxActive \in Nat \ {0}

VARIABLES run,        \* run[r]: the state of run r
          proposed,   \* who has proposed which payload
          approved,   \* who has voted yes on which number, and for what
          announced,  \* the sequence numbers that propose runs have printed
          succeeded,  \* the execute runs that saw Success, with their view
          nonce,      \* account 0's sequence number
          pending,    \* the transactions the node has accepted
          results,    \* what became of the committed ones
          accounts,   \* the multisig accounts on the chain
          queue,      \* the proposals of the scripts' account, in order
          threshold,  \* its num_signatures_required
          resolved    \* its last_resolved_sequence_number

scripts == <<run, proposed, approved, announced, succeeded>>
module == <<accounts, threshold, queue, resolved>>
vars == <<scripts, nonce, pending, results, module>>

\* compute_multisig_account_addr(sender_addr, 1).
Address(o) == <<o, 1>>

Create == [kind |-> "create"]
Propose(o, p) == [kind |-> "propose", target |-> Address(o), payload |-> p]
Vote(s, b) == [kind |-> "vote", seq |-> s, approved |-> b]
Execute(p) == [kind |-> "execute", payload |-> p]
Remove == [kind |-> "remove"]
Operations == {Create, Remove} \cup {Propose(o, p) : o \in Owners, p \in Payloads}
              \cup {Vote(s, b) : s \in Numbers, b \in BOOLEAN}
              \cup {Execute(p) : p \in Payloads}

Active == {"send", "wait"}
Idle == [pc |-> "idle", op |-> Create, shown |-> 0, hash |-> NoRun]
Ended == [Idle EXCEPT !.pc = "ended"]

\* The account exists, made by account 0's transaction number 1, or account 0
\* has made none or one transaction so far.
Init ==
  /\ run = [r \in Runs |-> Idle]
  /\ proposed = {} /\ approved = {} /\ announced = {} /\ succeeded = {}
  /\ pending = {} /\ results = {}
  /\ \/ accounts = {Address(Creator)} /\ nonce = 2
     \/ accounts = {} /\ nonce \in {0, 1}
  /\ threshold \in Thresholds /\ queue = <<>> /\ resolved = 0

\* What the node answers to a query for the hash that run r was given.
Status(r) == {x \in results : x.id = run[r].hash}

Voters(s, vote) == {o \in Owners : queue[s].votes[o] = vote}
Enough(s, vote) == Cardinality(Voters(s, vote)) >= threshold

\* A script may be started.
Start(r) ==
  /\ run[r].pc = "idle"
  /\ Cardinality({q \in Runs : run[q].pc \in Active}) < MaxActive

\* Run r sends op from the account of o.  The same operation built by another
\* run in the same second is the same transaction; a reply that cannot be
\* read leaves no hash.
send_tx(r, o, op, shown) ==
  \E id \in {r} \cup {x.id : x \in {y \in pending : y.from = o /\ y.op = op}},
     accepted, readable \in BOOLEAN :
    /\ pending' = IF accepted THEN pending \cup {[id |-> id, from |-> o, op |-> op]} ELSE pending
    /\ run' = [run EXCEPT ![r] = [pc |-> "wait", op |-> op, shown |-> shown,
                                  hash |-> IF accepted /\ readable THEN id ELSE NoRun]]

\* An owner who votes yes on number s does so for what was announced under s,
\* or for whatever it may be.
Approve(o, s, b) ==
  LET known == {a.payload : a \in {c \in announced : c.seq = s}}
  IN  \E p \in IF known = {} THEN {Unseen} ELSE known :
        approved' = IF b THEN approved \cup {[owner |-> o, seq |-> s, payload |-> p]} ELSE approved
-----------------------------------------------------------------------------
(***************************************************************************)
(* Mutated forms of the actions below.                                     *)
(***************************************************************************)
\* The vote is for the first unresolved proposal instead of the number.
VoteForFirst(r) ==
  /\ Start(r)
  /\ \E o \in Owners, s \in Numbers, b \in BOOLEAN :
       send_tx(r, o, Vote(resolved + 1, b), 0) /\ Approve(o, s, b)
  /\ UNCHANGED <<proposed, announced, succeeded, nonce, results, module>>

\* The view is of the latest proposal instead of the first unresolved one.
ViewCurrent(r, op) ==
  /\ Start(r)
  /\ run' = [run EXCEPT ![r] =
       IF Address(Creator) \in accounts
       THEN [Idle EXCEPT !.pc = "send", !.op = op, !.shown = Len(queue)]
       ELSE Ended]
  /\ UNCHANGED <<proposed, approved, announced, succeeded, nonce, pending, results, module>>

\* The first unresolved proposal's number is printed instead of the event's.
ReportFirst(r) ==
  /\ run[r].pc = "wait" /\ run[r].op.kind = "propose"
  /\ announced' = announced \cup
       {[seq |-> resolved + 1, payload |-> run[r].op.payload] : x \in {y \in Status(r) : y.ok}}
  /\ run' = [run EXCEPT ![r] = Ended]
  /\ UNCHANGED <<proposed, approved, succeeded, nonce, pending, results, module>>

\* The status of the transaction is not looked at.
ReportUnchecked(r) ==
  /\ run[r].pc = "wait" /\ run[r].op.kind = "propose"
  /\ announced' = announced \cup {[seq |-> x.seq, payload |-> run[r].op.payload] : x \in Status(r)}
  /\ run' = [run EXCEPT ![r] = Ended]
  /\ UNCHANGED <<proposed, approved, succeeded, nonce, pending, results, module>>
-----------------------------------------------------------------------------
(***************************************************************************)
(* The scripts.  create and execute use account 0, whoever runs them;      *)
(* propose and vote ask for an account number.  Before they send, only     *)
(* execute and remove read anything that the others change.                *)
(***************************************************************************)
create(r) ==
  /\ Start(r)
  /\ send_tx(r, Creator, Create, 0)
  /\ UNCHANGED <<proposed, approved, announced, succeeded, nonce, results, module>>

propose(r) ==
  /\ Start(r)
  /\ \E o \in Owners, p \in Payloads :
       send_tx(r, o, Propose(o, p), 0) /\ proposed' = proposed \cup {<<o, p>>}
  /\ UNCHANGED <<approved, announced, succeeded, nonce, results, module>>

\* The number to vote on is a literal of the script: any one will do.
vote(r) ==
  /\ Start(r)
  /\ \E o \in Owners, s \in Numbers, b \in BOOLEAN :
       send_tx(r, o, Vote(s, b), 0) /\ Approve(o, s, b)
  /\ UNCHANGED <<proposed, announced, succeeded, nonce, results, module>>

\* The script that executes or, with the removal uncommented, removes starts
\* by displaying the votes for last_resolved_seq + 1; a view of an account
\* that is not there yields {} and the subscript raises.
view(r, op) ==
  /\ Start(r)
  /\ run' = [run EXCEPT ![r] =
       IF Address(Creator) \in accounts
       THEN [Idle EXCEPT !.pc = "send", !.op = op, !.shown = resolved + 1]
       ELSE Ended]
  /\ UNCHANGED <<proposed, approved, announced, succeeded, nonce, pending, results, module>>

\* What was viewed has no influence on what is sent.
execute(r) ==
  /\ run[r].pc = "send"
  /\ send_tx(r, Creator, run[r].op, run[r].shown)
  /\ UNCHANGED <<proposed, approved, announced, succeeded, nonce, results, module>>

\* The last of the polls: the loop ends the same way with and without Success.
\* Only execute's reader learns from it what became of the transaction.
wait_for_tx(r) ==
  /\ run[r].pc = "wait" /\ run[r].op.kind # "propose"
  /\ run' = [run EXCEPT ![r] = Ended]
  /\ succeeded' = IF run[r].op.kind = "execute" /\ \E x \in Status(r) : x.ok
                  THEN succeeded \cup {[id |-> run[r].hash, shown |-> run[r].shown,
                                        payload |-> run[r].op.payload]}
                  ELSE succeeded
  /\ UNCHANGED <<proposed, approved, announced, nonce, pending, results, module>>

\* After its polls propose prints the number in the event of its transaction,
\* of which it asks the status once more; without Success it raises.
get_multisig_tx_sequence_from_tx_hash(r) ==
  /\ run[r].pc = "wait" /\ run[r].op.kind = "propose"
  /\ announced' = announced \cup
       {[seq |-> x.seq, payload |-> run[r].op.payload] : x \in {y \in Status(r) : y.ok}}
  /\ run' = [run EXCEPT ![r] = Ended]
  /\ UNCHANGED <<proposed, approved, succeeded, nonce, pending, results, module>>

\* A request fails, a reply has no such field, or the user interrupts; what
\* the node took in the middle of a POST is a reply that cannot be read.
abort(r) ==
  /\ run[r].pc \in Active
  /\ run' = [run EXCEPT ![r] = Ended]
  /\ UNCHANGED <<proposed, approved, announced, succeeded, nonce, pending, results, module>>
-----------------------------------------------------------------------------
(***************************************************************************)
(* The node and the module multisig_account.                               *)
(***************************************************************************)
Open == Len(queue) > resolved
FirstOpen == resolved + 1

\* When the operation of transaction x succeeds.
CanApply(x) ==
  CASE x.op.kind = "create"  -> TRUE
    [] x.op.kind = "propose" -> x.op.target \in accounts
    [] x.op.kind = "vote"    -> x.op.seq \in FirstOpen .. Len(queue)
    [] x.op.kind = "execute" -> /\ Open /\ Enough(FirstOpen, "yes")
                                /\ ~queue[FirstOpen].expired
                                /\ queue[FirstOpen].payload = x.op.payload
    [] x.op.kind = "remove"  -> Open /\ (Enough(FirstOpen, "no") \/ queue[FirstOpen].expired)

\* What it does then; a proposer votes yes by proposing, and the payload that
\* is executed may fail.
Proposal(o, p) == [payload |-> p, expired |-> FALSE, outcome |-> "open",
                   votes |-> [v \in Owners |-> IF v = o THEN "yes" ELSE "none"]]

Apply(x) ==
  CASE x.op.kind = "create" ->
         accounts' = accounts \cup {<<x.from, nonce>>} /\ UNCHANGED <<threshold, queue, resolved>>
    [] x.op.kind = "propose" ->
         queue' = Append(queue, Proposal(x.from, x.op.payload)) /\ UNCHANGED <<accounts, threshold, resolved>>
    [] x.op.kind = "vote" ->
         /\ queue' = [queue EXCEPT ![x.op.seq].votes[x.from] = IF x.op.approved THEN "yes" ELSE "no"]
         /\ UNCHANGED <<accounts, threshold, resolved>>
    [] x.op.kind \in {"execute", "remove"} ->
         /\ \E how \in IF x.op.kind = "execute" THEN {"executed", "failed"} ELSE {"removed"} :
              queue' = [queue EXCEPT ![FirstOpen].outcome = how]
         /\ resolved' = FirstOpen /\ UNCHANGED <<accounts, threshold>>

\* The proposal that a successful operation is about.
Subject(x) == CASE x.op.kind = "create"  -> 0
                [] x.op.kind = "propose" -> Len(queue) + 1
                [] x.op.kind = "vote"    -> x.op.seq
                [] OTHER                 -> FirstOpen

\* A pending transaction is executed and its account's other ones are void.
Commit ==
  \E x \in pending :
    /\ IF CanApply(x) THEN Apply(x) ELSE UNCHANGED module
    /\ results' = results \cup {[id |-> x.id, ok |-> CanApply(x),
                                seq |-> IF CanApply(x) THEN Subject(x) ELSE 0]}
    /\ nonce' = IF x.from = Creator THEN nonce + 1 ELSE nonce
    /\ pending' = {y \in pending : y.from # x.from}
    /\ UNCHANGED scripts

\* A transaction expires before it is committed, or fails for another reason.
Drop == \E x \in pending : pending' = pending \ {x}
                           /\ UNCHANGED <<scripts, nonce, results, module>>

\* The first unresolved proposal expires.
Expire ==
  /\ Open /\ ~queue[FirstOpen].expired
  /\ queue' = [queue EXCEPT ![FirstOpen].expired = TRUE]
  /\ UNCHANGED <<scripts, nonce, pending, results, accounts, threshold, resolved>>

Step(r) == \/ create(r) \/ propose(r) \/ vote(r)
           \/ \E op \in {Remove} \cup {Execute(p) : p \in Payloads} : view(r, op)
           \/ execute(r) \/ wait_for_tx(r)
           \/ get_multisig_tx_sequence_from_tx_hash(r) \/ abort(r)

Next == (\E r \in Runs : Step(r)) \/ Commit \/ Drop \/ Expire

Spec == Init /\ [][Next]_vars
-----------------------------------------------------------------------------
Transactions == [id : Runs, from : Owners, op : Operations]

\* The variables have their types.
TypeOK ==
  /\ run \in [Runs -> [pc : Active \cup {"idle", "ended"}, op : Operations,
                       shown : 0 .. FirstOpen, hash : Runs \cup {NoRun}]]
  /\ proposed \subseteq Owners \X Payloads
  /\ approved \subseteq [owner : Owners, seq : Numbers, payload : Payloads \cup {Unseen}]
  /\ announced \subseteq [seq : DOMAIN queue, payload : Payloads]
  /\ succeeded \subseteq [id : Runs, shown : Nat, payload : Payloads]
  /\ nonce \in Nat
  /\ pending \subseteq Transactions
  /\ results \subseteq [id : Runs, ok : BOOLEAN, seq : {0} \cup DOMAIN queue]
  /\ accounts \subseteq {Creator} \X Nat
  /\ threshold \in Thresholds
  /\ queue \in Seq([payload : Payloads, expired : BOOLEAN,
                    outcome : {"open", "executed", "failed", "removed"},
                    votes : [Owners -> {"yes", "no", "none"}]])
  /\ resolved \in 0 .. Len(queue)

\* The proposals whose payload was run, with or without success.
Executed == {s \in DOMAIN queue : queue[s].outcome \in {"executed", "failed"}}

\* Owner o proposed the payload of proposal s, or voted yes on s either for
\* this payload or without knowing of any.
Approves(o, s) == \E a \in approved : /\ a.owner = o /\ a.seq = s
                                      /\ a.payload \in {queue[s].payload, Unseen}
Asked(o, s) == <<o, queue[s].payload>> \in proposed \/ Approves(o, s)

\* A transfer is executed only if enough owners asked for it.  An owner who
\* voted on a number that was announced for another transfer is not one of
\* them; one who voted on a number that was not announced is.
AgreedByThreshold ==
  \A s \in Executed : Cardinality({o \in Owners : Asked(o, s)}) >= threshold

\* A proposal whose script gave up may be committed all the same, and then
\* be executed beside the one that is proposed in its place.  This takes a
\* threshold of one or a yes vote on a number that nobody announced.
UnannouncedExplained ==
  \A s \in Executed :
    \/ [seq |-> s, payload |-> queue[s].payload] \in announced
    \/ threshold = 1
    \/ \E a \in approved : a.seq = s /\ a.payload = Unseen

\* The view that the execute script shows may be stale when its transaction
\* is committed.  If it then sees success, its own payload was run, though it
\* may have failed, for the proposal whose votes it showed or, that one
\* having been resolved meanwhile, for a later one.
SuccessMeansResolved ==
  \A e \in succeeded : \E x \in results :
    x.id = e.id /\ x.seq \in Executed /\ x.seq >= e.shown /\ queue[x.seq].payload = e.payload

\* An owner can propose: once the account exists and is funded, a proposal
\* of an owner is for it, whichever account number the owner types.
OwnersCanPropose ==
  Address(Creator) \in accounts =>
    \A x \in pending : x.op.kind = "propose" => x.op.target \in accounts
=============================================================================
