------------------------------ MODULE TxClient ------------------------------
(***************************************************************************)
(* transfer_supra.py run against a Supra node, with the parts of           *)
(* check_balance.py and check_transaction.py it calls.  Each client is a   *)
(* terminal in which the script is run, MaxRuns times in all; the clients  *)
(* send from one account to one recipient.  A run looks the recipient up   *)
(* to choose max_gas, and then Repeat times reads the sequence number,     *)
(* builds a transaction that expires after Expiry, submits it, polls its   *)
(* status a bounded number of times and asks for its block.                *)
(*                                                                         *)
(* The node is external.  It accepts what is not too old and not expired,  *)
(* commits one transaction per sequence number in order and forgets the    *)
(* ones that expire; a reply may be lost, be an error or be no JSON, which *)
(* the scripts turn into {}.  Transactions are identified by what is       *)
(* signed: two built from the same fields in the same second are the same  *)
(* transaction.                                                            *)
(***************************************************************************)
EXTENDS Naturals, Sequences, Functions

CONSTANTS Clients,    \* the terminals
          Repeat,     \* the transfers of one run
          MaxPolls,   \* wait_for_tx's repeat
          Expiry,     \* tx_expiry_timespan
          MaxRuns,    \* bound: runs of all clients
          MaxTime,    \* bound on the clock
          NoTx        \* a hash that names no transaction, as str({}) does

ASSUME BoundsAssumption ==
  /\ {Repeat, MaxPolls, MaxRuns} \subseteq Nat \ {0} /\ Expiry \in Nat
  /\ MaxTime \in Nat

VARIABLES run,        \* run[c]: the current or last run of client c
          runs,       \* the runs that were started
          reported,   \* reported[c]: the transactions whose times c has printed,
                      \* with the last status that it printed for them
          misled,     \* a recipient that did not exist was taken to exist
          next,       \* the sender's sequence number on the chain
          pool,       \* the node's pending transactions
          committed,  \* the committed transactions with their outcome
          exists,     \* the recipient's account is on the chain
          now         \* int(time.time())

chain == <<next, pool, committed, exists>>
vars == <<run, runs, reported, misled, chain, now>>

Short == 10    \* max_gas for a recipient that exists
Long == 1020   \* and for one that has to be created
Committed == {e.tx : e \in committed}

Outcomes == {"Success", "Fail", "OutOfGas"}
Statuses == {"Success", "other"}    \* of those that are printed, what decides
Succeeded(h) == [tx |-> h, outcome |-> "Success"] \in committed

\* What tells transactions apart, of the fields that are signed.
Tx == [seq : Nat, gas : {Short, Long}, expiry : Nat]

ASSUME NoTxAssumption == NoTx \notin Tx

\* The states of a run between its start and its end.
Active == {"lookup", "loop", "create", "send", "wait", "block"}

NewRun == [pc |-> "lookup", round |-> 0, gas |-> Long, seq |-> 0,
           tx |-> NoTx, hash |-> NoTx, polls |-> 0, status |-> "other"]

\* The locals of a run, or of a round, are gone when it is over.
Ended(how) == [NewRun EXCEPT !.pc = how]
NextRound(c) ==
  run' = [run EXCEPT ![c] =
    IF run[c].round + 1 < Repeat
    THEN [NewRun EXCEPT !.pc = "loop", !.round = run[c].round + 1, !.gas = run[c].gas]
    ELSE Ended("done")]

Init ==
  /\ run = [c \in Clients |-> [NewRun EXCEPT !.pc = "idle"]]
  /\ runs = 0
  /\ reported = [c \in Clients |-> <<>>]
  /\ misled = FALSE
  /\ next = 0 /\ pool = {} /\ committed = {}
  /\ exists \in BOOLEAN
  /\ now = 0

\* What the node takes in; it may always refuse.
Acceptable(t) == t.seq >= next /\ t.expiry >= now
-----------------------------------------------------------------------------
(***************************************************************************)
(* Mutated forms of the actions below.                                     *)
(***************************************************************************)
\* A recipient that could not be looked up is taken for one that exists even
\* when the node answered null.
LookupAlwaysShort(c) ==
  /\ run[c].pc = "lookup"
  /\ run' = [run EXCEPT ![c].pc = "loop", ![c].gas = Short]
  /\ UNCHANGED <<runs, reported, misled, chain, now>>

\* The sequence number of the transaction after the next one.
ReadOneAhead(c) ==
  /\ run[c].pc = "loop"
  /\ run' = [run EXCEPT ![c].pc = "create", ![c].seq = next + 1]
  /\ UNCHANGED <<runs, reported, misled, chain, now>>

\* The status is polled until it says Success.
PollForever(c) ==
  /\ run[c].pc = "wait"
  /\ run' = [run EXCEPT ![c].pc = IF Succeeded(run[c].hash) THEN "block" ELSE @]
  /\ UNCHANGED <<runs, reported, misled, chain, now>>

\* The loop makes one round more than it was asked for.
PollOncePastTheEnd(c) ==
  /\ run[c].pc = "wait"
  /\ run' = [run EXCEPT ![c].polls = @ + 1,
       ![c].pc = IF run[c].polls = MaxPolls THEN "block" ELSE "wait"]
  /\ UNCHANGED <<runs, reported, misled, chain, now>>

\* Any status of a committed transaction is taken for Success.
StatusIsSuccess(c) ==
  /\ run[c].pc = "wait"
  /\ \E status \in Statuses :
       /\ status = "Success" => run[c].hash \in Committed
       /\ run' = [run EXCEPT ![c] =
            IF status = "Success" \/ run[c].polls + 1 = MaxPolls
            THEN [run[c] EXCEPT !.pc = "block", !.polls = 0, !.status = status]
            ELSE [run[c] EXCEPT !.polls = @ + 1]]
  /\ UNCHANGED <<runs, reported, misled, chain, now>>
-----------------------------------------------------------------------------
\* The script is started in terminal c.
start(c) ==
  /\ run[c].pc \in {"idle", "done", "crashed"}
  /\ runs < MaxRuns
  /\ runs' = runs + 1
  /\ run' = [run EXCEPT ![c] = NewRun]
  /\ UNCHANGED <<reported, misled, chain, now>>

\* create_transfer_supra_entry_func: an account the node does not know is
\* null, hence None.  Any other answer is not None, be it the body of an
\* error or the {} made of what is no JSON.
account_exists(c) ==
  /\ run[c].pc = "lookup"
  /\ \E notnull \in BOOLEAN :
       /\ run' = [run EXCEPT ![c].pc = "loop",
                             ![c].gas = IF exists \/ notnull THEN Short ELSE Long]
       /\ misled' = (misled \/ (notnull /\ ~exists))
  /\ UNCHANGED <<runs, reported, chain, now>>

\* The first argument of create_raw_tx; {} would raise a KeyError here.
get_account_seq_num(c) ==
  /\ run[c].pc = "loop"
  /\ run' = [run EXCEPT ![c].pc = "create", ![c].seq = next]
  /\ UNCHANGED <<runs, reported, misled, chain, now>>

\* The clock is read; the simulation that follows decides nothing.
create_raw_tx(c) ==
  /\ run[c].pc = "create"
  /\ run' = [run EXCEPT ![c].pc = "send",
       ![c].tx = [seq |-> run[c].seq, gas |-> run[c].gas, expiry |-> now + Expiry]]
  /\ UNCHANGED <<runs, reported, misled, chain, now>>

\* The POST returns: str of the node's answer is taken for the hash, be it
\* the hash, an error message or the {} made of an answer that is no JSON.
\* The locals of send_tx are gone with its return.
submit_tx_json(c) ==
  /\ run[c].pc = "send"
  /\ \E accepted, readable \in BOOLEAN :
       /\ accepted => Acceptable(run[c].tx)
       /\ pool' = IF accepted THEN pool \cup {run[c].tx} ELSE pool
       /\ run' = [run EXCEPT ![c].pc = "wait", ![c].seq = 0, ![c].tx = NoTx,
                    ![c].hash = IF accepted /\ readable THEN run[c].tx ELSE NoTx]
  /\ UNCHANGED <<runs, reported, misled, next, committed, exists, now>>

\* One round of wait_for_tx: only Success breaks the loop, not an answer that
\* has no status, and when the loop is used up the function returns as if
\* nothing had happened.
wait_for_tx(c) ==
  /\ run[c].pc = "wait"
  /\ \E status \in Statuses :
       /\ status = "Success" => Succeeded(run[c].hash)
       /\ run' = [run EXCEPT ![c] =
            IF status = "Success" \/ run[c].polls + 1 = MaxPolls
            THEN [run[c] EXCEPT !.pc = "block", !.polls = 0, !.status = status]
            ELSE [run[c] EXCEPT !.polls = @ + 1]]
  /\ UNCHANGED <<runs, reported, misled, chain, now>>

\* The block header is there for a committed transaction, whatever its
\* outcome; for any other hash the subscript raises and the script ends.
get_transaction_block_time(c) ==
  /\ run[c].pc = "block"
  /\ IF run[c].hash \in Committed
     THEN /\ reported' = [reported EXCEPT ![c] =
                Append(@, [tx |-> run[c].hash, status |-> run[c].status])]
          /\ NextRound(c)
     ELSE /\ run' = [run EXCEPT ![c] = Ended("crashed")]
          /\ UNCHANGED reported
  /\ UNCHANGED <<runs, misled, chain, now>>

\* A request fails, a reply has no such field, or the user interrupts; in
\* the middle of a POST the node may have taken the transaction or not.
abort(c) ==
  /\ run[c].pc \in Active
  /\ run' = [run EXCEPT ![c] = Ended("crashed")]
  /\ \/ pool' = pool
     \/ run[c].pc = "send" /\ Acceptable(run[c].tx) /\ pool' = pool \cup {run[c].tx}
  /\ UNCHANGED <<runs, reported, misled, next, committed, exists, now>>
-----------------------------------------------------------------------------
\* The node commits the pending transaction whose turn it is.
Commit ==
  /\ \E t \in pool :
       /\ t.seq = next /\ t.expiry >= now
       /\ \E outcome \in IF t.gas = Short /\ ~exists THEN {"OutOfGas"} ELSE {"Success", "Fail"} :
            /\ committed' = committed \cup {[tx |-> t, outcome |-> outcome]}
            /\ exists' = (exists \/ outcome = "Success")
  /\ next' = next + 1
  /\ pool' = {t \in pool : t.seq > next}
  /\ UNCHANGED <<run, runs, reported, misled, now>>

\* Time passes and the node forgets what has expired.
Tick ==
  /\ now < MaxTime
  /\ now' = now + 1
  /\ pool' = {t \in pool : t.expiry >= now'}
  /\ UNCHANGED <<run, runs, reported, misled, next, committed, exists>>

Step(c) == \/ account_exists(c) \/ get_account_seq_num(c) \/ create_raw_tx(c)
           \/ submit_tx_json(c) \/ wait_for_tx(c) \/ get_transaction_block_time(c)

Next == (\E c \in Clients : start(c) \/ Step(c) \/ abort(c)) \/ Commit \/ Tick

\* A script that is running goes on running, as long as its requests return:
\* every call of the scripts blocks until the node answers or the connection
\* fails.  Nothing is assumed of commits.
Spec == Init /\ [][Next]_vars /\ \A c \in Clients : WF_vars(Step(c))
-----------------------------------------------------------------------------
Locals == [pc : Active \cup {"idle", "done", "crashed"},
           round : 0 .. Repeat, gas : {Short, Long}, seq : Nat,
           tx : Tx \cup {NoTx}, hash : Tx \cup {NoTx}, polls : 0 .. MaxPolls,
           status : Statuses]
Report == [tx : Tx, status : Statuses]
Entry == [tx : Tx, outcome : Outcomes]

\* The variables have their types.
TypeOK ==
  /\ run \in [Clients -> Locals]
  /\ runs \in 0 .. MaxRuns
  /\ reported \in [Clients -> Seq(Report)]
  /\ next \in Nat /\ pool \subseteq Tx
  /\ committed \subseteq Entry
  /\ misled \in BOOLEAN /\ exists \in BOOLEAN /\ now \in 0 .. MaxTime

\* Whatever the clients read and whenever they send it, no pending
\* transaction waits for one before it that nobody has sent.
NeverAhead == \A t \in pool : t.seq <= next

\* The terminals implement the ledger of the account: times are printed only
\* for a transaction in a block - a submit that was refused, whose reply was
\* lost or that is still pending when the polls are used up ends the run
\* instead -, for none twice over all runs of a terminal; a transaction whose
\* status was printed as Success has paid; and each sequence number has one
\* transaction, which is never taken back.
Ledger == INSTANCE AccountLedger WITH
  Terminals <- Clients,
  Txs <- Tx,
  ledger <- [n \in 1 .. next |-> CHOOSE e \in committed : e.tx.seq + 1 = n],
  reports <- reported

ImplementsLedger == Ledger!Spec

\* A transfer runs out of gas only because some earlier lookup of a recipient
\* that does not exist was answered with something else than null.
OutOfGasExplained == (\E e \in committed : e.outcome = "OutOfGas") => misled

\* Every run ends, even if its transactions are never committed.
EveryRunEnds ==
  \A c \in Clients : run[c].pc \in Active ~> run[c].pc \in {"done", "crashed"}
=============================================================================
