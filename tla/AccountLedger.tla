--------------------------- MODULE AccountLedger ---------------------------
(***************************************************************************)
(* What the transfer script promises to whoever reads its terminals, with  *)
(* sequence numbers, hashes, polls and the node's pool abstracted away.    *)
(*                                                                         *)
(* The account's committed transactions form a ledger that only grows,     *)
(* one new transaction per sequence number.  An entry says what became of  *)
(* its transaction: one that failed or ran out of gas is in the ledger     *)
(* too, and only Success paid.  A terminal reports times only of entries   *)
(* of the ledger, of none twice, however often it is restarted, and it has *)
(* printed Success only for an entry that paid.                            *)
(*                                                                         *)
(* No promise is made that a report without Success is of a transaction    *)
(* that paid, nor that two terminals report different entries: two scripts *)
(* that sign the same fields in the same second have sent one transaction, *)
(* and both report it.                                                     *)
(* TxClient is shown to implement this specification.                      *)
(***************************************************************************)
EXTENDS Sequences, SequencesExt, Functions

CONSTANTS Terminals, Txs

Outcomes == {"Success", "Fail", "OutOfGas"}
Statuses == {"Success", "other"}

VARIABLES ledger,   \* the account's transactions by sequence number
          reports   \* reports[c]: what terminal c has reported

vars == <<ledger, reports>>

TxsOf(s) == {e.tx : e \in Range(s)}

Init == ledger = <<>> /\ reports = [c \in Terminals |-> <<>>]

Commit ==
  /\ ledger' # <<>> /\ Front(ledger') = ledger
  /\ Last(ledger') \in [tx : Txs \ TxsOf(ledger), outcome : Outcomes]
  /\ UNCHANGED reports

Report(c) ==
  /\ \E e \in Range(ledger), status \in Statuses :
       /\ e.tx \notin TxsOf(reports[c])
       /\ status = "Success" => e.outcome = "Success"
       /\ reports' = [reports EXCEPT ![c] = Append(@, [tx |-> e.tx, status |-> status])]
  /\ UNCHANGED ledger

Next == Commit \/ \E c \in Terminals : Report(c)

Spec == Init /\ [][Next]_vars
=============================================================================
