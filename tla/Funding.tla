------------------------------ MODULE Funding ------------------------------
(***************************************************************************)
(* The scripts that fund an account before they use it: airdrop.py, which  *)
(* asks the faucet in any case, and multisig_auth.py and                   *)
(* propose_multisig_tx.py, which ask it when the balance they read is      *)
(* short, watch the balance for a while and go on.                         *)
(*                                                                         *)
(* multisig_auth checks and funds the account that it then pays from;      *)
(* propose checks the multisig account, out of which the proposed transfer *)
(* is paid when it is executed, and pays for the proposal itself from the  *)
(* owner's.  The faucet and the node are external: a request may be        *)
(* refused or its reply be lost, a grant lands late or never.              *)
(***************************************************************************)
EXTENDS Integers

CONSTANTS Runs,       \* the script runs
          Balances,   \* what an account may hold at the start
          Gas,        \* max_gas: recipients that exist, and those that do not
          Grant,      \* what the faucet gives, in quants
          Watches,    \* watch_balance's repeat
          NoAccount   \* the balance of an account that is not on the chain

ASSUME QuantsAssumption ==
  /\ Balances \subseteq Int /\ Gas \subseteq Nat /\ Grant \in Nat
  /\ Watches \in Nat /\ NoAccount < 0

VARIABLES script,   \* script[r]: what run r runs
          gas,      \* gas[r]: the max_gas for the transfer's recipient
          pc,       \* pc[r]: how far run r has come
          seen,     \* seen[r]: the balance r decided by
          watched,  \* watched[r]: the rounds of watch_balance
          grant,    \* grant[r]: what became of r's request to the faucet
          balance   \* balance[a]: the account's quants

vars == <<script, gas, pc, seen, watched, grant, balance>>

Price == 100         \* gas_unit_price
SendGas == 500000    \* max_gas of send_tx
Amount == [airdrop |-> 0, multisig_auth |-> 10, propose |-> 20]

\* The account a script looks at and funds, the one its own transaction is
\* paid from, and the most that one can cost.
Funded(r) == [airdrop |-> "owner", multisig_auth |-> "vault", propose |-> "multisig"][script[r]]
Payer(r) == IF script[r] = "multisig_auth" THEN "vault" ELSE "owner"
Fee(r) == Price * IF script[r] = "multisig_auth" THEN gas[r] ELSE SendGas

Init ==
  /\ script \in [Runs -> DOMAIN Amount]
  /\ gas \in [Runs -> Gas]
  /\ pc = [r \in Runs |-> "start"]
  /\ seen = [r \in Runs |-> 0]
  /\ watched = [r \in Runs |-> 0]
  /\ grant = [r \in Runs |-> "none"]
  /\ balance \in [{"owner", "vault", "multisig"} -> Balances]

\* What is read of an account: 0 when it is not on the chain.
get_account_supra_coin_balance(a) == IF balance[a] = NoAccount THEN 0 ELSE balance[a]

\* The last round of the watch, or a balance that is not short, is left for
\* the transaction; airdrop has none.
Onward(r) == IF script[r] = "airdrop" THEN "done" ELSE "submit"
Ended == {"done", "executed", "crashed"}
-----------------------------------------------------------------------------
(***************************************************************************)
(* Mutated forms of the definitions below.                                 *)
(***************************************************************************)
\* Only what is to be transferred is compared with.
ShortOfAmount(r, b) == b < Amount[script[r]]

\* The watch lasts until there is something to see.
WatchUntilFunded(r) ==
  /\ pc[r] = "watch"
  /\ pc' = [pc EXCEPT ![r] =
       IF get_account_supra_coin_balance(Funded(r)) = 0 THEN "watch" ELSE Onward(r)]
  /\ UNCHANGED <<script, gas, seen, watched, grant, balance>>
-----------------------------------------------------------------------------
\* balance < amount + max_gas: units of gas, taken for quants.
Short(r, b) == b < Amount[script[r]] + gas[r]

\* print_balance, or get_account_supra_coin_balance, and the decision.
check_balance(r) ==
  /\ pc[r] = "start"
  /\ LET b == get_account_supra_coin_balance(Funded(r))
     IN /\ seen' = [seen EXCEPT ![r] = b]
        /\ pc' = [pc EXCEPT ![r] = IF script[r] = "airdrop" \/ Short(r, b) THEN "faucet" ELSE "submit"]
  /\ UNCHANGED <<script, gas, watched, grant, balance>>

\* "Accepted" or not, the hash or "" is printed, and the watch begins; when
\* the reply is lost the faucet may have taken the request all the same.
fund_account_with_faucet(r) ==
  /\ pc[r] = "faucet"
  /\ \E answer \in {"pending", "refused"} : grant' = [grant EXCEPT ![r] = answer]
  /\ pc' = [pc EXCEPT ![r] = "watch"]
  /\ UNCHANGED <<script, gas, seen, watched, balance>>

\* One round: the balance is printed and decides nothing, so the rounds are
\* never cut short.
watch_balance(r) ==
  /\ pc[r] = "watch"
  /\ IF watched[r] < Watches
     THEN watched' = [watched EXCEPT ![r] = @ + 1] /\ UNCHANGED pc
     ELSE /\ pc' = [pc EXCEPT ![r] = Onward(r)]
          /\ UNCHANGED watched
  /\ UNCHANGED <<script, gas, seen, grant, balance>>

\* The sequence number of a payer that is not on the chain cannot be read.
\* The node takes the transaction if the payer can pay for its max_gas; the
\* transfer is undone, and the fee is not, if the rest is less than the amount.
submit_tx_json(r) ==
  /\ pc[r] = "submit"
  /\ LET b == balance[Payer(r)]
         whole == Fee(r) + IF script[r] = "multisig_auth" THEN Amount[script[r]] ELSE 0
         paid == IF b >= whole THEN whole ELSE Fee(r)
     IN /\ pc' = [pc EXCEPT ![r] = IF b = NoAccount THEN "crashed"
                                   ELSE IF b < Fee(r) THEN "rejected" ELSE "sent"]
        /\ balance' = IF b < Fee(r) THEN balance ELSE [balance EXCEPT ![Payer(r)] = b - paid]
  /\ UNCHANGED <<script, gas, seen, watched, grant>>

\* wait_for_tx and what follows, which changes nothing any more: a proposal
\* that was rejected has no event to take the number from, and this raises.
wait_for_tx(r) ==
  /\ pc[r] \in {"sent", "rejected"}
  /\ pc' = [pc EXCEPT ![r] = IF script[r] = "propose" /\ @ = "rejected" THEN "crashed" ELSE "done"]
  /\ UNCHANGED <<script, gas, seen, watched, grant, balance>>

\* A request fails or its reply has no such field; try ... finally in
\* watch_balance lets this through.
raise(r) ==
  /\ pc[r] \notin Ended
  /\ pc' = [pc EXCEPT ![r] = "crashed"]
  /\ UNCHANGED <<script, gas, seen, watched, grant, balance>>
-----------------------------------------------------------------------------
\* A grant arrives, which creates the account, or never will.
Land(r) ==
  /\ grant[r] = "pending"
  /\ grant' = [grant EXCEPT ![r] = "landed"]
  /\ balance' = [balance EXCEPT ![Funded(r)] = get_account_supra_coin_balance(Funded(r)) + Grant]
  /\ UNCHANGED <<script, gas, pc, seen, watched>>

Lose(r) ==
  /\ grant[r] = "pending"
  /\ grant' = [grant EXCEPT ![r] = "lost"]
  /\ UNCHANGED <<script, gas, pc, seen, watched, balance>>

\* The proposal of run r is executed, and the multisig account pays.
Execute(r) ==
  /\ script[r] = "propose" /\ pc[r] = "done"
  /\ balance["multisig"] >= Amount["propose"]
  /\ balance' = [balance EXCEPT !["multisig"] = @ - Amount["propose"]]
  /\ pc' = [pc EXCEPT ![r] = "executed"]
  /\ UNCHANGED <<script, gas, seen, watched, grant>>

Step(r) == check_balance(r) \/ fund_account_with_faucet(r) \/ watch_balance(r)
             \/ submit_tx_json(r) \/ wait_for_tx(r)

Next == \E r \in Runs : Step(r) \/ raise(r) \/ Land(r) \/ Lose(r) \/ Execute(r)

\* A running script goes on; nothing is assumed of the faucet.
Spec == Init /\ [][Next]_vars /\ \A r \in Runs : WF_vars(Step(r))
-----------------------------------------------------------------------------
\* What the account that a script funds must hold for its transfer to succeed;
\* the fee for executing a proposal is the executing owner's.
Need(r) == Amount[script[r]] + IF script[r] = "multisig_auth" THEN Fee(r) ELSE 0

Submits(r) == pc[r] = "submit" /\ pc'[r] \in {"sent", "rejected"}

\* "Step 1: fund the multisig account": a script goes on to step 2 with too
\* little in that account only if the faucet refused or has not delivered, if
\* others spent what was there, or if the balance lay in the gap between
\* amount + max_gas and amount + max_gas * gas_unit_price.
ShortfallExplained ==
  [][\A r \in Runs : Submits(r) /\ balance[Funded(r)] < Need(r) =>
       \/ grant[r] \in {"refused", "pending", "lost"}
       \/ balance[Funded(r)] < seen[r]
       \/ seen[r] >= Amount[script[r]] + gas[r] /\ seen[r] < Need(r)]_vars

\* Every script ends, also when the grant never comes.
EveryScriptEnds == \A r \in Runs : <>(pc[r] \in Ended)
=============================================================================
