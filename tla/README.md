# A TLA+ development for supra-from-scratch

The repository holds two programs. `rpc_server/` is a small RPC server in Rust
that builds a genesis state in RocksDB and validates submitted transactions on a
pool of Move VMs. Around it stand Python scripts that talk to a Supra node:
they keep a mnemonic in an encrypted file, transfer coins, and manage multisig
accounts. This directory models both, checks the models with TLC and proves with
TLAPS, for every value of the constants, all but two of the invariants that TLC
checks on small instances, and both refinements of an abstract specification.

## 1. The system

| Part | State it keeps | Operations | Interacts with |
|---|---|---|---|
| Submit endpoint (`lib.rs`, `state.rs`, `error.rs`, `transaction.rs`) | the futures of the handlers, the tasks on tokio's blocking pool, a `Vec<Arc<Mutex<AptosVM>>>` and the poison flags of the mutexes | `submit_txn`, `get_next_vm` | reads the Move store; clients may leave at the await |
| Move store and genesis (`move_store.rs`, `genesis.rs`) | the column family `cf_move_state` and RocksDB's `LOCK` file | `MoveStore::new`, `add_write_set`, `create_genesis`, reads | called by `main`, by four tests and by the benches, all on `./move_store.db` |
| `main.rs`, endpoint `chain_id` | the lifetime of the process: genesis, server, stop | create the genesis, serve, read one resource | store, VM pool, other processes on the same database |
| Move executor (`move_executor.rs`) | a rayon pool | `execute_transaction_block_parallel`, a simulation | called by nobody: its use in `lib.rs` is commented out |
| Transfer script and its helpers (`transfer_supra.py`, `check_transaction.py`, `check_balance.py`) | the locals of one run | look up, read the sequence number, build, simulate, submit, poll, ask for the block | a Supra node over HTTP |
| Mnemonic files (`gen_mnemonic.py`, `encrypt_mnemonic.py`, `gen_mnemonic_fido2.py`) | one file; with FIDO2 the credential id that the script names | store, load, create a credential | user at a prompt, file system, FIDO2 device; read by every script that signs |
| Key derivation (`derive_keys.py`) | none | load the mnemonic, derive accounts | mnemonic file |
| On-chain multisig (`create_`, `propose_`, `vote_`, `execute_multisig_tx.py`, `view_multisig_tx.py`) | the queue of proposals, on the chain | create account, propose, vote, execute, remove | node; the framework's `multisig_account` module |
| Multisig authenticator (`multisig_auth.py`) | none | fund the shared account, build, sign, encode signatures, submit | faucet, node |
| Payloads (`transaction_payload.py` and the builders of `transfer_supra.py`) | none | serialize, deserialize, to JSON, hash | every script that posts |
| Funding (`airdrop.py`, first steps of `multisig_auth.py` and `propose_multisig_tx.py`) | the locals of one run | read the balance, ask the faucet, watch | faucet, node |
| Block queries (`check_block.py`, `scan_blocks.py`, `check_transaction.py`) | the locals of one run | look up heights, walk over blocks, compare rounds | node |

What is hard to get right, and to test, in these parts:

* **Submit endpoint** - panics poison a VM that stays in the pool; tasks that
  wait for a mutex occupy blocking threads; a client that leaves detaches its
  task. Correct: one validation per VM at a time, no thread or mutex ever lost,
  answers that say what the verdict says, and an answer for everybody.
* **Genesis** - one lock for all callers, an error path between open and return,
  a write that is not synced, an overlay on older data. Correct: a caller with a
  store serves its own genesis whole; no failure leaves a part of one.
* **The node as a whole** - validations hold clones of the store after their
  handlers have gone and after the server was told to stop; the database is
  opened by others in between. Correct: nothing validates without the lock, what
  was answered stays true while the server runs, and stopping frees the database.
* **Transfers** - a stale sequence number, a wait that times out silently, lost
  replies, two terminals on one account. Correct: times are printed only for
  transactions in a block, never twice in a terminal, Success only for one that
  paid, and every run ends.
* **Payloads** - a transaction leaves a script as signed bytes and as JSON, and the
  node rebuilds one from the other. Correct: both say the same, and a proposal's
  hash is that of the transfer which is executed later by another script.
* **Mnemonic file** - a check before a prompt and an open after it, a death
  between open and write, fixed offsets, several FIDO2 devices, whose credentials
  differ in length, and a credential that is created anew. Correct: what was
  stored is readable - it is, if the credential has the one length that load
  takes for it - and stays so.
* **Funding** - a balance is read, a grant arrives later or never, and units of gas
  are compared with quants. The code does not rule a shortfall out; what can be
  said is that it has one of four reasons.
* **Block queries** - the chain grows during a walk whose first height is fixed.
  A scan can miss its target; what can be said is that this is due to the fixed
  height and to nothing else.
* **On-chain multisig** - view first and submit later, retries that propose a
  second time, numbers carried from one terminal to another by hand or made up, a
  rejected head that blocks the queue, a payload that fails when it is executed.
  Correct: what is executed was asked for by enough owners; a proposal that was
  given up is executed only with a threshold of one or after a vote on a number
  that nobody announced; and success of an execute run means that its own payload
  was run for a proposal now resolved - not that the transfer was paid.
* **Multisig authenticator** - positions in a list that become digits of a bitmap
  while the order of the signatures stays. Correct: the node reads the positions
  that were written, and it is known which lists it accepts.

`PROJECT.json` lists every hazard at its line with the properties that cover it.

## 2. Modules

| Module | Models | Checked by |
|---|---|---|
| `ValidationService` | abstract specification of the submit endpoint | `ImplementsService` |
| `RpcServer` | submit endpoint, blocking pool and VM pool | `RpcServer.cfg` |
| `RpcServer_proofs` | proofs about `RpcServer` | TLAPS |
| `Genesis` | `create_genesis` and the store, all callers together | `RpcNode.cfg`, `GenesisTests.cfg` |
| `RpcNode` | `main`: `Genesis` and `RpcServer` composed | `RpcNode.cfg` |
| `RpcNode_proofs` | proofs about `Genesis` and `RpcNode` | TLAPS |
| `AccountLedger` | abstract specification of the transfer script | `ImplementsLedger` |
| `TxClient` | `transfer_supra.py` against a node | `TxClient.cfg` |
| `TxClient_proofs` | proofs about `TxClient` | TLAPS |
| `TxCodec` | `transaction_payload.py`, the builders and the posts | `TxCodec.cfg` |
| `TxCodec_proofs` | proofs about `TxCodec` | TLAPS |
| `MnemonicStore` | store and load of the mnemonic file, both formats | `MCMnemonicStore.cfg`, `MnemonicRace.cfg` |
| `MnemonicStore_proofs` | proofs about `MnemonicStore` | TLAPS |
| `OnchainMultisig` | the multisig scripts over the framework's queue | `MCOnchainMultisig.cfg`, `MultisigOwners.cfg` |
| `OnchainMultisig_proofs` | proofs about `OnchainMultisig` | TLAPS |
| `MultisigAuth` | `multisig_auth.py` from signing to the node's verdict | `MultisigAuth.cfg` |
| `MultisigAuth_proofs` | proofs about `MultisigAuth` | TLAPS |
| `Funding` | balance, faucet and watch in front of a script's transaction | `Funding.cfg` |
| `BlockScan` | `scan_blocks.py`, `check_transaction.py` | `BlockScan.cfg` |
| `BlockScan_proofs` | proofs about `BlockScan` | TLAPS |
| `MCGenesis`, `MCRpcNode`, `MCTxCodec`, `MCMnemonicStore`, `MCOnchainMultisig`, `MCFunding` | instances for TLC | |

Every module has, in front of its actions, a section with mutated forms of some
of them: single slips of the kind that happen in such code. Substituting one
for its original makes the property it is aimed at fail, which shows that the
property depends on the code.

### RpcServer

`handler[r]` is the future of one call of `submit_txn`, `task[r]` the closure it
gives to `spawn_blocking`, `vm[r]` the result of `get_next_vm`; `holder` and
`poisoned` are the two halves of each std mutex. The actions follow the code:
`submit_txn` up to the `.await`, `spawn_blocking` (a thread takes the closure),
`lock` or `unwrap_poisoned` (`vm.lock().unwrap()` with a clean or a poisoned
mutex), `validate_transaction` or `validate_panics` (the guard lives to the end
of the statement and is dropped with it), `respond` (`.await.map_err()??`), and
`disconnect` (the framework drops the future; tokio detaches the task).

Executing the transaction is commented out in `lib.rs`, so the store does not
change while serving and the verdict on a transaction is a function of the
request: the constant `Valid`. Whether a validation panics is left open. A
mutex hands itself to any waiter, in any order. ntex runs a worker per core, and
tokio a blocking pool per runtime; one pool of any size stands for them all.

`ValidationService` says what this is for: a request is routed to one validator
and judged in one atomic step; a validator that crashes is lost, and what is
routed to it afterwards is refused; a reply says what the verdict says. The
refinement maps `task` to the verdict, and the clean mutexes to the validators
that are alive; taking a thread and taking the lock are stutters.

### Genesis

Callers (`Procs`) are processes or, in `cargo test`, threads. `pc` follows
`create_genesis`: `open` (fails when `LOCK` is taken), `add_write_set` (in
memory), `write` (one `WriteBatch`), then serving until `drop`.
`create_genesis_fails` is every `?` and panic on the way. RocksDB is external:
one handle at a time, atomic batches, and a write without sync that outlives
the process but not a power failure, after which recovery finds a prefix of the
log. `versions` is the store after each batch, and `synced` how many of them are
safe. A write op that deletes gives its key the value `Deleted`. A read of RocksDB
that fails (`move_store.rs:34`, `:37`) is not modelled: `AnswersHold` is about a
database whose reads succeed.

### RpcNode

The module extends `Genesis` and takes the endpoint as `R(Valid) == INSTANCE
RpcServer`: what is a constant there, the requests that validate, is the set
`Accepted` here, read from the store at each step. The process of `Server` goes
through `phase`: `main` (building the genesis, or serving it before `bind`),
`listening`, and `stopping` after a signal. `stop` drops the handlers and the
closures no thread has taken; `exit` is the return of `main`, for which tokio's
runtime waits for the blocking tasks that run, as each holds a clone of the
store. `die` and `power_loss` forget everything at once. The other callers of
`create_genesis`, tests and benches, come and go as in `Genesis`. An account is
a key of the store. One that an earlier genesis left behind is still there,
since a genesis overlays, and transactions of its owner are accepted.

### MnemonicStore

One file and the script runs that use it. `store_mnemonic` looks for the file,
`get_assertion` asks the FIDO2 device, `encrypt` is the password prompt, `open`
truncates, `write` writes at offset 0, `load_mnemonic` cuts the bytes at the
fixed offsets, `generate_bip44_account` goes on with what was loaded or fails; a
run may `die` anywhere in between. Bytes are symbolic (run, field, place), so
the layout is modelled down to the byte while random data stay distinct, and
decryption succeeds exactly with all fields of one run complete, its password
and its device. The format is chosen in `Init` among `Headers`, each with the
lengths that load takes for the fields and the offsets at which it cuts:
`<<16, 12>>` for `gen_mnemonic.py` and `<<57, 32, 16, 12>>` for the FIDO2 script,
whose first field is the credential, the same for all runs with one device. The
salts and the nonce are written with these lengths; the credential is written as
long as its device made it (`IdLen`), which may not be 57. `create_credential` is
that script's main program run again with another device, after which the user
edits the credential, of whatever length, in the source.

### TxClient

A client is a terminal in which `transfer_supra.py` is run again and again, up
to `MaxRuns` runs over all terminals. `run[c]` holds the locals of the run:
`account_exists` chooses `max_gas` once, then the loop goes through
`get_account_seq_num`, `create_raw_tx`, `submit_tx_json`, `wait_for_tx` and
`get_transaction_block_time`, each a request of its own. `abort` is an
exception, a failed request or an interrupt at any of them. The node
(`Acceptable`, `Commit`, `Tick`) is external: it may refuse anything, commits
one transaction per sequence number, and forgets what expires. A transaction is
what is signed; two that agree in sequence number, gas and expiry are the same
one, as Ed25519 signatures are deterministic. A reply that cannot be decoded
turns into `{}`, for which the model has `NoTx` (as a hash) and the flag `misled`
(as an account). The simulation before the submission, the balances and the
printing change nothing and are left out.

A committed transaction is `Success`, `Fail` or `OutOfGas`. Of the statuses that
are printed the script acts on Success only, so `status` is that or `"other"`, and
an answer without a readable status can always take the place of another. The
times are asked for and printed whatever the status was (`transfer_supra.py:182`).
An account look-up is misled by any answer but null, be it no JSON or the body of
an error.

`AccountLedger` says what is promised to a reader of the terminals: committed
transactions are appended to a ledger with what became of them, failed ones too; a
terminal reports those that are in it, none twice, and has printed Success only for
one that paid. Two terminals may report the same transaction, as the code lets
them. The refinement maps the chain to the ledger and the printed times and
statuses to the reports; all requests, polls, failures and restarts are stutters.

### TxCodec

A Python object is a pair of its class and the record of its attributes, BCS is
a sequence of tokens, a JSON value the set of its leaves with their paths.
`Serialize`, `Deserialize`, `payload_to_dict`, `auth_to_dict` and the builders are
translated branch by branch; what the SDK serializes as a whole is one token.
`payload_to_dict` calls itself to a depth of four, which the model unfolds
(`ModuleDict`, `FunctionDict`, `ContentDict`); a mutated argument conversion or a
key that keeps the SDK's name is visible as a leaf that differs. The node is external and sees
the JSON alone: `Rebuilt` are the transactions it can stand for, and `Verified`
checks the signature over the node's own serialization. The actions are the
posts of the scripts: simulate, submit, submit with the signatures of the shared
account, and propose with its hash. No script calls `Deserialize`:
`PayloadRoundTrip` is about the classes, which offer it to their users.

### OnchainMultisig

`Runs` are runs of the scripts; which script, which account and which transfer
or number it was edited for is chosen when the run starts. `create`, `propose`
and `vote` read nothing that others change before they send (the sequence number
and its races are `TxClient`'s subject), so starting and sending is one step;
`view` and `execute` are two, because what is displayed may be stale when the
transaction is sent. Reading the votes one by one is one step, as only the number
of the proposal they are for is kept (`shown`). `wait_for_tx` is the last of its
polls; `get_multisig_tx_sequence_from_tx_hash` is what propose does after it.
The removal is commented out in `execute_multisig_tx.py`; `remove` is the script
with it. `announced` is what propose runs printed. The number to vote on is a
literal (`vote_multisig_tx.py:41`), so `vote` takes any of `Numbers`, announced or
not, there or not. `approved` records what an owner can mean by it: the transfer
that was announced under the number, or `Unseen` if none was. Two runs that build
the same operation of one account in one second send the same transaction.

External: the node (`Commit`, `Drop`) and `multisig_account` (`CanApply`,
`Apply`, `Expire`), with what the scripts and the repository's README say of
it - a proposer has voted by proposing, only the first unresolved proposal is
executed, with the payload whose hash was proposed, and rejected or expired ones
have to be removed. Executing runs the payload, which may fail for want of money:
the outcome is `"executed"` or `"failed"`, and the proposal is resolved and the
transaction a Success in both cases. A payload hash is the payload: no two collide. The faucet
request that propose may make first is in `Funding`; it moves no proposal.

### MultisigAuth

The loop of `multisig_to_crypto_bytes` with its variables: `extend` is a round,
`append_bitmap` the `to_bytes`, `verify` the assertion before it and
`submit_tx_json` the node's verdict. An integer is the set of the exponents of
its binary digits, which makes `|` a union and `to_bytes` a cut into four sets.
`Verifies` is the SDK's check, which pairs signatures with positions as the list
does; `Accepts` is the node's, which only has the bytes. The list is any list.

### Funding

`check_balance` reads the balance and decides (`balance < amount + max_gas`),
`fund_account_with_faucet` posts the request, `watch_balance` counts its rounds,
which are never cut short, and `submit_tx_json` is the transaction the script is
for, judged by the node. `Funded` is the account a script looks at, `Payer` the
one its own transaction is paid from; for `propose` they differ. The node is
taken to charge `max_gas` whole, the most it can charge. A grant lands at any
time or is lost.

### BlockScan

`blocks` grows by `Extend`. `scan` is `scan_blocks.py`: two heights are looked up,
then the walk goes from the fixed height 637230 (`First`) to that of the end
transaction. `check` is the main program of `check_transaction.py`: wait, ask for
the block, ask for the block before it, subtract the rounds. `TimeoutsCounted`
says what the difference is for: it is the number of the rounds between the two
that no block has. That rounds grow from block to block is the promise of the
chain's consensus, which is external.

## 3. What is checked

| Run | Instance | Shows |
|---|---|---|
| `rpc_server` | 3 requests (2 valid), 2 VMs, 2 threads | `VmExclusive`, `NoStuckPool`, `OnePanicPerVm`, `AnswersJustified`, the refinement of `ValidationService`, `EveryRequestAnswered`, `DetachedTasksFinish` |
| `rpc_node` | server and test, 2 starts each, 3 keys, 2 requests, 2 VMs, 1 thread | `LockFollowsHandle`, `ServesOwnGenesis`, `NoTornGenesis`, `ValidatesUnderLock`, `AnswersHold`, `StopReleasesLock` |
| `genesis_tests` | server and test | **violated**: `GenesisSucceeds` |
| `tx_client` | 2 terminals, 2 runs of 2 transfers, 1 poll, clock to 1 | `NeverAhead`, `OutOfGasExplained`, the refinement of `AccountLedger`, `EveryRunEnds` |
| `tx_codec` | every payload the scripts build, a script and a call with type arguments, 2 accounts and the shared one | `SubmittedIsSigned`, `SimulatedIsNotSubmittable`, `ExecutesWhatWasProposed`, `PayloadRoundTrip`, `RaisedExplained` |
| `mnemonic` | both formats, 3 runs one after another, 2 passwords, 4 devices, 2 lengths of words | `StoredIfFits`, `UnreadableExplained`, `NothingLost` |
| `mnemonic_race` | the same with 2 runs at a time | **violated**: `NothingLost` |
| `multisig` | 4 runs, one at a time, 2 owners, threshold 2, 2 transfers, votes on 1 and 2 | `AgreedByThreshold`, `UnannouncedExplained`, `SuccessMeansResolved` |
| `multisig_owners` | the same with 2 runs at a time, thresholds 1 and 2 | **violated**: `OwnersCanPropose` |
| `multisig_auth` | 9 keys, threshold 2, lists of up to 3 | `PositionsSurvive`, `AcceptedIfAscending` |
| `funding` | 2 runs of any of the three scripts, 3 balances, both values of `max_gas`, 2 rounds | `ShortfallExplained`, `EveryScriptEnds` |
| `block_scan` | 4 blocks, rounds to 5, walk from height 1, 2 polls | `MissExplained`, `TimeoutsCounted` |

Each passing run with a state worth typing has its `TypeOK` as well.

Why the bounds are enough:

* `rpc_server`: three requests on two VMs give a VM that validates, one that is
  poisoned, and a task that waits for a mutex while another has no thread.
  Proofs cover all sizes.
* `rpc_node`: two starts per caller allow a genesis, a foreign one over it and a
  restart, in any interleaving with power failures. The write sets differ in a
  key, so an overlay is told from a replacement, and one sender is known to only
  one of them. With one thread, a closure is still queued when the server stops
  while another one runs. The proofs cover all sizes.
* `tx_client`: two transfers per run and two runs, in one terminal or in two,
  make a transaction of a previous run, of the previous round and of the other
  terminal meet the current one. A transaction is good for the tick in which it
  is built, so it can expire before and after the polls are used up. Polls are
  not tied to the clock, which allows more than the code's 30 polls of a second
  within an expiry of 300; an answer before the last one changes nothing unless it
  is Success, so that one poll, at any time, ends as thirty do. The proofs cover
  any number of polls.
* `tx_codec`: the three kinds of payload, a multisig payload with and without
  content, two amounts to confuse, and a chain id that could not be read.
* `mnemonic`: `MaxActive = 1` says that the user does not start a script before
  the one in the other window is over; with 2 the check before the prompt is
  exposed. The two ciphertext lengths let a short file land on a long one; two
  devices with credentials of 57 bytes let a file be made with one and asked of
  the other, and two more have a longer and a shorter credential.
* `multisig`: with both owners needed, four runs make two proposals, a vote and an
  execution, so that numbers can be confused, the proposal that was given up can be
  in front, and another one is executed than was displayed. A run starts when the
  one before has ended, which it may do at any time, its transaction still
  pending: the mempool interleaves what the runs have sent, and the queue moves
  between a view and its execution. A threshold of one, with which fewer steps do
  as much, and runs that overlap as well are left to the proofs, which cover any
  runs, thresholds and numbers; four runs that overlap take TLC too long.
* `multisig_auth`: nine keys have positions in two bytes of the bitmap, three
  signatures can be out of order and repeat a position at once. The proof of
  both properties covers up to 32 keys and all lists.
* `funding`: balances of none, 30 (short for some, in the gap between units and
  quants of gas for the others) and 1010 (in the gap of `multisig_auth`), with
  grants and spending by the other run on top.
* `block_scan`: the start, the end and the target lie in any blocks, below and
  above the fixed height, and appear while the walk goes on.

Deadlock checking is off in all runs: the requests, starts and runs are bounded
and the system stops when they are used up.

## 4. Fairness

* `RpcServer`: weak fairness of each request's own steps - a queued closure gets
  a thread, a free mutex is taken, a validation ends or panics, a finished task
  wakes its handler. Tokio and the operating system schedule runnable work. As
  requests are finitely many, contention for threads and mutexes ends, so strong
  fairness is not needed. That clients post or leave is not assumed.
* `RpcNode`: the same steps, and `exit`: once no validation holds the store,
  `main` returns. That the server is ever told to stop is not assumed.
* `TxClient`, `Funding`: weak fairness of each script's steps, which says that
  requests return. It is an assumption about the node and the network, since the
  scripts set no timeout. Nothing is assumed of commits, grants, time or restarts.
* `MnemonicStore`, `OnchainMultisig`, `MultisigAuth`, `TxCodec` and `BlockScan` have
  safety properties only. That a proposal is ever executed is up to its owners.

## 5. What is proved

Each theorem module has an inductive invariant `IInv` with `Init => IInv`,
`IInv /\ [Next]_vars => IInv'`, and what follows from it. The parts of each:

**RpcServer_proofs**, for every set of requests and VMs and every pool size.
`IInv` is `TypeOK`, `LockInv` (a validating task holds the mutex of its VM, which
is not poisoned, and nobody else holds one), `VerdictInv` (what each verdict says
of the request and its VM, and each answer of the verdict) and `OnePanicPerVm`.
`VmExclusive` alone is not inductive: that two tasks do not validate on a VM
follows from the holder of its mutex being unique, which `LockInv` records. Proved
are `TypeCorrect`, `MutualExclusion`, `PoolProgress` (no deadlock in the pool: a
task that waits for a mutex waits for one that has a thread), `PanicsCounted`,
`AnswersCorrect`, and `Refinement`: `Spec => ImplementsService`, by the initial
states and one step per action under `IInv`.

**RpcNode_proofs**, for every set of callers, keys, write sets, requests, VMs and
threads. Its first part is about `Genesis`: `TypeCorrect`, `LockNotLeaked`,
`OwnGenesisServed` and `GenesisAtomic`. The four invariants are inductive
together, as a served genesis is safe only because the lock excludes another
writer. The second part begins with `NodeIsACaller`: `NodeSpec => Spec`, every step
of the server process is a step of one more caller of `create_genesis`, or a
stutter, so that `RpcNode` implements `Genesis` and `NodeKeepsGenesis` follows. On
top of that, `NodeIInv` adds that the handlers are idle before `listening` and a
server beyond `main` serves (`ServingInv`), and what each verdict says of the store
*as it is now* (`VerdictInv`); it is stable because only the holder of the lock
writes, and the server holds it. `LockOutlivesValidations` and `AnswersStay`
follow.

**TxClient_proofs**, for any number of terminals, runs, transfers, polls and ticks.
`SeqInv` says that nothing read, signed or pending is ahead of the chain, which
`NeverAhead` needs of the locals before it can say it of the mempool; `GasInv` follows the
low `max_gas` from the look-up over the signature into the chain; `ChainInv` says that the
chain has exactly one transaction per number; `ReportInv` that a terminal's
reports are in the chain and below the number that its run is at, which is why
none is reported twice, and that Success was seen of a transaction which paid. Proved are `TypeCorrect`, `NoGaps`, `GasExplained`, and
`Refinement`: `Spec => ImplementsLedger`. The ledger is the sequence of the
committed transactions in the order of their numbers; `EntriesOfChain` and
`EntriesGrow` say that it is well defined and that a commit appends to it, which
needs no induction over it.

**OnchainMultisig_proofs**, for any finite set of owners, any runs, payloads and
thresholds. `HashInv` and `FreshInv` say that a hash names one transaction and that none
is known before it is sent; `PollInv` that a run polls the result of its own
operation; `PendingInv` and `VotesInv` that each yes, given or under way, is the
proposer's or that of an owner who voted on the number, and that of the owners who
did not vote only one is the proposer; `ApprovedInv` that who votes for a transfer
has seen it announced; `AnnouncedInv` and `ExecutedInv` tie the printed numbers and
the resolved ones to the queue. Proved are `TypeCorrect`, `Agreed`,
`GivenUpNeedsBlindVote` and `SuccessResolvesOwn`. The hard step is `Commit`: a vote
names only a number, so what it agrees to is what was announced under it, and that
is the payload in the queue; a proposal that was neither announced nor voted on
blindly falls short of two owners by the cardinality of its voters.

**MultisigAuth_proofs**, for up to 32 keys and lists of any length. `LoopInv` says
which digits the loop has put in before position `i`; `Digits` says that position
`x` of the node is digit `31 - x` of the script's integer, by dividing `x` by 8
with remainder. Proved are `TypeCorrect`, `PositionsCorrect` and
`AscendingAccepted`. For the last, the node pairs the n-th signature with the n-th
position: the rank of a position among the digits is its place in the list if
the list ascends, and a list that does not ascend has a signature at a position
of another key, or fewer digits than signatures.

**MnemonicStore_proofs**, for both formats with fields of any length. The layout
comes first: `FieldType`, `SliceAt` and `BlobSlices` say that the slices which load
takes are the fields which store put there. Then `IInv`: no file while a run
is between the existence check and `open` (`FileInv`), an empty one between `open`
and `write`, and otherwise the whole blob of a run with a key. Proved are
`TypeCorrect`, `StoredExactlyIfFits`, `UnreadableIsTornOrMisfit` and
`NoMnemonicLost`, for credentials of any lengths (`MisfitSlice`: one that is longer
or shorter than the cut is not what load takes for it), all with the hypothesis `MaxActive = 1`, that runs do not overlap. With two at a time they are
false, which the run `mnemonic_race` shows, so the hypothesis is needed.

**BlockScan_proofs**, for chains of any height and rounds. `RoundsInv` says that the
rounds grow along the chain, `WalkInv` that the walk has left behind blocks
without the target only, `CheckInv` that what `check_transaction.py` has read is still
so. Proved are `MissesExplained` and `TimeoutsCorrect`. `WalkInv` needs that a block,
once made, stays as it is, and that a target which is in a block is not put into
another.

**TxCodec_proofs**, for any contents, accounts and sequence numbers. A JSON value is
a set of leaves with paths; the lemmas on `Under` say that what is under a key is read
back from its paths. `payload_to_dict` is then compared with the JSON that the node
expects, class by class (`RawEntries`, `RawTreeJson`: both are `RawTree`), and
`RawInjective` says that no two transactions have the same JSON, so that the node
rebuilds exactly one. `Signed` compares the bytes: the script and the node serialize to
the same tokens. `SentIsPostable` tells what can be posted at all. With `IInv` (every
post is that of the transaction in hand, with the signature it is for; each hash is
that of its payload) they give `SubmittedSigned`, `SimulatedNotSubmittable`,
`ProposedIsExecuted`, `RaisesExplained` and `RoundTrip`.

The assumptions are those of the modules: there is a VM and a thread
(`PoolAssumption`); the server is a caller and senders are keys of the store
(`ServerAssumption`); each genesis writes the chain resource among the keys of the
store (`WriteSetAssumption`); there are polls and runs (`BoundsAssumption`), owners are
finitely many, a threshold is at most their number and what is voted on is a
number (`OwnersAssumption`); there are at most 32 keys (`KeysAssumption`); fields
have a length of at least one and load cuts one after the other
(`LengthAssumption`, which says nothing of how long a credential is); contents are what the scripts construct (`ContentsAssumption`), and
accounts have keys of their own (`AccountsAssumption`); the special values are none of
the others. What the external parts do (RocksDB, node, framework, cryptography) is
assumed as it is modelled.

Checked by TLC only: liveness (`EveryRequestAnswered`, `DetachedTasksFinish`,
`StopReleasesLock`, `EveryRunEnds`, `EveryScriptEnds`), which is beyond the prover,
and so far `TypeOK` and `ShortfallExplained` of `Funding`.

## 6. Where code and statements disagree

* **Tests share one database** (`genesis_tests`). `create_genesis` opens the
  hard-coded `./move_store.db` (`genesis.rs:74`). The tests in `genesis.rs` (117,
  156) and `main.rs` (53, 83) state that it succeeds, but `cargo test` runs those
  of one binary in parallel and the second one that opens the directory gets an
  error. Run one at a time they pass.
* **The check for an existing file can be passed twice** (`mnemonic_race`).
  `store_mnemonic` promises that an existing file is refused
  (`gen_mnemonic.py:11`), but it looks before the prompt and opens with `wb` after
  it. If both runs have the file open, the shorter blob is written over the
  longer one and neither mnemonic can be read.
* **Not every owner can propose** (`multisig_owners`). The repository's README
  says that one owner account can propose (line 32), and the script asks for its
  number, but `propose_multisig_tx.py:63` derives the multisig address from the
  proposer's address and the number 1. Only account 0 gets the address of the
  account it created, and only if it did so in its transaction number 1.

Behaviour that the models exhibit and no document speaks about:
`store_mnemonic_fido2` writes the credential id as long as the device made it
(`gen_mnemonic_fido2.py:87`) and says that the mnemonic is stored (line 88), but
`load_mnemonic_fido2` takes the first 57 bytes for it (line 95), so that with a
device whose credentials have another length - line 138 prints it - the mnemonic is
lost from the start, which is the other half of `StoredIfFits`; a VM lost to a
panic keeps being drawn, so its share of the requests gets a 500 for ever; a
genesis is overlaid on whatever an earlier run left in the database; two
terminals that build the same transfer in the same second both report the one
transaction; times are printed for a transfer that failed or ran out of gas as for
one that paid, and the loop goes on; an execution whose payload fails is a success
for `execute_multisig_tx.py`, and its proposal is gone; a vote counts for whatever
gets its number later; a proposal that was given up and proposed anew is paid
twice if the threshold is one or its number is voted on all the same;
a mnemonic script that dies while writing leaves an empty file that has to be
removed by hand; the votes that `execute_multisig_tx.py` displays may be those of
another proposal than the one it executes; `execute_multisig_tx.py` always sends
from account 0, whichever owner runs it; a list of signatures that is not in
ascending order passes the assertion of `multisig_auth.py` and is refused;
the funding scripts add units of gas to quants, so a balance between
`amount + max_gas` and `amount + max_gas * gas_unit_price` is left alone and the
transfer fails, and `propose_multisig_tx.py` funds the multisig account but pays
for the proposal from the owner's; `scan_blocks.py` starts at a fixed height, not
at that of its start transaction, so it can miss what lies in the range it
prints; a node started over another one's database accepts the accounts that
were left there; a `Script` payload and a call with type arguments can be signed
but have no JSON.

## 7. Plan

All modules of the plan exist, and all invariants of the runs are proved except
those of `Funding`. What is left:

1. `Funding`: `ShortfallExplained`, which needs that a grant is recorded once and
   that what was read of a balance is still covered by what was spent since.
2. `OnchainMultisig`: an abstract `Escrow` (owners ask for a transfer, enough of
   them agree, it is run once per proposal) refined by it. `AgreedByThreshold` and
   `UnannouncedExplained` are the invariants which that refinement rests on.
3. `MnemonicStore`: what still holds when runs overlap, and under which order of
   their steps.

Not modelled: the Move executor, which nothing calls; the benches' measuring
loops, which keep no state; BIP-44, Scrypt, AES-GCM and the dialogue with a
FIDO2 device, which are libraries; the content of the genesis change set and of
account resources, which is data; `check_block.py` and `view_multisig_tx.py` as
programs, which query and print; requests that hang, as the scripts set no
timeout and nothing happens then; database reads that fail; the blocking of the queue by a head that was
rejected, which the framework promises and nothing here resolves; a FIDO2 file
given to `derive_keys.py`, which cuts at the offsets of the other format and
which no script is edited to do.

## 8. Running

    tlc -workers 2 -config RpcServer.cfg RpcServer
    tlc -workers 2 -config RpcNode.cfg MCRpcNode
    tlc -workers 2 -config TxClient.cfg TxClient
    tlapm RpcServer_proofs.tla
    tlapm RpcNode_proofs.tla
    tlapm TxClient_proofs.tla

and so on for the other `_proofs` modules; `TxCodec_proofs` takes a few minutes.

`PROJECT.json` lists every run with its module and configuration, the theorems,
the mutants, and for each definition the lines it models.
