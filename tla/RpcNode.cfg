CONSTANTS
  server = server
  test = test
  chain = chain
  validators = validators
  alice = alice
  r1 = r1
  r2 = r2
  Procs = {server, test}
  Keys = {chain, validators, alice}
  WriteSet <- MCWriteSet
  ChainKey = chain
  Deleted = Deleted
  NoProc = NoProc
  MaxRuns = 2
  Server = server
  Requests = {r1, r2}
  Sender <- MCSender
  VMs = {v1, v2}
  MaxBlocking = 1
  NoVM = NoVM
  NoRequest = NoRequest
SPECIFICATION NodeSpec
INVARIANTS TypeOK LockFollowsHandle ServesOwnGenesis NoTornGenesis ValidatesUnderLock AnswersHold
PROPERTY StopReleasesLock
CHECK_DEADLOCK FALSE
