CONSTANTS
  server = server
  test = test
  chain = chain
  validators = validators
  alice = alice
  Procs = {server, test}
  Keys = {chain, validators, alice}
  WriteSet <- MCWriteSet
  ChainKey = chain
  Deleted = Deleted
  NoProc = NoProc
  MaxRuns = 3
SPECIFICATION Spec
INVARIANT GenesisSucceeds
CHECK_DEADLOCK FALSE
