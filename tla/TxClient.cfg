CONSTANTS
  Clients = {alice, bob}
  Repeat = 2
  MaxPolls = 1
  Expiry = 0
  MaxRuns = 2
  MaxTime = 1
  NoTx = NoTx
SPECIFICATION Spec
INVARIANTS TypeOK NeverAhead OutOfGasExplained
PROPERTIES ImplementsLedger EveryRunEnds
CHECK_DEADLOCK FALSE
