CONSTANTS
  Runs = {r1, r2}
  Balances <- MCBalances
  Gas = {10, 1020}
  Grant = 500000000
  Watches = 2
  NoAccount <- MCNoAccount
SPECIFICATION Spec
PROPERTIES ShortfallExplained EveryScriptEnds
CHECK_DEADLOCK FALSE
