CONSTANTS
  Runs = {r1, r2, r3, r4}
  MaxActive = 1
  Owners = {alice, bob}
  Creator = alice
  Payloads = {transfer, other}
  Numbers = {1, 2}
  Thresholds = {2}
  NoRun = NoRun
  Unseen = Unseen
SPECIFICATION Spec
SYMMETRY Symmetry
INVARIANTS TypeOK AgreedByThreshold UnannouncedExplained SuccessMeansResolved
CHECK_DEADLOCK FALSE
