CONSTANTS
  Runs = {r1, r2, r3, r4}
  MaxActive = 2
  Owners = {alice, bob}
  Creator = alice
  Payloads = {transfer, other}
  Numbers = {1, 2}
  Thresholds = {1, 2}
  NoRun = NoRun
  Unseen = Unseen
SPECIFICATION Spec
SYMMETRY Symmetry
INVARIANTS OwnersCanPropose
CHECK_DEADLOCK FALSE
