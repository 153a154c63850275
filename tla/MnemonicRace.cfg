CONSTANTS
  u1 = u1
  u2 = u2
  u3 = u3
  d1 = d1
  d2 = d2
  d3 = d3
  d4 = d4
  Runs = {u1, u2, u3}
  Passwords = {"a", "b"}
  Headers <- Formats
  Devices = {d1, d2, d3, d4}
  IdLen <- MCIdLen
  CipherLen <- MCCipherLen
  MaxActive = 2
  NoFile = NoFile
  NoKey = NoKey
  NoDevice = NoDevice
SPECIFICATION Spec
PROPERTY NothingLost
CHECK_DEADLOCK FALSE
