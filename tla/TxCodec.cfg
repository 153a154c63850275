CONSTANTS
  Accounts = {"0xa1", "0xb2"}
  Shared = "0xad"
  RandomKey = "random"
  Contents <- MCContents
  SeqNums = {0, 1}
  NoTx = NoTx
SPECIFICATION Spec
INVARIANTS SubmittedIsSigned SimulatedIsNotSubmittable ExecutesWhatWasProposed PayloadRoundTrip RaisedExplained
CHECK_DEADLOCK FALSE
