CONSTANTS
  Requests = {r1, r2, r3}
  VMs = {v1, v2}
  MaxBlocking = 2
  Valid = {r1, r2}
  NoVM = NoVM
  NoRequest = NoRequest
SPECIFICATION Spec
INVARIANTS TypeOK VmExclusive NoStuckPool OnePanicPerVm AnswersJustified
PROPERTIES ImplementsService EveryRequestAnswered DetachedTasksFinish
CHECK_DEADLOCK FALSE
