SPECIFICATION Spec
SYMMETRY Symmetry
CONSTANTS
  Operations = {o1, o2, o3}
  None = None
  BaseDelay = 1
  MaxDelay = 2
  MaxAttempt = 2
  PollInterval = 1
  MaxCall = 1
  MaxLost = 1
  Horizon = 2
INVARIANTS
  TypeOK
  FirstCallInTime
  RetryInTime
PROPERTIES
  ImplementsJobs
