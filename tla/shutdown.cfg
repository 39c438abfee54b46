SPECIFICATION FairProcessSpec
CONSTANTS
  Operations = {o1, o2}
  PaymentIds = {p1}
  None = None
  MaxAttempt = 2
  PendingWorkers = {pending}
  RunningWorkers = {running}
  RetryWorkers = {retry}
  ConsistentProvider = TRUE
  TextSizes = {"fits"}
  MaxCrashes = 2
  MaxDbErrors = 1
  MaxEvents = 3
INVARIANTS
  LifespanTypeOK
  StopIsOrderly
PROPERTIES
  StopEnds
