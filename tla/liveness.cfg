SPECIFICATION FairSpec

CONSTANTS
  Operations = {o1, o2}
  PaymentIds = {p1, p2}
  None = None
  MaxAttempt = 2
  PendingWorkers = {pending}
  RunningWorkers = {running}
  RetryWorkers = {retry}
  ConsistentProvider = TRUE
  TextSizes = {"fits"}
  MaxCrashes = 1
  MaxDbErrors = 0
  MaxEvents = 3
PROPERTIES
  SubmittedIsDelivered
  SubmittedIsSettled
