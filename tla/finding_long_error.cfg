SPECIFICATION Spec

CONSTANTS
  Operations = {o1}
  PaymentIds = {p1}
  None = None
  MaxAttempt = 2
  PendingWorkers = {pending}
  RunningWorkers = {running}
  RetryWorkers = {retry}
  ConsistentProvider = TRUE
  TextSizes = {"fits", "too_long"}
  MaxCrashes = 0
  MaxDbErrors = 0
  MaxEvents = 4
PROPERTY
  FailedAttemptSchedulesRetry
