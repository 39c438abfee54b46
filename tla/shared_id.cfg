SPECIFICATION Spec
SYMMETRY Symmetry
CONSTANTS
  Operations = {o1, o2}
  PaymentIds = {p1}
  None = None
  MaxAttempt = 1
  PendingWorkers = {pending}
  RunningWorkers = {running}
  RetryWorkers = {retry}
  ConsistentProvider = FALSE
  TextSizes = {"fits"}
  MaxCrashes = 0
  MaxDbErrors = 0
  MaxEvents = 3
INVARIANTS
  JobFollowsStatus
  DeliveredHasPaymentId
PROPERTIES
  NothingIsUndone
