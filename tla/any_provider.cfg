SPECIFICATION Spec
SYMMETRY Symmetry
CONSTANTS
  Operations = {o1}
  PaymentIds = {p1, p2}
  None = None
  MaxAttempt = 2
  PendingWorkers = {pending}
  RunningWorkers = {running}
  RetryWorkers = {retry}
  ConsistentProvider = FALSE
  TextSizes = {"fits", "too_long"}
  MaxCrashes = 1
  MaxDbErrors = 0
  MaxEvents = 4
INVARIANTS
  JobFollowsStatus
  DeliveredHasPaymentId
  HistoryMatchesStatus
  FinalOnlyByReceipt
PROPERTIES
  NothingIsUndone
