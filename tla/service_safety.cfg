SPECIFICATION Spec
SYMMETRY Symmetry
CONSTANTS
  Operations = {o1, o2}
  PaymentIds = {p1, p2}
  None = None
  MaxAttempt = 2
  PendingWorkers = {pending}
  RunningWorkers = {running}
  RetryWorkers = {retry}
  ConsistentProvider = TRUE
  TextSizes = {"fits"}
  MaxCrashes = 1
  MaxDbErrors = 1
  MaxEvents = 4
INVARIANTS
  TypeOK
  JobFollowsStatus
  DeliveredHasPaymentId
  RetryMetadata
  HistoryMatchesStatus
  HistoryFollowsTable
  FinalOnlyByReceipt
  IntentBeforeSend
  OneCallPerOperation
  OnePaymentPerOperation
  StoredIdIsProviders
PROPERTIES
  NothingIsUndone
  RetryOnlyWhenDue
  LateRequestsRepeat
  ImplementsLifecycle
  ImplementsJobs
