SPECIFICATION ApiSpec
SYMMETRY Symmetry
CONSTANTS
  Operations = {o1}
  PaymentIds = {p1, p2}
  None = None
  MaxAttempt = 2
  Tx = {t1, t2, t3}
  Coefficients = {0, 15}
  MaxScale = 3
  MaxExponent = 0
  Precision = 3
INVARIANTS
  TypeOK
  SubmitCreatesOnce
  LockedNeverFails
  AmountIsKept
  CreatedOnceForAll
  HistoryExplainsAnswers
PROPERTY
  CommitsAreBodies
