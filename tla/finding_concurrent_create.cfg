SPECIFICATION TxSpec
SYMMETRY Symmetry
CONSTANTS
  Operations = {o1}
  PaymentIds = {p1, p2}
  None = None
  MaxAttempt = 2
  Tx = {t1, t2, t3}
INVARIANT
  CreateConflictIs409
