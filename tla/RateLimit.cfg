\* LambdaTimeout = Window, the latest an ADD may be (deployed: 30 s against
\* windows of 60 s and 600 s); the clock covers three windows and an expiry.
SPECIFICATION Spec
CONSTANTS
  None = None
  ip = ip
  key = key
  Subjects <- MCSubjects
  Requests = {r1, r2, r3}
  Limit <- MCLimit
  Window = 2
  LambdaTimeout = 2
  MaxAttempts = 2
  MaxTime = 6
SYMMETRY MCSymmetry
CHECK_DEADLOCK FALSE
INVARIANTS
  TypeOK
  NeverOverLimit
  RejectionsJustified
  UsageNeverOverstated
