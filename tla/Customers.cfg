\* One customer next to the licensing key: events in order and in any order,
\* repeated; two of the pages opened and the calls made.
SPECIFICATION CustomersFairSpec
CONSTANTS
  None = None
  Sessions = {s1}
  Secrets = {k1, k2}
  Visits = {v1, v2}
  MaxEvents = 3
  Pages = {p1, p2}
  Licensed = licensed
  Email <- MCEmail
  Monitors = {m1}
  MaxCalls = 2
  MaxInputs = 4
CHECK_DEADLOCK FALSE
INVARIANTS
  CustomersTypeOK
  ShownSecretWorks
  ShownMeansCleared
  AccessFollowsSubscription
  DeleteAnswersTell
  LeaverIsNotServed
PROPERTIES
  PaidGetsKey
  SecretStaysOnScreen
  LoadingEnds
