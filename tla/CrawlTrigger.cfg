\* The deployed order of the times: LambdaTimeout < TTL < TriggerWindow.
\* The clock outlives a marker twice over, and one trigger window.
SPECIFICATION Spec
CONSTANTS
  None = None
  Domains = {site, page}
  NotBare = {page}
  IPs = {ip1, ip2}
  Requests = {r1, r2, r3}
  Second = 2
  TTL = 2
  TriggerLimit = 1
  TriggerWindow = 4
  LambdaTimeout = 1
  Unanswered = {"acquire", "release", "enqueue"}
  MaxTime = 5
SYMMETRY MCSymmetry
CHECK_DEADLOCK FALSE
INVARIANTS
  TypeOK
  OneWinner
  DuplicatesSuppressed
PROPERTY OnlyTheWinnerPays
