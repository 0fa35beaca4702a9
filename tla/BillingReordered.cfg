\* Events in any order.
SPECIFICATION Spec
CONSTANTS
  None = None
  Sessions = {s1}
  Secrets = {k1, k2, k3}
  Visits = {v1}
  MaxEvents = 3
CHECK_DEADLOCK FALSE
INVARIANT CanceledKeyInactive
