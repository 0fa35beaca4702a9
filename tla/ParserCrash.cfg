\* One invocation at a time; one is killed between the commit and the publish.
SPECIFICATION Spec
CONSTANTS
  None = None
  Unreadable = Unreadable
  Domains = {d1}
  Signals = {x, y}
  FirstSignals = {x}
  Workers = {w1}
  Pools = {{w1}}
  VisibilityTimeout = 60
  LambdaTimeout = 60
  BatchSize = 1
  Faults = {}
  MaxCrawls = 2
CHECK_DEADLOCK FALSE
INVARIANT FeedReflectsRows
