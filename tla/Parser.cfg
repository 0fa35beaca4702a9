\* One invocation at a time, or two that overlap (the deployed 30 s < 60 s),
\* failures and a kill.
SPECIFICATION FairSpec
CONSTANTS
  None = None
  Unreadable = Unreadable
  Domains = {d1}
  Signals = {x, y}
  FirstSignals = {x}
  Workers = {w1, w2}
  Pools = {{w1}, {w1, w2}}
  VisibilityTimeout = 30
  LambdaTimeout = 60
  BatchSize = 2
  Faults = {"artifact", "statement", "publish"}
  MaxCrawls = 2
CHECK_DEADLOCK FALSE
INVARIANTS
  TypeOK
  ReportedChangeIsReal
  NothingDroppedUnseen
PROPERTIES
  FirstSeenStable
  FeedRefined
  EventuallyHandled
