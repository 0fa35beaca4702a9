\* One domain's crawls over two seconds, with a change of the site, aborted
\* crawls, late and repeated parsing, and more crawls than one listing holds.
SPECIFICATION Spec
CONSTANTS
  None = None
  Absent = Absent
  Kids = {"k", "l", "nul"}
  Capabilities = {"empty", "some", "float", "nan"}
  Jsonb <- MCJsonb
  Empty = "empty"
  Unstorable = {"nul", "nan"}
  Datetimes = {0, 1, 2, 3}
  Sites <- MCSites
  Updates <- MCUpdates
  LlmsEnabled = TRUE
  ListCap = 2
  Limits = {1, 2, 3}
  MaxTime = 4
  MaxCrawls = 3
CHECK_DEADLOCK FALSE
INVARIANTS
  TypeOK
  FlagsTellTheRecord
  ValidMeansLiveKey
  
  SnapshotMatchesRow
  HistoryNewestFirst
