CONSTANTS
  s1 = s1
  s2 = s2
  s3 = s3
  c1 = c1
  c2 = c2
  Sock = {s1}
  Act = {c1}
  MsChoices = {0, 1}
  MaxReaders = 1
  MaxTimeouts = 2
  MaxTime = 2
  MaxCbCalls = 1
  ForeignAct = {c2}
  ForeignApis = {"post", "exit"}
  CbApis = {"poll_read", "post", "cancel_delayed", "exit"}
SPECIFICATION FairSpec
INVARIANTS TypeOK TimeoutsSorted
PROPERTIES DueActionRuns
