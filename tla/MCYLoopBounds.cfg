CONSTANTS
  s1 = s1
  s2 = s2
  s3 = s3
  c1 = c1
  c2 = c2
  Sock = {s1, s2, s3}
  Act = {c1}
  MsChoices = {0, 1}
  MaxReaders = 3
  MaxTimeouts = 2
  MaxTime = 2
  MaxCbCalls = 2
  ForeignAct = {}
  ForeignApis = {}
  CbApis = {"poll_read", "cancel_read", "post", "cancel_delayed", "exit"}
SPECIFICATION Spec
VIEW YLoopView
SYMMETRY SockSym
INVARIANT DispatchInBounds
