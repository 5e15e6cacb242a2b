\* Timed waits under a weakly fair tick: sleeps, suspension and timed locks of a mutex created by krhino_mutex_dyn_create, which tasks delete (krhino_mutex_dyn_del) and create again (no SYMMETRY or VIEW, which liveness checking does not allow).
CONSTANTS
  t1 = t1  t2 = t2  t3 = t3  m1 = m1  m2 = m2  s1 = s1  q1 = q1  ma = ma
  Idle = Idle  NULL = NULL  WAIT_FOREVER = WAIT_FOREVER
  Task <- MCTask
  Mutex = {m1}
  Sem = {}
  Queue = {}
  QSize = 2
  Msg = {ma}
  InitPrio <- MCInitPrio
  PRI_MAX = 4
  TIME_SLICE = 2
  SCHED_RR = FALSE
  MaxTicks = 1
  SCHED_MAX_LOCK_COUNT = 1
  MaxNested = 2
  MaxSuspend = 2
  MaxSemCount = 1
  PriChoices = {}
  SliceChoices = {1}
  DelDeletedTask = FALSE
  DynTask = {}
  DynObj = {m1}
  Ops = {"sleep", "suspend", "mutex_dyn_del", "create"}
SPECIFICATION FairSpec
\* the kernel halts for good after k_err_proc (mutex nesting overflow)
CHECK_DEADLOCK FALSE
PROPERTIES
  TimedWaitEnds
