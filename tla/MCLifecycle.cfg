\* Deleting tasks and mutexes under round robin: one mutex, three tasks (two at one priority) that also sleep, suspend, yield, lock the scheduler, change their slice and policy, and create the deleted mutex again.
CONSTANTS
  t1 = t1  t2 = t2  t3 = t3  m1 = m1  m2 = m2  s1 = s1  q1 = q1  ma = ma
  Idle = Idle  NULL = NULL  WAIT_FOREVER = WAIT_FOREVER
  Task <- MCTask
  Mutex = {m1}
  Sem = {}
  Queue = {}
  QSize = 2
  Msg = {ma}
  InitPrio <- MCInitPrio
  PRI_MAX = 4
  TIME_SLICE = 2
  SCHED_RR = TRUE
  MaxTicks = 1
  SCHED_MAX_LOCK_COUNT = 1
  MaxNested = 2
  MaxSuspend = 2
  MaxSemCount = 1
  PriChoices = {}
  SliceChoices = {0}
  DelDeletedTask = FALSE
  DynTask = {t2, t3}
  DynObj = {}
  Ops = {"sleep", "suspend", "task_del", "task_dyn_del", "deathbed", "mutex_del", "sched_disable", "yield", "time_slice_set", "sched_policy_set", "create"}
SPECIFICATION Spec
SYMMETRY MCSymmetry
VIEW MCView
\* the kernel halts for good after k_err_proc (mutex nesting overflow)
CHECK_DEADLOCK FALSE
INVARIANTS
  TypeOK
  ReadyQueueIntegrity
  MutexChainIntegrity
  PriorityExact
  SchedulerPreemption
  ResListUnreferenced
PROPERTIES
  MutexSpecRefined
