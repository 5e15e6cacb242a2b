\* Semaphores and a one-slot message queue beside a mutex: gives and sends from tasks or interrupts, count set, flush, delete and re-create, timed and forever waits, suspension, and priority drops (krhino_task_pri_change) of holders and waiters.
CONSTANTS
  t1 = t1  t2 = t2  t3 = t3  m1 = m1  m2 = m2  s1 = s1  q1 = q1  ma = ma
  Idle = Idle  NULL = NULL  WAIT_FOREVER = WAIT_FOREVER
  Task <- MCTask
  Mutex = {m1}
  Sem = {s1}
  Queue = {q1}
  QSize = 1
  Msg = {ma}
  InitPrio <- MCInitPrio
  PRI_MAX = 4
  TIME_SLICE = 2
  SCHED_RR = FALSE
  MaxTicks = 1
  SCHED_MAX_LOCK_COUNT = 1
  MaxNested = 2
  MaxSuspend = 2
  MaxSemCount = 1
  PriChoices = {2}
  SliceChoices = {1}
  DelDeletedTask = FALSE
  DynTask = {}
  DynObj = {}
  Ops = {"suspend", "pri_change", "sem_give_all", "sem_count_set", "sem_del", "queue_all_send", "queue_flush", "queue_del", "create"}
SPECIFICATION Spec
SYMMETRY MCSymmetry
VIEW MCView
\* the kernel halts for good after k_err_proc (mutex nesting overflow)
CHECK_DEADLOCK FALSE
INVARIANTS
  TypeOK
  SemCountExclusive
  PendListIntegrity
  PriorityExact
  QueueCountExclusive
  QueueBufferConsistent
PROPERTIES
  MutexSpecRefined
