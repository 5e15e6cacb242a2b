-------------------------------- MODULE KCore --------------------------------
(***************************************************************************)
(* Shared state of the single-CPU Rhino kernel and the internal routines  *)
(* every kernel API is built from: the ready queue (k_sched.c), the pend   *)
(* and tick lists (k_pend.c / k_tick.c, not in the source tree: modelled  *)
(* from the spec), and the priority-inheritance helpers of k_mutex.c and  *)
(* k_task.c.                                                               *)
(*                                                                         *)
(* Every routine is a state transformer: it takes the whole kernel state  *)
(* k (a record with one field per variable) and returns the new one, so a *)
(* C function that calls several others is the composition of their      *)
(* operators, and a loop is a RECURSIVE operator.  An API action computes *)
(* the new state from K and Commits it.  Everything runs with interrupts  *)
(* disabled on one CPU, so one API call is one atomic step.                *)
(***************************************************************************)
EXTENDS Integers, Sequences, FiniteSets, SequencesExt

CONSTANTS
  Task,          \* application tasks (model values)
  Idle,          \* the idle task of the CPU
  Mutex,         \* mutex objects
  Sem,           \* semaphore objects
  NULL,
  WAIT_FOREVER,  \* RHINO_WAIT_FOREVER
  PRI_MAX,       \* RHINO_CONFIG_PRI_MAX
  InitPrio,      \* [Task -> priority] given at krhino_task_create
  TIME_SLICE,    \* RHINO_CONFIG_TIME_SLICE_DEFAULT (time_total of every task)
  SCHED_RR,      \* RHINO_CONFIG_SCHED_RR > 0
  MaxTicks,      \* bound on the ticks argument of a timed wait
  SCHED_MAX_LOCK_COUNT,
  MaxNested,     \* (mutex_nested_t)-1, the owner_nested overflow value
  MaxSemCount,   \* (sem_count_t)-1, the semaphore overflow value
  Queue,         \* message queue objects
  QSize,         \* msg_q.size, the capacity of every queue
  Msg,           \* the messages (opaque pointers) tasks send
  DynObj         \* mutexes of krhino_mutex_dyn_create (mm_alloc_flag
                 \* K_OBJ_DYN_ALLOC); the others are K_OBJ_STATIC_ALLOC

AllTask  == Task \cup {Idle}

\* g_tick_count is only ever incremented and read by no modelled code: its
\* parity is enough to make every tick a visible step
TICK_COUNT_MOD == 2
Obj      == Mutex \cup Sem \cup Queue
Prio     == 0..(PRI_MAX - 1)
IDLE_PRI == PRI_MAX - 1

ASSUME /\ Idle \notin Task /\ Mutex \cap Sem = {} /\ Queue \cap (Mutex \cup Sem) = {}
       /\ QSize \in Nat \ {0} /\ DynObj \subseteq Mutex
       /\ InitPrio \in [Task -> 0..(IDLE_PRI - 1)]
       /\ TIME_SLICE \in Nat \ {0} /\ SCHED_RR \in BOOLEAN
       /\ MaxTicks \in Nat \ {0} /\ MaxNested \in Nat \ {0}

\* task_state values (K_RDY, K_PEND, ... of k_task.h)
RDY        == "RDY"
PEND       == "PEND"
SLEEP      == "SLEEP"
SUSPENDED  == "SUSPENDED"
PEND_SUSP  == "PEND_SUSPENDED"
SLEEP_SUSP == "SLEEP_SUSPENDED"
DELETED    == "DELETED"
TaskState  == {RDY, PEND, SLEEP, SUSPENDED, PEND_SUSP, SLEEP_SUSP, DELETED}

(* blk_state, the reason pend_state_end_proc reports to the woken task,  *)
(* is only a return value: it is left out.                                 *)

\* obj_type tags of block objects
ObjType == {"MUTEX", "SEM", "QUEUE", "NONE"}

VARIABLES
  tcb,         \* [AllTask -> task control block record]
  mtx,         \* [Mutex -> [mutex_task, mutex_list, owner_nested]]
  sem_count,   \* [Sem -> Nat], ksem_t.count
  msgq,        \* [Queue -> [cur_num, ring]], msg_q.cur_num and the ringbuf
  blk,         \* [Obj -> Seq(AllTask)], blk_obj.blk_list (pend list)
  obj_type,    \* [Obj -> ObjType], blk_obj.obj_type
  rq,          \* g_ready_queue: [list, bitmap, highest]
  tick_list,   \* g_tick_head: tasks sorted by remaining ticks
  active,      \* g_active_task[0]
  sched_lock,  \* g_sched_lock[0]
  fatal,       \* "NONE", or the code k_err_proc halted the kernel with
  tick_count,  \* g_tick_count, modulo TICK_COUNT_MOD
  res_list     \* g_res_list: TCBs krhino_task_dyn_del handed over to be freed

vars == <<tcb, mtx, sem_count, msgq, blk, obj_type, rq, tick_list, active,
          sched_lock, fatal, tick_count, res_list>>

K == [tcb |-> tcb, mtx |-> mtx, sem_count |-> sem_count, msgq |-> msgq, blk |-> blk,
      obj_type |-> obj_type, rq |-> rq, tick_list |-> tick_list,
      active |-> active, sched_lock |-> sched_lock, fatal |-> fatal,
      tick_count |-> tick_count, res_list |-> res_list]

Commit(k) ==
  /\ tcb' = k.tcb /\ mtx' = k.mtx /\ sem_count' = k.sem_count /\ msgq' = k.msgq
  /\ blk' = k.blk /\ obj_type' = k.obj_type /\ rq' = k.rq
  /\ tick_list' = k.tick_list /\ active' = k.active
  /\ sched_lock' = k.sched_lock /\ fatal' = k.fatal /\ tick_count' = k.tick_count
  /\ res_list' = k.res_list

\* k_err_proc(code): the fatal hook halts the kernel
ErrProc(k, code) == [k EXCEPT !.fatal = code]

\* an impossible internal state: a NULL dereference, an empty ready queue,
\* a corrupted list the C loop would never leave
Fatal(k) == ErrProc(k, "SYS_FATAL")

Halted(k) == k.fatal # "NONE"

SetPrio(k, t, p) == [k EXCEPT !.tcb[t].prio = p]

-----------------------------------------------------------------------------
(* Ready queue, k_sched.c.  cur_list_item[p] is the head of list[p]; a    *)
(* circular klist rotated by one is Tail \o <<Head>>.                      *)

\* mutant: a list that becomes non-empty never lowers highest_pri
ReadyListInitKeepHighest(k, t) ==
  LET p == k.tcb[t].prio IN
  [k EXCEPT !.rq.list[p] = <<t>>, !.rq.bitmap = @ \cup {p}]

ReadyListInit(k, t) ==
  LET p == k.tcb[t].prio IN
  [k EXCEPT !.rq.list[p] = <<t>>,
            !.rq.bitmap  = @ \cup {p},
            !.rq.highest = IF p < @ THEN p ELSE @]

ReadyListAddTail(k, t) ==
  LET p == k.tcb[t].prio IN
  IF k.rq.list[p] = <<>> THEN ReadyListInit(k, t)
  ELSE [k EXCEPT !.rq.list[p] = Append(@, t)]

ReadyListAddHead(k, t) ==
  LET p == k.tcb[t].prio IN
  IF k.rq.list[p] = <<>> THEN ReadyListInit(k, t)
  ELSE [k EXCEPT !.rq.list[p] = <<t>> \o @]

\* ready_list_add: same priority as the running task goes to the tail
ReadyListAdd(k, t) ==
  IF k.tcb[t].prio = k.tcb[k.active].prio THEN ReadyListAddTail(k, t)
  ELSE ReadyListAddHead(k, t)

\* mutant: emptying a list never recomputes highest_pri
ReadyListRmKeepHighest(k, t) ==
  LET p == k.tcb[t].prio IN
  IF Len(k.rq.list[p]) > 1 THEN [k EXCEPT !.rq.list[p] = Remove(@, t)]
  ELSE [k EXCEPT !.rq.list[p] = <<>>, !.rq.bitmap = @ \ {p}]

ReadyListRm(k, t) ==
  LET p == k.tcb[t].prio
      b == k.rq.bitmap \ {p}
  IN IF Len(k.rq.list[p]) > 1 THEN [k EXCEPT !.rq.list[p] = Remove(@, t)]
     ELSE IF p # k.rq.highest
          THEN [k EXCEPT !.rq.list[p] = <<>>, !.rq.bitmap = b]
     ELSE IF b = {}
          THEN Fatal([k EXCEPT !.rq.list[p] = <<>>, !.rq.bitmap = b])
     ELSE [k EXCEPT !.rq.list[p] = <<>>, !.rq.bitmap = b, !.rq.highest = Min(b)]

ReadyListHeadToTail(k, t) ==
  LET p == k.tcb[t].prio IN
  IF k.rq.list[p] = <<>> THEN Fatal(k)   \* NULL->next
  ELSE [k EXCEPT !.rq.list[p] = Append(Tail(@), Head(@))]

\* preferred_cpu_ready_task_get, single CPU
PreferredReadyTask(k) == Head(k.rq.list[k.rq.highest])

(* core_sched at task level (g_intrpt_nested_level = 0); an empty list at *)
(* highest_pri makes krhino_list_entry of NULL a garbage task.             *)
CoreSched(k) ==
  IF k.sched_lock > 0 THEN k
  ELSE IF k.rq.list[k.rq.highest] = <<>> THEN Fatal(k)
  ELSE [k EXCEPT !.active = PreferredReadyTask(k)]

-----------------------------------------------------------------------------
(* Tick list and pend lists, k_tick.c / k_pend.c (modelled from the spec: *)
(* a list sorted by wake tick; pend lists in priority order, equal         *)
(* priorities FIFO).                                                       *)

TickListInsert(k, t, ticks) ==
  LET k1 == [k EXCEPT !.tcb[t].tick_remain = ticks]
      i  == SelectInSeq(k.tick_list, LAMBDA u : k.tcb[u].tick_remain > ticks)
  IN [k1 EXCEPT !.tick_list = IF i = 0 THEN Append(@, t) ELSE InsertAt(@, i, t)]

TickListRm(k, t) == [k EXCEPT !.tick_list = Remove(@, t)]

\* mutant: the pend list is kept FIFO (BLK_POLICY_FIFO)
PendListAddFifo(k, o, t) == [k EXCEPT !.blk[o] = Append(@, t)]

PendListAdd(k, o, t) ==
  LET i == SelectInSeq(k.blk[o], LAMBDA u : k.tcb[u].prio > k.tcb[t].prio) IN
  [k EXCEPT !.blk[o] = IF i = 0 THEN Append(@, t) ELSE InsertAt(@, i, t)]

\* klist_rm(&task->task_list) of a task on the pend list of its blk_obj
PendListRm(k, t) ==
  LET o == k.tcb[t].blk_obj IN [k EXCEPT !.blk[o] = Remove(@, t)]

\* mutant: pend_list_reorder leaves the task where it is
PendListReorderNone(k, t) == k

PendListReorder(k, t) == PendListAdd(PendListRm(k, t), k.tcb[t].blk_obj, t)

PendToBlkObj(k, o, t, ticks) ==
  LET k1 == [k EXCEPT !.tcb[t].blk_obj = o]
      k2 == IF ticks # WAIT_FOREVER THEN TickListInsert(k1, t, ticks) ELSE k1
      k3 == ReadyListRm([k2 EXCEPT !.tcb[t].state = PEND], t)
  IN PendListAdd(k3, o, t)

\* pend_task_wakeup (reason FINISH) and pend_task_rm (reason DEL)
\* mutant: the woken task is left on the tick list
PendEndKeepTick(k, t) ==
  LET k1 == CASE k.tcb[t].state = PEND ->
                   [ReadyListAdd(PendListRm(k, t), t) EXCEPT !.tcb[t].state = RDY]
              [] k.tcb[t].state = PEND_SUSP ->
                   [PendListRm(k, t) EXCEPT !.tcb[t].state = SUSPENDED]
              [] OTHER -> Fatal(k)
  IN [k1 EXCEPT !.tcb[t].blk_obj = NULL]

PendEnd(k, t) ==
  LET k1 == CASE k.tcb[t].state = PEND ->
                   [ReadyListAdd(PendListRm(k, t), t) EXCEPT !.tcb[t].state = RDY]
              [] k.tcb[t].state = PEND_SUSP ->
                   [PendListRm(k, t) EXCEPT !.tcb[t].state = SUSPENDED]
              [] OTHER -> Fatal(k)
  IN [TickListRm(k1, t) EXCEPT !.tcb[t].blk_obj = NULL]

PendTaskWakeup(k, t) == PendEnd(k, t)
PendTaskRm(k, t)     == PendEnd(k, t)

RECURSIVE PendTaskRmAll(_, _)
PendTaskRmAll(k, o) ==
  IF k.blk[o] = <<>> \/ Halted(k) THEN k ELSE PendTaskRmAll(PendTaskRm(k, Head(k.blk[o])), o)

RECURSIVE PendTaskWakeupAll(_, _)
PendTaskWakeupAll(k, o) ==
  IF k.blk[o] = <<>> \/ Halted(k) THEN k
  ELSE PendTaskWakeupAll(PendTaskWakeup(k, Head(k.blk[o])), o)

-----------------------------------------------------------------------------
(* The owned-mutex chain.  task->mutex_list heads an intrusive singly      *)
(* linked stack through mutex->mutex_list; a link location is the task    *)
(* field or a mutex field, so the unlink in mutex_pri_look ( *prev = ... )  *)
(* is modelled on the links themselves.                                    *)

ChainFuel == Cardinality(Mutex) + 1

Deref(k, loc) ==
  IF loc[1] = "task" THEN k.tcb[loc[2]].mutex_list ELSE k.mtx[loc[2]].mutex_list

SetLink(k, loc, v) ==
  IF loc[1] = "task" THEN [k EXCEPT !.tcb[loc[2]].mutex_list = v]
  ELSE [k EXCEPT !.mtx[loc[2]].mutex_list = v]

\* the mutexes reached from task t, in list order
RECURSIVE ChainFrom(_, _, _)
ChainFrom(k, m, fuel) ==
  IF m = NULL \/ fuel = 0 THEN <<>>
  ELSE <<m>> \o ChainFrom(k, k.mtx[m].mutex_list, fuel - 1)

Chain(k, t) == ChainFrom(k, k.tcb[t].mutex_list, ChainFuel)

\* priority of the first task on the pend list of m, or the carried value
HeadPri(k, m, pri) == IF k.blk[m] # <<>> THEN k.tcb[Head(k.blk[m])].prio ELSE pri

\* mutex_pri_limit: best priority among pri and the head waiters of t's chain
RECURSIVE PriLimitWalk(_, _, _, _, _)
PriLimitWalk(k, m, pri, high, fuel) ==
  IF m = NULL \/ fuel = 0 THEN high
  ELSE LET p == HeadPri(k, m, pri) IN
       PriLimitWalk(k, k.mtx[m].mutex_list, p, IF p < high THEN p ELSE high, fuel - 1)

\* mutant: the new base priority is applied without the mutex limit
MutexPriLimitNone(k, t, pri) == pri

MutexPriLimit(k, t, pri) == PriLimitWalk(k, k.tcb[t].mutex_list, pri, pri, ChainFuel)

(* mutex_pri_look: unlinks mutex_rel from t's chain and returns            *)
(* [k, pri]: the best of b_prio and the head waiters of the rest.  A walk  *)
(* that does not reach NULL within the fuel is a corrupted, cyclic chain:  *)
(* the C loop never ends, recorded as fatal.                               *)
RECURSIVE LookWalk(_, _, _, _, _, _)
LookWalk(k, prev, rel, pri, new_pri, fuel) ==
  LET cur == Deref(k, prev) IN
  IF cur = NULL THEN [k |-> k, pri |-> new_pri]
  ELSE IF fuel = 0 THEN [k |-> Fatal(k), pri |-> new_pri]
  ELSE IF cur = rel
       THEN LookWalk(SetLink(k, prev, k.mtx[cur].mutex_list), prev, rel, pri,
                     new_pri, fuel - 1)
  ELSE LET p == HeadPri(k, cur, pri) IN
       LookWalk(k, <<"mutex", cur>>, rel, p, IF new_pri > p THEN p ELSE new_pri,
                fuel - 1)

MutexPriLook(k, t, rel) ==
  LookWalk(k, <<"task", t>>, rel, k.tcb[t].b_prio, k.tcb[t].b_prio, 2 * ChainFuel)

(* task_pri_change: the do/while loop that walks task -> blk_obj ->        *)
(* mutex_task while the change propagates along a chain of mutex waits.    *)
RECURSIVE TaskPriChangeLoop(_, _, _, _)
TaskPriChangeLoop(k, t, new_pri, fuel) ==
  IF t = NULL \/ k.tcb[t].prio = new_pri THEN k
  ELSE IF fuel = 0 THEN Fatal(k)
  ELSE LET st == k.tcb[t].state IN
  CASE st = RDY ->
         LET k1 == SetPrio(ReadyListRm(k, t), t, new_pri) IN
         IF t = k.active THEN ReadyListAddHead(k1, t) ELSE ReadyListAddTail(k1, t)
    [] st \in {SLEEP, SUSPENDED, SLEEP_SUSP} -> SetPrio(k, t, new_pri)
    [] st \in {PEND, PEND_SUSP} ->
         LET old_pri == k.tcb[t].prio
             k1 == PendListReorder(SetPrio(k, t, new_pri), t)
             o  == k.tcb[t].blk_obj
             h  == k1.mtx[o].mutex_task
         IN IF o \notin Mutex \/ k1.obj_type[o] # "MUTEX" THEN k1
            ELSE IF h = NULL THEN Fatal(k1)
            ELSE IF k1.tcb[h].prio > new_pri
                 THEN TaskPriChangeLoop(k1, h, new_pri, fuel - 1)
            ELSE IF k1.tcb[h].prio = old_pri
                 THEN LET r == MutexPriLook(k1, h, NULL) IN
                      IF r.pri # r.k.tcb[h].prio
                      THEN TaskPriChangeLoop(r.k, h, r.pri, fuel - 1)
                      ELSE r.k
            ELSE k1
    [] OTHER -> Fatal(k)

TaskPriChange(k, t, new_pri) ==
  TaskPriChangeLoop(k, t, new_pri, Cardinality(AllTask) + 1)

\* mutant: the mutex is unlinked but the holder keeps its priority
MutexReleaseNoChange(k, t, rel) == MutexPriLook(k, t, rel).k

\* mutex_release: recompute the holder's priority without mutex_rel
MutexRelease(k, t, rel) ==
  LET r == MutexPriLook(k, t, rel) IN
  IF r.pri # r.k.tcb[t].prio THEN TaskPriChange(r.k, t, r.pri) ELSE r.k

\* mutex_task_pri_reset: a waiter left the pend list of the mutex it waited on
\* mutant: the holder keeps the priority a departed waiter gave it
MutexTaskPriResetNone(k, t) == k

MutexTaskPriReset(k, t) ==
  LET o == k.tcb[t].blk_obj IN
  IF o \in Mutex /\ k.obj_type[o] = "MUTEX"
  THEN LET h == k.mtx[o].mutex_task IN
       IF h = NULL THEN Fatal(k)
       ELSE IF k.tcb[h].prio = k.tcb[t].prio THEN MutexRelease(k, h, NULL) ELSE k
  ELSE k

\* hand mutex m to the task nt just woken from its pend list
\* mutant: the new holder's chain is replaced instead of pushed on
GiveMutexNoLink(k, m, nt) ==
  [k EXCEPT !.mtx[m].mutex_task = nt, !.mtx[m].mutex_list = NULL,
            !.tcb[nt].mutex_list = m]

GiveMutex(k, m, nt) ==
  [k EXCEPT !.mtx[m].mutex_task = nt,
            !.mtx[m].mutex_list = k.tcb[nt].mutex_list,
            !.tcb[nt].mutex_list = m]

(* task_mutex_free: each mutex of the dying task goes to its first waiter  *)
(* or becomes free; owner_nested is left as it was.                        *)
\* mutant: a mutex nobody waits for is left with the dead holder
RECURSIVE MutexFreeWalkKeepHolder(_, _, _)
MutexFreeWalkKeepHolder(k, m, fuel) ==
  IF m = NULL THEN k
  ELSE IF fuel = 0 THEN Fatal(k)
  ELSE LET next_mutex == k.mtx[m].mutex_list IN
       IF k.blk[m] # <<>>
       THEN LET nt == Head(k.blk[m]) IN
            MutexFreeWalkKeepHolder(GiveMutex(PendTaskWakeup(k, nt), m, nt),
                                    next_mutex, fuel - 1)
       ELSE MutexFreeWalkKeepHolder(k, next_mutex, fuel - 1)

\* mutant: the mutex goes to the last waiter (blk_list.prev) instead of the first
RECURSIVE MutexFreeWalkTail(_, _, _)
MutexFreeWalkTail(k, m, fuel) ==
  IF m = NULL THEN k
  ELSE IF fuel = 0 THEN Fatal(k)
  ELSE LET next_mutex == k.mtx[m].mutex_list IN
       IF k.blk[m] # <<>>
       THEN LET nt == Last(k.blk[m]) IN
            MutexFreeWalkTail(GiveMutex(PendTaskWakeup(k, nt), m, nt), next_mutex, fuel - 1)
       ELSE MutexFreeWalkTail([k EXCEPT !.mtx[m].mutex_task = NULL], next_mutex, fuel - 1)

RECURSIVE MutexFreeWalk(_, _, _)
MutexFreeWalk(k, m, fuel) ==
  IF m = NULL THEN k
  ELSE IF fuel = 0 THEN Fatal(k)
  ELSE LET next_mutex == k.mtx[m].mutex_list IN
       IF k.blk[m] # <<>>
       THEN LET nt == Head(k.blk[m]) IN
            MutexFreeWalk(GiveMutex(PendTaskWakeup(k, nt), m, nt), next_mutex, fuel - 1)
       ELSE MutexFreeWalk([k EXCEPT !.mtx[m].mutex_task = NULL], next_mutex, fuel - 1)

TaskMutexFree(k, t) == MutexFreeWalk(k, k.tcb[t].mutex_list, 2 * ChainFuel)

=============================================================================
