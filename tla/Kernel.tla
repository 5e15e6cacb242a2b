------------------------------- MODULE Kernel --------------------------------
(***************************************************************************)
(* The single-CPU Rhino kernel after krhino_start: the application tasks  *)
(* and the idle task calling the task, scheduler and mutex APIs, and the  *)
(* tick interrupt.  One step is one API call or one tick, each atomic      *)
(* because the kernel runs it with interrupts disabled.                    *)
(***************************************************************************)
EXTENDS KMutex, KSem, KQueue

CONSTANTS
  SliceChoices,  \* ticks arguments of krhino_task_time_slice_set
  Ops            \* the APIs the application calls (by name)

\* the application calls op
Calls(op) == op \in Ops

Ticks == 1..MaxTicks

TaskRec == [state : TaskState, prio : Prio, b_prio : Prio,
            suspend_count : 0..MaxSuspend, blk_obj : Obj \cup {NULL},
            tick_remain : 0..MaxTicks,
            mutex_list : Mutex \cup {NULL}, time_slice : Nat,
            time_total : Nat \ {0}, sched_policy : {KSCHED_RR, KSCHED_FIFO}]

(* krhino_init creates the idle task, the application creates its tasks  *)
(* with autorun (ready_list_add_tail in creation order), and krhino_start *)
(* runs preferred_cpu_ready_task_get.  Any creation order is possible.     *)
InitTcb(t, p) ==
  [state |-> RDY, prio |-> p, b_prio |-> p, suspend_count |-> 0,
   blk_obj |-> NULL, tick_remain |-> 0,
   mutex_list |-> NULL, time_slice |-> TIME_SLICE, time_total |-> TIME_SLICE,
   sched_policy |-> KSCHED_RR]

Init ==
  /\ tcb = [t \in AllTask |-> InitTcb(t, IF t = Idle THEN IDLE_PRI ELSE InitPrio[t])]
  /\ mtx = [m \in Mutex |-> [mutex_task |-> NULL, mutex_list |-> NULL,
                             owner_nested |-> 0]]
  /\ sem_count = [s \in Sem |-> 0]
  /\ msgq = [q \in Queue |-> [cur_num |-> 0, ring |-> <<>>]]
  /\ blk = [o \in Obj |-> <<>>]
  /\ obj_type = [o \in Obj |-> CASE o \in Mutex -> "MUTEX"
                                 [] o \in Sem   -> "SEM"
                                 [] OTHER       -> "QUEUE"]
  /\ \E order \in SetToSeqs(Task) :
       LET list == [p \in Prio |->
                     IF p = IDLE_PRI THEN <<Idle>>
                     ELSE SelectSeq(order, LAMBDA t : InitPrio[t] = p)]
           bitmap == {p \in Prio : list[p] # <<>>}
       IN rq = [list |-> list, bitmap |-> bitmap, highest |-> Min(bitmap)]
  /\ tick_list = <<>>
  /\ active = Head(rq.list[rq.highest])
  /\ sched_lock = 0
  /\ fatal = "NONE"
  /\ tick_count = 0
  /\ res_list = <<>>

Next ==
  \/ Calls("sched_disable") /\ krhino_sched_disable
  \/ Calls("sched_disable") /\ krhino_sched_enable
  \/ Calls("sleep") /\ \E n \in Ticks : krhino_task_sleep(n)
  \/ Calls("yield") /\ krhino_task_yield
  \/ \E t \in Task :
       \/ Calls("suspend") /\ task_suspend(t)
       \/ Calls("suspend") /\ task_resume(t)
       \/ Calls("wait_abort") /\ krhino_task_wait_abort(t)
       \/ Calls("task_del") /\ krhino_task_del(t)
       \/ Calls("task_dyn_del") /\ krhino_task_dyn_del(t)
       \/ Calls("pri_change") /\ \E p \in PriChoices : krhino_task_pri_change(t, p)
       \/ Calls("time_slice_set") /\ \E n \in SliceChoices : krhino_task_time_slice_set(t, n)
       \/ Calls("sched_policy_set") /\ \E pol \in {KSCHED_RR, KSCHED_FIFO} :
                                        krhino_sched_policy_set(t, pol)
  \/ \E m \in Mutex :
       \/ \E n \in Ticks \cup {WAIT_FOREVER} : krhino_mutex_lock(m, n)
       \/ krhino_mutex_unlock(m)
       \/ Calls("mutex_del") /\ krhino_mutex_del(m)
       \/ Calls("mutex_dyn_del") /\ krhino_mutex_dyn_del(m)
       \/ Calls("create") /\ krhino_mutex_create(m)
       \/ Calls("create") /\ krhino_mutex_dyn_create(m)
  \/ \E s \in Sem :
       \/ sem_give(s, FALSE)
       \/ Calls("sem_give_all") /\ sem_give(s, TRUE)
       \/ \E n \in Ticks \cup {WAIT_FOREVER} : krhino_sem_take(s, n)
       \/ Calls("sem_count_set") /\ \E c \in 0..MaxSemCount : krhino_sem_count_set(s, c)
       \/ Calls("sem_del") /\ krhino_sem_del(s)
       \/ Calls("create") /\ \E c \in 0..MaxSemCount : krhino_sem_create(s, c)
  \/ \E q \in Queue :
       \/ \E msg \in Msg : msg_send(q, msg, FALSE)
       \/ Calls("queue_all_send") /\ \E msg \in Msg : msg_send(q, msg, TRUE)
       \/ \E n \in Ticks \cup {WAIT_FOREVER} : krhino_queue_recv(q, n)
       \/ Calls("queue_flush") /\ krhino_queue_flush(q)
       \/ Calls("queue_del") /\ krhino_queue_del(q)
       \/ Calls("create") /\ krhino_queue_create(q)
  \/ Calls("deathbed") /\ krhino_task_deathbed
  \/ Tick

Spec == Init /\ [][Next]_vars

(* The tick is the hardware timer interrupt, which keeps firing while the *)
(* kernel runs: Tick is weakly fair.  A tick always changes g_tick_count,   *)
(* so <<Tick>>_vars is enabled exactly when the kernel has not halted, and  *)
(* WF_vars(Tick) is stated without ENABLED.  Nothing is assumed of the      *)
(* tasks, which may call anything or nothing.                               *)
TickFairness == []<>(fatal # "NONE") \/ []<><<Tick>>_vars

FairSpec == Spec /\ TickFairness

-----------------------------------------------------------------------------
TypeOK ==
  /\ tcb \in [AllTask -> TaskRec]
  /\ mtx \in [Mutex -> [mutex_task : AllTask \cup {NULL},
                        mutex_list : Mutex \cup {NULL},
                        owner_nested : 0..MaxNested]]
  /\ sem_count \in [Sem -> 0..MaxSemCount]
  /\ msgq \in [Queue -> [cur_num : 0..QSize, ring : Seq(Msg)]]
  /\ blk \in [Obj -> Seq(AllTask)]
  /\ obj_type \in [Obj -> ObjType]
  /\ rq.bitmap \subseteq Prio /\ rq.highest \in Prio
  /\ rq.list \in [Prio -> Seq(AllTask)]
  /\ active \in AllTask
  /\ sched_lock \in 0..SCHED_MAX_LOCK_COUNT
  /\ fatal \in {"NONE", "SYS_FATAL", "MUTEX_NESTED_OVF"}
  /\ tick_count \in 0..(TICK_COUNT_MOD - 1)
  /\ res_list \in Seq(Task)

Live == {t \in AllTask : tcb[t].state # DELETED}

(* No kernel routine reaches a state its C code cannot survive: ready_list *)
(* _rm emptying the whole bitmap, a NULL mutex holder in task_pri_change   *)
(* or mutex_task_pri_reset, a mutex chain the walks never leave.  Only the *)
(* owner_nested overflow of krhino_mutex_lock may halt the kernel.         *)
NoSysFatal == fatal # "SYS_FATAL"

(* The ready queue of ready_list_add/rm and task_pri_change: the bitmap   *)
(* marks exactly the non-empty lists, highest_pri is its first bit, and a *)
(* task is queued once, on the list of its current priority, iff RDY.      *)
ReadyQueueIntegrity ==
  /\ rq.bitmap = {p \in Prio : rq.list[p] # <<>>}
  /\ rq.highest = Min(rq.bitmap)
  /\ \A p \in Prio : IsInjective(rq.list[p])
  /\ \A t \in AllTask, p \in Prio :
       t \in ToSet(rq.list[p]) <=> (tcb[t].state = RDY /\ tcb[t].prio = p)

(* The pend lists kept by pend_to_blk_obj, pend_list_reorder and the       *)
(* wakeups: exactly the PEND tasks of an object are on its list, in        *)
(* priority order, and a task is on the tick list iff it sleeps or waits  *)
(* with a timeout.                                                         *)
PendListIntegrity ==
  /\ \A o \in Obj :
       /\ IsInjective(blk[o])
       /\ ToSet(blk[o]) = {t \in AllTask : tcb[t].state \in {PEND, PEND_SUSP}
                                            /\ tcb[t].blk_obj = o}
       /\ \A i \in 1..(Len(blk[o]) - 1) : tcb[blk[o][i]].prio <= tcb[blk[o][i+1]].prio
  /\ IsInjective(tick_list)
  /\ \A t \in ToSet(tick_list) : tcb[t].state \in {SLEEP, SLEEP_SUSP, PEND, PEND_SUSP}
  /\ \A t \in AllTask : tcb[t].state \in {SLEEP, SLEEP_SUSP} => t \in ToSet(tick_list)
  /\ \A i \in 1..(Len(tick_list) - 1) :
       tcb[tick_list[i]].tick_remain <= tcb[tick_list[i+1]].tick_remain

(* The owned-mutex chains built by lock, unlock, mutex_pri_look and       *)
(* task_mutex_free: every live task's mutex_list reaches NULL and holds    *)
(* exactly the mutexes it owns, and a held mutex is owned by a live task.  *)
MutexChainIntegrity ==
  /\ \A t \in Live :
       /\ IsInjective(Chain(K, t))
       /\ Len(Chain(K, t)) < ChainFuel
       /\ ToSet(Chain(K, t)) = {m \in Mutex : obj_type[m] = "MUTEX"
                                              /\ mtx[m].mutex_task = t}
  /\ \A m \in Mutex : obj_type[m] = "MUTEX" /\ mtx[m].mutex_task # NULL =>
                        mtx[m].mutex_task \in Live

(* Priority inheritance is exact: every live task runs at the best of its *)
(* base priority and the priorities of the first waiters of the mutexes   *)
(* it holds, after every lock, unlock, timeout, abort, delete and          *)
(* krhino_task_pri_change (the spec only asks for "no worse than").        *)
PriorityExact ==
  \A t \in Live :
    tcb[t].prio = Min({tcb[t].b_prio} \cup
                      {tcb[Head(blk[m])].prio :
                         m \in {n \in ToSet(Chain(K, t)) : blk[n] # <<>>}})

(* core_sched with the scheduler unlocked runs a task of the best ready   *)
(* priority: no ready task is better than the running one, and the        *)
(* running task is RDY.                                                    *)
SchedulerPreemption ==
  fatal = "NONE" /\ sched_lock = 0 =>
    /\ tcb[active].state = RDY
    /\ active = Head(rq.list[rq.highest])

(* krhino_task_dyn_del hands a task's stack and TCB to the freeing task   *)
(* through g_res_list.  Once handed over, nothing of the kernel refers to *)
(* that TCB again: it is DELETED, queued once, not running, on no ready,   *)
(* tick or pend list, and holds no live mutex (krhino_mutex_del leaves a   *)
(* deleted mutex's mutex_task as it was).  The RHINO_SCHED_DISABLE check  *)
(* is what keeps a task that deletes itself from going on running on a     *)
(* stack that is about to be freed.                                        *)
ResListUnreferenced ==
  /\ IsInjective(res_list)
  /\ \A t \in ToSet(res_list) :
       /\ tcb[t].state = DELETED
       /\ fatal = "NONE" => t # active
       /\ t \notin ToSet(tick_list)
       /\ \A p \in Prio : t \notin ToSet(rq.list[p])
       /\ \A o \in Obj : t \notin ToSet(blk[o])
       /\ \A m \in Mutex : obj_type[m] = "MUTEX" => mtx[m].mutex_task # t

(* A semaphore never has both a count and waiters: take only pends at    *)
(* count 0, give only counts with nobody waiting, and count_set refuses    *)
(* (SEM_TASK_WAITING) to give a count while tasks wait.                     *)
SemCountExclusive ==
  \A s \in Sem : obj_type[s] = "SEM" /\ sem_count[s] > 0 => blk[s] = <<>>

(* msg_send hands a message straight to a waiting receiver and buffers it *)
(* only when nobody waits, and krhino_queue_recv blocks only on an empty   *)
(* queue: a live queue never has both buffered messages and receivers.    *)
QueueCountExclusive ==
  \A q \in Queue : obj_type[q] = "QUEUE" /\ msgq[q].cur_num > 0 => blk[q] = <<>>

(* msg_q.cur_num, which send, recv and flush test, counts exactly the      *)
(* messages in the ring buffer that ringbuf_pop hands out, so a recv never  *)
(* returns a flushed message and never finds the buffer empty.             *)
QueueBufferConsistent ==
  \A q \in Queue : obj_type[q] = "QUEUE" => Len(msgq[q].ring) = msgq[q].cur_num

(* A timed wait ends: a task that tick_list_insert put on the tick list    *)
(* (a sleep, or a timed lock, take or recv) is taken off it again, by its  *)
(* timeout in tick_list_update or earlier by a wakeup, abort or delete,    *)
(* unless the kernel halts.                                                *)
TimedWaitEnds ==
  \A t \in Task : t \in ToSet(tick_list) ~> (t \notin ToSet(tick_list) \/ fatal # "NONE")

(* Refinement of MutexSpec.  A mutex is live while its obj_type is MUTEX, *)
(* its holder is mutex_task and its waiters are the tasks on its pend list. *)
(* Every step of lock, unlock, timeout, abort, delete, pri_change and       *)
(* mutex_del is a step of the abstract mutex: above all, unlock and         *)
(* task_mutex_free hand a mutex only to a waiter of the best priority.      *)
MutexAbs == INSTANCE MutexSpec WITH
              Task    <- AllTask,
              live    <- [m \in Mutex |-> obj_type[m] = "MUTEX"],
              holder  <- [m \in Mutex |-> IF obj_type[m] = "MUTEX"
                                          THEN mtx[m].mutex_task ELSE NULL],
              waiting <- [m \in Mutex |-> IF obj_type[m] = "MUTEX"
                                          THEN ToSet(blk[m]) ELSE {}],
              prio    <- [t \in AllTask |-> tcb[t].prio]

MutexSpecRefined == MutexAbs!Spec

(* The spec (4.5): a mutex handed to a waiter has owner_nested = 1, so    *)
(* the new holder's single unlock releases it.                             *)
TransferNestedOne ==
  [][\A m \in Mutex :
       mtx'[m].mutex_task \notin {NULL, mtx[m].mutex_task} =>
         mtx'[m].owner_nested = 1]_vars

(* Spec 4.2: with round robin, each tick decrements the running task's    *)
(* slice.  time_slice_update charges the head of the running task's ready  *)
(* list instead, which is another task once krhino_task_yield has rotated  *)
(* the list under krhino_sched_disable.  No task but the running one may   *)
(* lose slice on a tick.                                                    *)
SliceChargedToRunning ==
  [][tick_count' # tick_count =>
       \A t \in Task : tcb'[t].time_slice # tcb[t].time_slice => t = active]_vars

==============================================================================
