-------------------------------- MODULE KTask --------------------------------
(***************************************************************************)
(* Task primitives of k_task.c and k_sched.c, and the tick interrupt       *)
(* (k_tick.c, modelled from the spec).  Each action is one API call made  *)
(* by the running task (g_active_task), from its critical-section entry   *)
(* to its RHINO_CRITICAL_EXIT[_SCHED]; error returns that change nothing  *)
(* are stuttering steps and are left out.                                  *)
(***************************************************************************)
EXTENDS KCore

CONSTANTS
  PriChoices,       \* new priorities tried by krhino_task_pri_change
  MaxSuspend,       \* (suspend_nested_t)-1, the suspend_count overflow value
  DelDeletedTask,   \* whether callers may pass an already-deleted task to
                    \* krhino_task_del (TRUE only in the run that shows why not)
  DynTask           \* tasks created by krhino_task_dyn_create (mm_alloc_flag
                    \* K_OBJ_DYN_ALLOC); the others are K_OBJ_STATIC_ALLOC

KSCHED_RR   == "RR"
KSCHED_FIFO == "FIFO"

\* the running task makes the call (the idle task only loops)
Caller == fatal = "NONE" /\ active # Idle

Run(k) == Commit(CoreSched(k))   \* RHINO_CRITICAL_EXIT_SCHED

krhino_sched_disable ==
  /\ Caller
  /\ sched_lock < SCHED_MAX_LOCK_COUNT
  /\ Commit([K EXCEPT !.sched_lock = @ + 1])

\* mutant: the last krhino_sched_enable returns without core_sched
krhino_sched_enable_no_sched ==
  /\ Caller
  /\ sched_lock > 0
  /\ Commit([K EXCEPT !.sched_lock = @ - 1])

krhino_sched_enable ==
  /\ Caller
  /\ sched_lock > 0
  /\ LET k == [K EXCEPT !.sched_lock = @ - 1] IN
     IF k.sched_lock > 0 THEN Commit(k) ELSE Run(k)

krhino_task_sleep(ticks) ==
  /\ Caller
  /\ sched_lock = 0
  /\ LET k1 == [K EXCEPT !.tcb[active].state = SLEEP]
     IN Run(ReadyListRm(TickListInsert(k1, active, ticks), active))

krhino_task_yield ==
  /\ Caller
  /\ Run(ReadyListHeadToTail(K, active))

\* mutant: nested suspension without the overflow check
task_suspend_no_ovf(t) ==
  /\ Caller
  /\ tcb[t].prio # IDLE_PRI
  /\ t = active => sched_lock = 0
  /\ tcb[t].state # DELETED
  /\ LET st == tcb[t].state
         k  == CASE st = RDY ->
                      ReadyListRm([K EXCEPT !.tcb[t].suspend_count = 1,
                                            !.tcb[t].state = SUSPENDED], t)
                 [] st = SLEEP -> [K EXCEPT !.tcb[t].suspend_count = 1,
                                            !.tcb[t].state = SLEEP_SUSP]
                 [] st = PEND  -> [K EXCEPT !.tcb[t].suspend_count = 1,
                                            !.tcb[t].state = PEND_SUSP]
                 [] OTHER      -> [K EXCEPT !.tcb[t].suspend_count = @ + 1]
     IN Run(k)

task_suspend(t) ==
  /\ Caller
  /\ tcb[t].prio # IDLE_PRI
  /\ t = active => sched_lock = 0
  /\ tcb[t].state # DELETED
  /\ LET st == tcb[t].state
         k  == CASE st = RDY ->
                      ReadyListRm([K EXCEPT !.tcb[t].suspend_count = 1,
                                            !.tcb[t].state = SUSPENDED], t)
                 [] st = SLEEP -> [K EXCEPT !.tcb[t].suspend_count = 1,
                                            !.tcb[t].state = SLEEP_SUSP]
                 [] st = PEND  -> [K EXCEPT !.tcb[t].suspend_count = 1,
                                            !.tcb[t].state = PEND_SUSP]
                 [] OTHER      -> [K EXCEPT !.tcb[t].suspend_count = @ + 1]
     IN /\ st \in {SUSPENDED, SLEEP_SUSP, PEND_SUSP} =>
              tcb[t].suspend_count < MaxSuspend
        /\ Run(k)

task_resume(t) ==
  /\ Caller
  /\ tcb[t].state \in {SUSPENDED, SLEEP_SUSP, PEND_SUSP}
  /\ LET st == tcb[t].state
         k1 == [K EXCEPT !.tcb[t].suspend_count = @ - 1]
         k  == IF k1.tcb[t].suspend_count > 0 THEN k1
               ELSE CASE st = SUSPENDED ->
                           ReadyListAdd([k1 EXCEPT !.tcb[t].state = RDY], t)
                      [] st = SLEEP_SUSP -> [k1 EXCEPT !.tcb[t].state = SLEEP]
                      [] st = PEND_SUSP  -> [k1 EXCEPT !.tcb[t].state = PEND]
     IN Run(k)

krhino_task_pri_change(t, pri) ==
  /\ Caller
  /\ tcb[t].prio < IDLE_PRI
  /\ pri < IDLE_PRI
  /\ tcb[t].state # DELETED
  /\ LET pri_limit == MutexPriLimit(K, t, pri)
         k == TaskPriChange([K EXCEPT !.tcb[t].b_prio = pri], t, pri_limit)
     IN IF Halted(k) THEN Commit(k) ELSE Run(k)

krhino_task_wait_abort(t) ==
  /\ Caller
  /\ tcb[t].state # DELETED
  /\ LET st == tcb[t].state
         k  == CASE st = RDY -> K
                 [] st = SUSPENDED ->
                      ReadyListAdd([K EXCEPT !.tcb[t].state = RDY], t)
                 [] st \in {SLEEP, SLEEP_SUSP} ->
                      [ReadyListAdd(TickListRm(K, t), t)
                         EXCEPT !.tcb[t].state = RDY]
                 [] st \in {PEND, PEND_SUSP} ->
                      LET k1 == [ReadyListAdd(PendListRm(TickListRm(K, t), t), t)
                                   EXCEPT !.tcb[t].state = RDY]
                      IN [MutexTaskPriReset(k1, t) EXCEPT !.tcb[t].blk_obj = NULL]
     IN Run(k)

\* mutant: deleting a waiter does not reset its mutex holder's priority
krhino_task_del_no_reset(t) ==
  /\ Caller
  /\ tcb[t].prio # IDLE_PRI
  /\ t \notin DynTask
  /\ t = active => sched_lock = 0
  /\ DelDeletedTask \/ tcb[t].state # DELETED
  /\ LET k1 == TaskMutexFree(K, t)
         st == tcb[t].state
         k  == CASE st = RDY -> [ReadyListRm(k1, t) EXCEPT !.tcb[t].state = DELETED]
                 [] st = SUSPENDED -> [k1 EXCEPT !.tcb[t].state = DELETED]
                 [] st \in {SLEEP, SLEEP_SUSP} ->
                      [TickListRm(k1, t) EXCEPT !.tcb[t].state = DELETED]
                 [] st \in {PEND, PEND_SUSP} ->
                      [PendListRm(TickListRm(k1, t), t) EXCEPT !.tcb[t].state = DELETED]
                 [] OTHER -> k1
     IN IF st = DELETED THEN Commit(k) ELSE Run(k)

(* The state switch krhino_task_del and krhino_task_dyn_del share: a task *)
(* leaves the list its state puts it on; K_SEED and K_DELETED fall to the  *)
(* default case and are left as they are.                                  *)
TaskDelSwitch(k1, t) ==
  LET st == k1.tcb[t].state IN
  CASE st = RDY -> [ReadyListRm(k1, t) EXCEPT !.tcb[t].state = DELETED]
    [] st = SUSPENDED -> [k1 EXCEPT !.tcb[t].state = DELETED]
    [] st \in {SLEEP, SLEEP_SUSP} ->
         [TickListRm(k1, t) EXCEPT !.tcb[t].state = DELETED]
    [] st \in {PEND, PEND_SUSP} ->
         MutexTaskPriReset([PendListRm(TickListRm(k1, t), t)
                              EXCEPT !.tcb[t].state = DELETED], t)
    [] OTHER -> k1

(* krhino_task_del: task_mutex_free runs before the state switch, so a     *)
(* task already DELETED reaches the default case (RHINO_INV_TASK_STATE)   *)
(* after its stale mutex_list was walked again.                            *)
krhino_task_del(t) ==
  /\ Caller
  /\ tcb[t].prio # IDLE_PRI
  /\ t \notin DynTask
  /\ t = active => sched_lock = 0
  /\ DelDeletedTask \/ tcb[t].state # DELETED
  /\ LET k == TaskDelSwitch(TaskMutexFree(K, t), t)
     IN IF tcb[t].state = DELETED THEN Commit(k) ELSE Run(k)

\* mutant: the running task may delete itself with the scheduler locked
krhino_task_dyn_del_locked(t) ==
  /\ Caller
  /\ tcb[t].prio # IDLE_PRI
  /\ t \in DynTask
  /\ tcb[t].state # DELETED
  /\ Run(TaskDelSwitch(TaskMutexFree([K EXCEPT !.res_list = Append(@, t)], t), t))

(* krhino_task_dyn_del: after its checks it links the task's res_free     *)
(* record (stack and TCB) onto g_res_list and gives g_res_sem to the task  *)
(* that frees them, with g_sched_lock raised so that the give cannot       *)
(* switch to it; then the same mutex release and state switch as          *)
(* krhino_task_del.  The give's RHINO_SEM_OVF return (k_err_proc) needs   *)
(* 2^32 - 1 queued tasks and is left out.                                  *)
krhino_task_dyn_del(t) ==
  /\ Caller
  /\ tcb[t].prio # IDLE_PRI
  /\ t \in DynTask
  /\ t = active => sched_lock = 0
  /\ tcb[t].state # DELETED
  /\ Run(TaskDelSwitch(TaskMutexFree([K EXCEPT !.res_list = Append(@, t)], t), t))

(* krhino_task_deathbed, where a task's entry function returns to: the   *)
(* running task deletes itself the way it was created.  A refused delete  *)
(* (RHINO_SCHED_DISABLE under the scheduler lock) is ignored and returns.  *)
krhino_task_deathbed ==
  IF active \in DynTask THEN krhino_task_dyn_del(active) ELSE krhino_task_del(active)

\* mutant: a zero slice is stored instead of the default
krhino_task_time_slice_set_no_default(t, slice) ==
  /\ Caller
  /\ SCHED_RR
  /\ Commit([K EXCEPT !.tcb[t].time_total = slice, !.tcb[t].time_slice = slice])

krhino_task_time_slice_set(t, slice) ==
  /\ Caller
  /\ SCHED_RR
  /\ LET total == IF slice > 0 THEN slice ELSE TIME_SLICE IN
     Commit([K EXCEPT !.tcb[t].time_total = total, !.tcb[t].time_slice = total])

krhino_sched_policy_set(t, policy) ==
  /\ Caller
  /\ SCHED_RR
  /\ Commit([K EXCEPT !.tcb[t].sched_policy = policy])

-----------------------------------------------------------------------------
(* The tick interrupt: tick_list_update expires the head of the tick list *)
(* while its time is reached, time_slice_update charges the running      *)
(* priority level, and krhino_intrpt_exit reschedules.                    *)

TickExpire(k, t) ==
  LET st == k.tcb[t].state
      k1 == TickListRm(k, t)
  IN CASE st = SLEEP ->
            ReadyListAdd([k1 EXCEPT !.tcb[t].state = RDY], t)
       [] st = SLEEP_SUSP ->
            [k1 EXCEPT !.tcb[t].state = SUSPENDED]
       [] st = PEND ->
            LET k2 == [ReadyListAdd(PendListRm(k1, t), t)
                         EXCEPT !.tcb[t].state = RDY]
            IN [MutexTaskPriReset(k2, t) EXCEPT !.tcb[t].blk_obj = NULL]
       [] st = PEND_SUSP ->
            LET k2 == [PendListRm(k1, t)
                         EXCEPT !.tcb[t].state = SUSPENDED]
            IN [MutexTaskPriReset(k2, t) EXCEPT !.tcb[t].blk_obj = NULL]
       [] OTHER -> Fatal(k1)

RECURSIVE ExpireAll(_)
ExpireAll(k) ==
  IF k.tick_list = <<>> \/ Halted(k) THEN k
  ELSE IF k.tcb[Head(k.tick_list)].tick_remain > 0 THEN k
  ELSE ExpireAll(TickExpire(k, Head(k.tick_list)))

\* tick_remain-- of every task on the tick list
RECURSIVE TickDec(_, _)
TickDec(k, l) ==
  IF l = <<>> THEN k
  ELSE TickDec([k EXCEPT !.tcb[Head(l)].tick_remain = @ - 1], Tail(l))

\* mutant: the decrement stops one short and a remaining 1 never reaches 0
RECURSIVE TickDecOffByOne(_, _)
TickDecOffByOne(k, l) ==
  IF l = <<>> THEN k
  ELSE TickDecOffByOne([k EXCEPT !.tcb[Head(l)].tick_remain =
                                   IF @ > 1 THEN @ - 1 ELSE @], Tail(l))

TickListUpdateOffByOne(k) ==
  ExpireAll(TickDecOffByOne([k EXCEPT !.tick_count = (@ + 1) % TICK_COUNT_MOD],
                            k.tick_list))

TickListUpdate(k) ==
  ExpireAll(TickDec([k EXCEPT !.tick_count = (@ + 1) % TICK_COUNT_MOD], k.tick_list))

\* time_slice_update (single CPU): charges the head of the running level
TimeSliceUpdate(k) ==
  LET p == k.tcb[k.active].prio
      l == k.rq.list[p]
      t == Head(l)
      s == IF k.tcb[t].time_slice > 0 THEN k.tcb[t].time_slice - 1 ELSE 0
  IN IF l = <<>> THEN k
     ELSE IF k.tcb[t].sched_policy = KSCHED_FIFO \/ Len(l) = 1 THEN k
     ELSE IF s > 0 THEN [k EXCEPT !.tcb[t].time_slice = s]
     ELSE [ReadyListHeadToTail(k, t) EXCEPT !.tcb[t].time_slice = k.tcb[t].time_total]

\* mutant: krhino_intrpt_exit without core_sched
TickNoSched ==
  /\ fatal = "NONE"
  /\ Commit(IF SCHED_RR THEN TimeSliceUpdate(TickListUpdate(K)) ELSE TickListUpdate(K))

Tick ==
  /\ fatal = "NONE"
  /\ LET k1 == TickListUpdate(K)
         k2 == IF SCHED_RR THEN TimeSliceUpdate(k1) ELSE k1
     IN Run(k2)

=============================================================================
