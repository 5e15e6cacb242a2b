--------------------------------- MODULE KSem --------------------------------
(***************************************************************************)
(* Counting semaphore, k_sem.c.  take, count_set and del are called by    *)
(* the running task; give and give_all have no INTRPT_NESTED_LEVEL_CHK    *)
(* and may also come from an interrupt handler, whatever task runs: the  *)
(* core_sched of their RHINO_CRITICAL_EXIT_SCHED (or of krhino_intrpt_exit *)
(* after the handler) is the same step.                                   *)
(***************************************************************************)
EXTENDS KTask

\* mutant: the count is incremented past (sem_count_t)-1
sem_give_no_ovf(s, opt_wake_all) ==
  /\ fatal = "NONE"
  /\ obj_type[s] = "SEM"
  /\ IF blk[s] = <<>>
     THEN Commit([K EXCEPT !.sem_count[s] = @ + 1])
     ELSE Run(IF opt_wake_all THEN PendTaskWakeupAll(K, s)
              ELSE PendTaskWakeup(K, Head(blk[s])))

\* sem_give: one count, or a wakeup of the first waiter (all of them)
sem_give(s, opt_wake_all) ==
  /\ fatal = "NONE"
  /\ obj_type[s] = "SEM"
  /\ IF blk[s] = <<>>
     THEN /\ sem_count[s] < MaxSemCount
          /\ Commit([K EXCEPT !.sem_count[s] = @ + 1])
     ELSE Run(IF opt_wake_all THEN PendTaskWakeupAll(K, s)
              ELSE PendTaskWakeup(K, Head(blk[s])))

krhino_sem_take(s, ticks) ==
  /\ Caller
  /\ obj_type[s] = "SEM"
  /\ \/ /\ sem_count[s] > 0
        /\ Commit([K EXCEPT !.sem_count[s] = @ - 1])
     \/ /\ sem_count[s] = 0
        /\ sched_lock = 0
        /\ Run(PendToBlkObj(K, s, active, ticks))

\* mutant: the count is set while tasks wait on the semaphore
krhino_sem_count_set_any(s, c) ==
  /\ Caller
  /\ obj_type[s] = "SEM"
  /\ Commit([K EXCEPT !.sem_count[s] = c])

krhino_sem_count_set(s, c) ==
  /\ Caller
  /\ obj_type[s] = "SEM"
  /\ sem_count[s] > 0 \/ blk[s] = <<>>
  /\ Commit([K EXCEPT !.sem_count[s] = c])

krhino_sem_del(s) ==
  /\ Caller
  /\ obj_type[s] = "SEM"
  /\ s \notin DynObj
  /\ Run(PendTaskRmAll([K EXCEPT !.obj_type[s] = "NONE"], s))

\* sem_create on unused storage: an empty pend list and the initial count
SemCreate(k, s, c) ==
  [k EXCEPT !.blk[s] = <<>>, !.sem_count[s] = c, !.obj_type[s] = "SEM"]

krhino_sem_create(s, c) ==
  /\ Caller
  /\ obj_type[s] = "NONE" /\ s \notin DynObj
  /\ Commit(SemCreate(K, s, c))

=============================================================================
