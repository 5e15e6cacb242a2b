-------------------------------- MODULE KMutex -------------------------------
(***************************************************************************)
(* Mutex with priority inheritance, k_mutex.c: lock, unlock and delete    *)
(* called by the running task.  The inheritance helpers they share with   *)
(* the task primitives (mutex_pri_look, mutex_release, task_pri_change,    *)
(* mutex_task_pri_reset) are in KCore.                                     *)
(***************************************************************************)
EXTENDS KTask


\* mutant: the nested re-lock without the overflow check
krhino_mutex_lock_no_ovf(m, ticks) ==
  /\ Caller
  /\ obj_type[m] = "MUTEX"
  /\ LET h == mtx[m].mutex_task IN
     \/ /\ h = active
        /\ Commit([K EXCEPT !.mtx[m].owner_nested = @ + 1])
     \/ /\ h = NULL
        /\ Commit([K EXCEPT !.mtx[m].mutex_task = active,
                            !.mtx[m].mutex_list = tcb[active].mutex_list,
                            !.tcb[active].mutex_list = m,
                            !.mtx[m].owner_nested = 1])
     \/ /\ h \notin {active, NULL}
        /\ ticks # 0
        /\ sched_lock = 0
        /\ LET k1 == IF tcb[active].prio < tcb[h].prio
                     THEN TaskPriChange(K, h, tcb[active].prio) ELSE K
           IN Run(PendToBlkObj(k1, m, active, ticks))

krhino_mutex_lock(m, ticks) ==
  /\ Caller
  /\ obj_type[m] = "MUTEX"
  /\ LET h == mtx[m].mutex_task IN
     \/ /\ h = active
        /\ mtx[m].owner_nested < MaxNested
        /\ Commit([K EXCEPT !.mtx[m].owner_nested = @ + 1])
     \/ /\ h = active
        /\ mtx[m].owner_nested = MaxNested
        /\ Commit(ErrProc(K, "MUTEX_NESTED_OVF"))
     \/ /\ h = NULL
        /\ Commit([K EXCEPT !.mtx[m].mutex_task = active,
                            !.mtx[m].mutex_list = tcb[active].mutex_list,
                            !.tcb[active].mutex_list = m,
                            !.mtx[m].owner_nested = 1])
     \/ /\ h \notin {active, NULL}
        /\ ticks # 0
        /\ sched_lock = 0
        /\ LET k1 == IF tcb[active].prio < tcb[h].prio
                     THEN TaskPriChange(K, h, tcb[active].prio) ELSE K
           IN Run(PendToBlkObj(k1, m, active, ticks))

\* mutant: the woken waiter is given the mutex with a plain critical exit
krhino_mutex_unlock_no_sched(m) ==
  /\ Caller
  /\ obj_type[m] = "MUTEX"
  /\ mtx[m].mutex_task = active
  /\ LET k1 == [K EXCEPT !.mtx[m].owner_nested = @ - 1] IN
     IF k1.mtx[m].owner_nested > 0 THEN Commit(k1)
     ELSE LET k2 == MutexRelease(k1, active, m) IN
          IF k2.blk[m] = <<>>
          THEN Commit([k2 EXCEPT !.mtx[m].mutex_task = NULL])
          ELSE LET t == Head(k2.blk[m]) IN
               Commit([GiveMutex(PendTaskWakeup(k2, t), m, t)
                         EXCEPT !.mtx[m].owner_nested = 1])

krhino_mutex_unlock(m) ==
  /\ Caller
  /\ obj_type[m] = "MUTEX"
  /\ mtx[m].mutex_task = active
  /\ LET k1 == [K EXCEPT !.mtx[m].owner_nested = @ - 1] IN
     IF k1.mtx[m].owner_nested > 0 THEN Commit(k1)
     ELSE LET k2 == MutexRelease(k1, active, m) IN
          IF k2.blk[m] = <<>>
          THEN Commit([k2 EXCEPT !.mtx[m].mutex_task = NULL])
          ELSE LET t == Head(k2.blk[m]) IN
               Run([GiveMutex(PendTaskWakeup(k2, t), m, t)
                      EXCEPT !.mtx[m].owner_nested = 1])

(* krhino_mutex_del and krhino_mutex_dyn_del: the object type is cleared *)
(* first, the holder released, every waiter woken with RHINO_BLK_DEL; the *)
(* dyn variant then frees the object, which only a later                  *)
(* krhino_mutex_dyn_create hands out again.                                *)
MutexDel(k, m) ==
  LET k1 == [k EXCEPT !.obj_type[m] = "NONE"]
      k2 == IF k.mtx[m].mutex_task # NULL
            THEN MutexRelease(k1, k.mtx[m].mutex_task, m) ELSE k1
  IN PendTaskRmAll(k2, m)

krhino_mutex_del(m) ==
  /\ Caller
  /\ obj_type[m] = "MUTEX"
  /\ m \notin DynObj
  /\ Run(MutexDel(K, m))

krhino_mutex_dyn_del(m) ==
  /\ Caller
  /\ obj_type[m] = "MUTEX"
  /\ m \in DynObj
  /\ Run(MutexDel(K, m))

(* mutex_create on storage no live object uses: an empty pend list, no    *)
(* holder; owner_nested is left as it was (lock sets it).                  *)
MutexCreate(k, m) ==
  [k EXCEPT !.blk[m] = <<>>, !.mtx[m].mutex_task = NULL,
            !.mtx[m].mutex_list = NULL, !.obj_type[m] = "MUTEX"]

krhino_mutex_create(m) ==
  /\ Caller
  /\ obj_type[m] = "NONE" /\ m \notin DynObj
  /\ Commit(MutexCreate(K, m))

krhino_mutex_dyn_create(m) ==
  /\ Caller
  /\ obj_type[m] = "NONE" /\ m \in DynObj
  /\ Commit(MutexCreate(K, m))

=============================================================================
