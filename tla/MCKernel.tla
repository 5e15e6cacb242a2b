------------------------------ MODULE MCKernel -------------------------------
(* Model values and bounds for checking Kernel with TLC.                   *)
EXTENDS Kernel, TLC

CONSTANTS t1, t2, t3, m1, m2, s1, q1, ma

MCTask  == {t1, t2, t3}
MCMutex == {m1, m2}

\* two tasks share priority 1 (round robin), t1 is the better one
MCInitPrio == [t \in MCTask |-> IF t = t1 THEN 0 ELSE 1]

\* t2 and t3 are interchangeable: same priority, any creation order
MCSymmetry == Permutations({t2, t3})

(* The fingerprint of a state leaves out fields the kernel never reads   *)
(* again before it overwrites them: everything of a deleted task, the     *)
(* tick_remain of a task off the tick list (tick_list_insert sets it), and *)
(* mutex_list and owner_nested of a free mutex (lock sets both), and      *)
(* g_tick_count, which no modelled code reads.  States that differ only    *)
(* there have the same futures.                                            *)
TcbView(t) ==
  IF tcb[t].state = DELETED THEN DELETED
  ELSE [tcb[t] EXCEPT !.tick_remain = IF t \in ToSet(tick_list) THEN @ ELSE 0]

MtxView(m) ==
  IF obj_type[m] # "MUTEX" THEN "NONE"
  ELSE IF mtx[m].mutex_task = NULL THEN NULL ELSE mtx[m]

\* a deleted queue keeps a cur_num nobody reads again
MsgqView(q) == IF obj_type[q] = "QUEUE" THEN msgq[q] ELSE "NONE"

MCView == <<[t \in AllTask |-> TcbView(t)], [m \in Mutex |-> MtxView(m)],
            sem_count, [q \in Queue |-> MsgqView(q)], blk, obj_type, rq, tick_list, active, sched_lock, fatal, res_list>>

=============================================================================
