-------------------------------- MODULE KQueue -------------------------------
(***************************************************************************)
(* Message queue, k_queue.c.  msg_send has no INTRPT_NESTED_LEVEL_CHK and *)
(* may come from an interrupt handler; so may a krhino_queue_recv with    *)
(* RHINO_NO_WAIT that finds a message.  A recv that blocks, flush and del *)
(* are called by the running task.  The ring buffer (k_ringbuf.c, not in  *)
(* the source tree) is modelled from the spec as a FIFO sequence; the     *)
(* message a waiter receives through task->msg is only a return value and *)
(* is left out.                                                            *)
(***************************************************************************)
EXTENDS KTask

\* ringbuf_push / ringbuf_pop / ringbuf_reset of a RINGBUF_TYPE_FIX buffer
RingbufPush(k, q, msg) == [k EXCEPT !.msgq[q].ring = Append(@, msg)]
RingbufPop(k, q)       == [k EXCEPT !.msgq[q].ring = Tail(@)]
RingbufReset(k, q)     == [k EXCEPT !.msgq[q].ring = <<>>]

\* task_msg_recv: task->msg = msg, then pend_task_wakeup
TaskMsgRecv(k, t) == PendTaskWakeup(k, t)

RECURSIVE TaskMsgRecvAll(_, _)
TaskMsgRecvAll(k, q) ==
  IF k.blk[q] = <<>> \/ Halted(k) THEN k
  ELSE TaskMsgRecvAll(TaskMsgRecv(k, Head(k.blk[q])), q)

\* mutant: the fullness check is dropped
msg_send_no_full(q, msg, opt_wake_all) ==
  /\ fatal = "NONE"
  /\ obj_type[q] = "QUEUE"
  /\ IF blk[q] = <<>>
     THEN Commit(RingbufPush([K EXCEPT !.msgq[q].cur_num = @ + 1], q, msg))
     ELSE Run(IF opt_wake_all THEN TaskMsgRecvAll(K, q)
              ELSE TaskMsgRecv(K, Head(blk[q])))

\* mutant: the message is buffered even when a receiver waits
msg_send_buffer_always(q, msg, opt_wake_all) ==
  /\ fatal = "NONE"
  /\ obj_type[q] = "QUEUE"
  /\ msgq[q].cur_num < QSize
  /\ Commit(RingbufPush([K EXCEPT !.msgq[q].cur_num = @ + 1], q, msg))

\* msg_send: buffer the message, or hand it to the first waiter (all)
msg_send(q, msg, opt_wake_all) ==
  /\ fatal = "NONE"
  /\ obj_type[q] = "QUEUE"
  /\ msgq[q].cur_num < QSize
  /\ IF blk[q] = <<>>
     THEN Commit(RingbufPush([K EXCEPT !.msgq[q].cur_num = @ + 1], q, msg))
     ELSE Run(IF opt_wake_all THEN TaskMsgRecvAll(K, q)
              ELSE TaskMsgRecv(K, Head(blk[q])))

krhino_queue_recv(q, ticks) ==
  /\ fatal = "NONE"
  /\ obj_type[q] = "QUEUE"
  /\ \/ /\ msgq[q].cur_num > 0
        /\ Commit(RingbufPop([K EXCEPT !.msgq[q].cur_num = @ - 1], q))
     \/ /\ msgq[q].cur_num = 0
        /\ Caller
        /\ sched_lock = 0
        /\ Run(PendToBlkObj(K, q, active, ticks))

\* mutant: flush clears the count but not the ring buffer
krhino_queue_flush_keep_ring(q) ==
  /\ Caller
  /\ obj_type[q] = "QUEUE"
  /\ Commit([K EXCEPT !.msgq[q].cur_num = 0])

krhino_queue_flush(q) ==
  /\ Caller
  /\ obj_type[q] = "QUEUE"
  /\ Commit(RingbufReset([K EXCEPT !.msgq[q].cur_num = 0], q))

krhino_queue_del(q) ==
  /\ Caller
  /\ obj_type[q] = "QUEUE"
  /\ q \notin DynObj
  /\ Run(RingbufReset(PendTaskRmAll([K EXCEPT !.obj_type[q] = "NONE"], q), q))

\* queue_create with msg_num = QSize: an empty pend list, ring and count
QueueCreate(k, q) ==
  [k EXCEPT !.blk[q] = <<>>, !.msgq[q] = [cur_num |-> 0, ring |-> <<>>],
            !.obj_type[q] = "QUEUE"]

krhino_queue_create(q) ==
  /\ Caller
  /\ obj_type[q] = "NONE" /\ q \notin DynObj
  /\ Commit(QueueCreate(K, q))

=============================================================================
