-------------------------------- MODULE YLoop --------------------------------
(***************************************************************************)
(* The yloop event loop of one task, kernel/yloop/yloop.c.  readers[] and  *)
(* pollfds[] are heap arrays: rarr and parr hold their allocated cells,    *)
(* stale ones included, and rcount is reader_count.  aos_loop_run is split *)
(* at the poll and at every callback; a callback is arbitrary code that   *)
(* makes up to MaxCbCalls calls of the yloop API before it returns.  Time *)
(* (aos_now_ms) passes at any point, bounded by MaxTime.                   *)
(***************************************************************************)
EXTENDS Integers, Sequences, SequencesExt

CONSTANTS
  Sock,          \* socket descriptors (model values)
  Act,           \* delayed-action callbacks
  MsChoices,     \* delays callers pass to aos_post_delayed_action
  MaxReaders,    \* bound on reader_count
  MaxTimeouts,   \* bound on the timeout list
  MaxTime,       \* bound on aos_now_ms()
  MaxCbCalls,    \* yloop calls one callback makes
  CbApis,        \* the yloop functions callbacks call
  ForeignAct,    \* delayed-action callbacks another task posts
  ForeignApis    \* the yloop functions another task calls

NONE == "NONE"
UNINIT == "UNINIT"   \* the fd of a pollfd aos_malloc left uninitialised

VARIABLES
  rarr,       \* ctx->readers: the socks of the allocated cells
  rcount,     \* ctx->reader_count
  parr,       \* ctx->pollfds: [fd, ready], ready is revents & POLLIN
  tmos,       \* ctx->timeouts: [at |-> timeout_ms, cb, ms], in list order
  now,        \* aos_now_ms()
  terminate,  \* ctx->terminate
  pc,         \* where the loop task is
  readers,    \* aos_loop_run's local copy of reader_count
  delayed,    \* its delayed_ms
  wake,       \* when that aos_poll times out: aos_now_ms() + delayed_ms, or -1
  res,        \* the result of aos_poll
  i,          \* its dispatch index, 0-based as in the C loop
  calls,      \* calls the running callback may still make
  ret,        \* where the running callback returns to
  cbsock      \* the socket whose read callback runs, or NONE

yvars == <<rarr, rcount, parr, tmos, now, terminate, pc, readers, delayed, wake,
           res, i, calls, ret, cbsock>>

loopvars == <<pc, readers, delayed, wake, res, i, calls, ret, cbsock>>

\* the registered readers: the first reader_count cells
Registered == {rarr[j] : j \in 1..rcount}

-----------------------------------------------------------------------------
(* The yloop API, called by the loop task outside aos_loop_run or by a     *)
(* callback.  Calls that return an error before changing anything         *)
(* (-EINVAL, -ENOMEM, a cancel that finds nothing) are no steps.          *)

ApiCall(api) ==
  \/ pc = "idle" /\ UNCHANGED loopvars
  \/ /\ pc = "in_cb" /\ calls > 0 /\ api \in CbApis
     /\ calls' = calls - 1
     /\ UNCHANGED <<pc, readers, delayed, wake, res, i, ret, cbsock>>

\* new arrays of cnt cells; the old cells are copied, the last reader is
\* set and the last pollfd is left as aos_malloc returned it
aos_poll_read_fd(sock) ==
  /\ ApiCall("poll_read")
  /\ rcount < MaxReaders
  /\ rcount' = rcount + 1
  /\ rarr' = Append(SubSeq(rarr, 1, rcount), sock)
  /\ \E garbage \in BOOLEAN :
       parr' = Append(SubSeq(parr, 1, rcount), [fd |-> UNINIT, ready |-> garbage])
  /\ UNCHANGED <<tmos, now, terminate>>

\* the first reader with this sock; the cells after it move down one,
\* the last cell keeps its old contents
aos_cancel_poll_read_fd(sock) ==
  /\ ApiCall("cancel_read")
  /\ rcount > 0
  /\ LET k == SelectInSeq(SubSeq(rarr, 1, rcount), LAMBDA s : s = sock) IN
     /\ k # 0
     /\ rarr' = [j \in DOMAIN rarr |-> IF k <= j /\ j < rcount THEN rarr[j + 1] ELSE rarr[j]]
  /\ rcount' = rcount - 1
  /\ UNCHANGED <<parr, tmos, now, terminate>>

\* mutant: the new timeout goes to the end of the list
PostDelayedAppend(ms, act) ==
  /\ Len(tmos) < MaxTimeouts
  /\ now + ms <= MaxTime
  /\ tmos' = Append(tmos, [at |-> now + ms, cb |-> act, ms |-> ms])
  /\ UNCHANGED <<rarr, rcount, parr, now, terminate>>

\* inserted before the first timeout that is later: FIFO among equals
PostDelayed(ms, act) ==
  /\ Len(tmos) < MaxTimeouts
  /\ now + ms <= MaxTime
  /\ LET e == [at |-> now + ms, cb |-> act, ms |-> ms]
         k == SelectInSeq(tmos, LAMBDA t : e.at < t.at)
     IN tmos' = IF k = 0 THEN Append(tmos, e) ELSE InsertAt(tmos, k, e)
  /\ UNCHANGED <<rarr, rcount, parr, now, terminate>>

aos_post_delayed_action(ms, act) == ApiCall("post") /\ PostDelayed(ms, act)

\* the first timeout of this callback, of this delay unless ms = -1
aos_cancel_delayed_action(ms, act) ==
  /\ ApiCall("cancel_delayed")
  /\ LET k == SelectInSeq(tmos, LAMBDA t : (ms = -1 \/ t.ms = ms) /\ t.cb = act) IN
     /\ k # 0
     /\ tmos' = RemoveAt(tmos, k)
  /\ UNCHANGED <<rarr, rcount, parr, now, terminate>>

aos_loop_exit ==
  /\ ApiCall("exit")
  /\ terminate' = TRUE
  /\ UNCHANGED <<rarr, rcount, parr, tmos, now>>

-----------------------------------------------------------------------------
(* Another task that has no loop of its own: get_context falls back to     *)
(* g_main_ctx, the loop's context, so its calls change the loop's state    *)
(* at any point of aos_loop_run, with no lock and nothing that wakes a     *)
(* loop blocked in aos_poll.  Each call is one step: an interleaving       *)
(* inside the list operations is a data race the model does not split.    *)

ForeignPost(ms, act) ==
  /\ "post" \in ForeignApis
  /\ PostDelayed(ms, act) /\ UNCHANGED loopvars

ForeignExit ==
  /\ "exit" \in ForeignApis
  /\ terminate' = TRUE
  /\ UNCHANGED <<rarr, rcount, parr, tmos, now>> /\ UNCHANGED loopvars

-----------------------------------------------------------------------------
(* aos_loop_run.  pc "top": the test of line 245; "poll": pollfds filled,  *)
(* aos_poll not yet returned; "tmo": the timeout check of line 275;        *)
(* "disp": the dispatch loop of line 290 at index i; "in_cb": a callback   *)
(* runs; "fault": a read past an allocated array, after which the         *)
(* program's behaviour is undefined.                                       *)

aos_loop_run ==
  /\ pc = "idle"
  /\ pc' = "top"
  /\ UNCHANGED <<rarr, rcount, parr, tmos, now, terminate, readers, delayed, wake,
                 res, i, calls, ret, cbsock>>

\* mutant: delayed_ms is not clamped at zero
LoopTopNoClamp ==
  /\ pc = "top"
  /\ IF ~terminate /\ (tmos # <<>> \/ rcount > 0)
     THEN /\ pc' = "poll"
          /\ readers' = rcount
          /\ delayed' = IF tmos = <<>> THEN -1
                        ELSE Head(tmos).at - now
          /\ wake' = IF tmos = <<>> THEN -1 ELSE now + delayed'
          /\ parr' = [j \in DOMAIN parr |->
                        IF j <= rcount THEN [parr[j] EXCEPT !.fd = rarr[j]] ELSE parr[j]]
          /\ UNCHANGED terminate
     ELSE /\ pc' = "idle" /\ terminate' = FALSE
          /\ UNCHANGED <<readers, delayed, wake, parr>>
  /\ UNCHANGED <<rarr, rcount, tmos, now, res, i, calls, ret, cbsock>>

\* lines 245-265; the loop's end (299) resets terminate
LoopTop ==
  /\ pc = "top"
  /\ IF ~terminate /\ (tmos # <<>> \/ rcount > 0)
     THEN /\ pc' = "poll"
          /\ readers' = rcount
          /\ delayed' = IF tmos = <<>> THEN -1
                        ELSE IF now < Head(tmos).at THEN Head(tmos).at - now ELSE 0
          /\ wake' = IF tmos = <<>> THEN -1 ELSE now + delayed'
          /\ parr' = [j \in DOMAIN parr |->
                        IF j <= rcount THEN [parr[j] EXCEPT !.fd = rarr[j]] ELSE parr[j]]
          /\ UNCHANGED terminate
     ELSE /\ pc' = "idle" /\ terminate' = FALSE
          /\ UNCHANGED <<readers, delayed, wake, parr>>
  /\ UNCHANGED <<rarr, rcount, tmos, now, res, i, calls, ret, cbsock>>

\* line 267: some of the polled sockets are readable and the wait ends at
\* or before the timeout, or none is and the timeout passes, or the wait
\* is interrupted (EINTR) or fails; a failure returns at line 271
Polled(R) == [j \in DOMAIN parr |->
                IF j <= readers THEN [parr[j] EXCEPT !.ready = j \in R] ELSE parr[j]]

PollUnchanged == UNCHANGED <<rarr, rcount, tmos, terminate, readers, delayed, wake, i, calls, ret, cbsock>>

PollReady ==
  /\ pc = "poll"
  /\ \E R \in SUBSET (1..readers) \ {{}} :
       /\ parr' = Polled(R) /\ res' = Cardinality(R) /\ pc' = "tmo"
  /\ UNCHANGED now
  /\ PollUnchanged

\* the wait of delayed_ms ends at the time computed before the poll,
\* whatever has been posted since
PollTimeout ==
  /\ pc = "poll" /\ delayed # -1
  /\ now >= wake
  /\ parr' = Polled({}) /\ res' = 0 /\ pc' = "tmo"
  /\ UNCHANGED now
  /\ PollUnchanged

PollEintr ==
  /\ pc = "poll"
  /\ res' = -1 /\ pc' = "tmo" /\ UNCHANGED <<parr, now>>
  /\ PollUnchanged

PollError ==
  /\ pc = "poll"
  /\ res' = -1 /\ pc' = "idle" /\ UNCHANGED <<parr, now>>
  /\ PollUnchanged

aos_poll == PollReady \/ PollTimeout \/ PollEintr \/ PollError

\* mutant: timeouts are looked at only when the poll timed out
LoopTimeoutOnIdle ==
  /\ pc = "tmo"
  /\ LET after == IF res <= 0 THEN "top" ELSE "disp" IN
     IF res = 0 /\ tmos # <<>> /\ now >= Head(tmos).at
     THEN /\ tmos' = Tail(tmos)
          /\ pc' = "in_cb" /\ calls' = MaxCbCalls /\ ret' = after /\ cbsock' = NONE
     ELSE /\ pc' = after
          /\ UNCHANGED <<tmos, calls, ret, cbsock>>
  /\ i' = 0
  /\ UNCHANGED <<rarr, rcount, parr, now, terminate, readers, delayed, wake, res>>

\* lines 275-288: the first timeout, if due, leaves the list and its
\* callback runs; then the loop goes on (res <= 0) or dispatches
LoopTimeout ==
  /\ pc = "tmo"
  /\ LET after == IF res <= 0 THEN "top" ELSE "disp" IN
     IF tmos # <<>> /\ now >= Head(tmos).at
     THEN /\ tmos' = Tail(tmos)
          /\ pc' = "in_cb" /\ calls' = MaxCbCalls /\ ret' = after /\ cbsock' = NONE
     ELSE /\ pc' = after
          /\ UNCHANGED <<tmos, calls, ret, cbsock>>
  /\ i' = 0
  /\ UNCHANGED <<rarr, rcount, parr, now, terminate, readers, delayed, wake, res>>

\* lines 290-296: readers[i].cb runs if pollfds[i] is readable
LoopDispatch ==
  /\ pc = "disp"
  /\ IF i >= readers
     THEN pc' = "top" /\ UNCHANGED <<i, calls, ret, cbsock>>
     ELSE IF i + 1 > Len(parr) \/ i + 1 > Len(rarr)
     THEN pc' = "fault" /\ UNCHANGED <<i, calls, ret, cbsock>>
     ELSE /\ i' = i + 1
          /\ IF parr[i + 1].ready
             THEN pc' = "in_cb" /\ calls' = MaxCbCalls /\ ret' = "disp"
                  /\ cbsock' = rarr[i + 1]
             ELSE UNCHANGED <<pc, calls, ret, cbsock>>
  /\ UNCHANGED <<rarr, rcount, parr, tmos, now, terminate, readers, delayed, wake, res>>

\* the callback returns
CbReturn ==
  /\ pc = "in_cb"
  /\ pc' = ret /\ cbsock' = NONE
  /\ UNCHANGED <<rarr, rcount, parr, tmos, now, terminate, readers, delayed, wake,
                 res, i, calls, ret>>

\* aos_now_ms advances while the task waits in aos_poll or runs code
Clock ==
  /\ now < MaxTime
  /\ now' = now + 1
  /\ UNCHANGED <<rarr, rcount, parr, tmos, terminate, pc, readers, delayed, wake,
                 res, i, calls, ret, cbsock>>

-----------------------------------------------------------------------------
Init ==
  /\ rarr = <<>> /\ rcount = 0 /\ parr = <<>> /\ tmos = <<>>
  /\ now = 0 /\ terminate = FALSE
  /\ pc = "idle" /\ readers = 0 /\ delayed = -1 /\ wake = -1 /\ res = 0 /\ i = 0
  /\ calls = 0 /\ ret = "top" /\ cbsock = NONE

Next ==
  \/ \E s \in Sock : aos_poll_read_fd(s) \/ aos_cancel_poll_read_fd(s)
  \/ \E ms \in MsChoices, a \in Act : aos_post_delayed_action(ms, a)
  \/ \E ms \in MsChoices \cup {-1}, a \in Act : aos_cancel_delayed_action(ms, a)
  \/ aos_loop_exit
  \/ \E ms \in MsChoices, a \in ForeignAct : ForeignPost(ms, a)
  \/ ForeignExit
  \/ Clock
  \/ aos_loop_run \/ LoopTop \/ aos_poll \/ LoopTimeout \/ LoopDispatch \/ CbReturn

Spec == Init /\ [][Next]_yvars

(* Time passes; the loop task runs when it is not blocked, a callback       *)
(* returns (it must not block), and a poll with a timeout returns when the *)
(* time has come.  Nothing is assumed of the sockets, or of when the task  *)
(* calls the loop.                                                          *)
FairSpec ==
  /\ Spec /\ WF_yvars(Clock)
  /\ WF_yvars(LoopTop) /\ WF_yvars(PollTimeout) /\ WF_yvars(LoopTimeout)
  /\ WF_yvars(LoopDispatch) /\ WF_yvars(CbReturn)

-----------------------------------------------------------------------------
TypeOK ==
  /\ rarr \in Seq(Sock) /\ Len(rarr) <= MaxReaders
  /\ rcount \in 0..Len(rarr)
  /\ parr \in Seq([fd : Sock \cup {UNINIT}, ready : BOOLEAN])
  /\ tmos \in Seq([at : 0..MaxTime, cb : Act \cup ForeignAct, ms : MsChoices])
  /\ Len(tmos) <= MaxTimeouts
  /\ now \in 0..MaxTime
  /\ terminate \in BOOLEAN
  /\ pc \in {"idle", "top", "poll", "tmo", "disp", "in_cb", "fault"}
  /\ delayed \in -1..MaxTime
  /\ wake \in -1..MaxTime
  /\ calls \in 0..MaxCbCalls
  /\ cbsock \in Sock \cup {NONE}

(* The timeout list stays in ascending timeout_ms order, as               *)
(* aos_loop_run assumes when it looks only at the first entry: posts,      *)
(* cancels and firings from callbacks keep it sorted.                      *)
TimeoutsSorted ==
  \A j, k \in 1..Len(tmos) : j < k => tmos[j].at <= tmos[k].at

(* The dispatch loop of aos_loop_run reads only cells of readers[] and     *)
(* pollfds[] that are allocated, whatever the callbacks before it did.    *)
DispatchInBounds == pc # "fault"

Running == pc \notin {"idle", "fault"}

\* every action of callbacks A due before MaxTime, once due while the
\* loop runs, leaves the list or the loop stops
DueRuns(A) ==
  \A e \in [at : 0..(MaxTime - 1), cb : A, ms : MsChoices] :
    (Running /\ e \in ToSet(tmos) /\ e.at <= now) ~> (e \notin ToSet(tmos) \/ ~Running)

(* While aos_loop_run runs, a delayed action the loop's task posted that  *)
(* is due is taken off the list and run: one per pass of the loop,        *)
(* whatever the readers and the other task do.  The claim is made of      *)
(* actions due before MaxTime: at the end of the modelled time a callback *)
(* may repost an action equal to the one that just ran.                   *)
DueActionRuns == DueRuns(Act)

ForeignActionRuns == DueRuns(ForeignAct)

====
