-------------------------------- MODULE KTimer -------------------------------
(***************************************************************************)
(* The software timer service of k_timer.c.  Callers post commands to      *)
(* g_timer_queue (a k_buf_queue, not in the source tree: a bounded FIFO    *)
(* that hands a message straight to a blocked receiver); timer_task, a     *)
(* task of its own, receives them, keeps g_timer_head (the timer list) and *)
(* runs the callbacks.  The system tick advances krhino_sys_tick_get().    *)
(* The timer task is modelled at the points where it blocks or reads the  *)
(* clock, since other tasks and ticks run between those points.            *)
(***************************************************************************)
EXTENDS Integers, Sequences, SequencesExt

CONSTANTS
  Timer,            \* static timers, created (DEACTIVE) before the run
  Arg,              \* callback arguments
  FirstChoices,     \* first and init_count values callers pass
  RoundChoices,     \* round values (0: one-shot)
  MAX_TIMER_TICKS,
  TIMER_MSG_NUM,    \* RHINO_CONFIG_TIMER_MSG_NUM, the capacity of g_timer_queue
  SYS_TIME_MOD,     \* 2^64: sys_time_t arithmetic is modulo this
  MaxTime,          \* bound on krhino_sys_tick_get()
  TimerOps          \* the timer APIs the callers of a run use

ASSUME /\ FirstChoices \subseteq 1..(MAX_TIMER_TICKS - 1)
       /\ RoundChoices \subseteq 0..(MAX_TIMER_TICKS - 1)
       /\ MaxTime < SYS_TIME_MOD

ACTIVE   == "ACTIVE"
DEACTIVE == "DEACTIVE"
END      == "END"     \* &g_timer_head, the end of the list walk

Op == {"START", "STOP", "CHG", "ARG_CHG", "ARG_CHG_AUTO", "DEL", "DYN_DEL"}

\* a k_timer_queue_cb message
Cmd == [timer : Timer, op : Op, first : FirstChoices \cup {0},
        round : RoundChoices, arg : Arg]

VARIABLES
  now,        \* krhino_sys_tick_get()
  tm,         \* [Timer -> ktimer_t fields]
  tlist,      \* g_timer_head: the timers in list order
  count,      \* g_timer_count, the clock as the timer task last read it
  cmdq,       \* messages buffered in g_timer_queue
  pc,         \* where timer_task is
  delta,      \* its local delta
  deadline,   \* the tick its timed receive times out at
  wake,       \* why a blocked receive returns: "NONE", "MSG" or "TIMEOUT"
  msg         \* the message handed to the blocked receive

tvars == <<now, tm, tlist, count, cmdq, pc, delta, deadline, wake, msg>>

\* the timer task's state as one record, for the routines below
S == [tm |-> tm, tlist |-> tlist, count |-> count]

-----------------------------------------------------------------------------
(* Routines of timer_task, from state record to state record.             *)

\* (a - b) as sys_time_t: a negative difference wraps to a huge value
UDiff(a, b) == (a - b) % SYS_TIME_MOD

\* mutant: the list is ordered by the remain values stored at insertion
TimerListPriInsertByRemain(s, t) ==
  LET i == SelectInSeq(s.tlist, LAMBDA u : s.tm[u].remain > s.tm[t].remain)
  IN [s EXCEPT !.tlist = IF i = 0 THEN Append(@, t) ELSE InsertAt(@, i, t)]

\* timer_list_pri_insert: before the first timer whose
\* (match - g_timer_count), unsigned, exceeds the new timer's remain
TimerListPriInsert(s, t) ==
  LET i == SelectInSeq(s.tlist, LAMBDA u : UDiff(s.tm[u].match, s.count) > s.tm[t].remain)
  IN [s EXCEPT !.tlist = IF i = 0 THEN Append(@, t) ELSE InsertAt(@, i, t)]

\* mutant: to_head is not cleared
TimerListRmKeepHead(s, t) ==
  IF s.tm[t].to_head THEN [s EXCEPT !.tlist = Remove(@, t)] ELSE s

\* timer_list_rm
TimerListRm(s, t) ==
  IF s.tm[t].to_head
  THEN [s EXCEPT !.tlist = Remove(@, t), !.tm[t].to_head = FALSE]
  ELSE s

\* mutant: DEL does not check that the timer is stopped
CmdProcDelActive(s, c, op) ==
  LET t  == c.timer
      tt == s.tm[t]
  IN CASE op = "START" ->
            IF tt.obj_type # "TIMER" \/ tt.state = ACTIVE THEN s
            ELSE [TimerListPriInsert(
                    [s EXCEPT !.tm[t].match = s.count + tt.init_count,
                              !.tm[t].remain = tt.init_count,
                              !.tm[t].to_head = TRUE], t)
                  EXCEPT !.tm[t].state = ACTIVE]
       [] op = "STOP" ->
            IF tt.obj_type # "TIMER" \/ tt.state = DEACTIVE THEN s
            ELSE [TimerListRm(s, t) EXCEPT !.tm[t].state = DEACTIVE]
       [] op = "CHG" ->
            IF c.first = 0 \/ tt.obj_type # "TIMER" \/ tt.state # DEACTIVE THEN s
            ELSE [s EXCEPT !.tm[t].init_count = c.first, !.tm[t].round_ticks = c.round]
       [] op = "ARG_CHG" ->
            IF tt.obj_type # "TIMER" \/ tt.state # DEACTIVE THEN s
            ELSE [s EXCEPT !.tm[t].arg = c.arg]
       [] op = "DEL" ->
            IF tt.obj_type # "TIMER" \/ tt.dyn THEN s
            ELSE [s EXCEPT !.tm[t].obj_type = "NONE"]
       [] op = "DYN_DEL" ->
            IF tt.obj_type # "TIMER" \/ tt.state # DEACTIVE \/ ~tt.dyn THEN s
            ELSE [s EXCEPT !.tm[t].obj_type = "NONE"]

\* cmd_proc(cb, op): the checks of each case, then its update
CmdProc(s, c, op) ==
  LET t  == c.timer
      tt == s.tm[t]
  IN CASE op = "START" ->
            IF tt.obj_type # "TIMER" \/ tt.state = ACTIVE THEN s
            ELSE [TimerListPriInsert(
                    [s EXCEPT !.tm[t].match = s.count + tt.init_count,
                              !.tm[t].remain = tt.init_count,
                              !.tm[t].to_head = TRUE], t)
                  EXCEPT !.tm[t].state = ACTIVE]
       [] op = "STOP" ->
            IF tt.obj_type # "TIMER" \/ tt.state = DEACTIVE THEN s
            ELSE [TimerListRm(s, t) EXCEPT !.tm[t].state = DEACTIVE]
       [] op = "CHG" ->
            IF c.first = 0 \/ tt.obj_type # "TIMER" \/ tt.state # DEACTIVE THEN s
            ELSE [s EXCEPT !.tm[t].init_count = c.first, !.tm[t].round_ticks = c.round]
       [] op = "ARG_CHG" ->
            IF tt.obj_type # "TIMER" \/ tt.state # DEACTIVE THEN s
            ELSE [s EXCEPT !.tm[t].arg = c.arg]
       [] op = "DEL" ->
            IF tt.obj_type # "TIMER" \/ tt.state # DEACTIVE \/ tt.dyn THEN s
            ELSE [s EXCEPT !.tm[t].obj_type = "NONE"]
       [] op = "DYN_DEL" ->
            IF tt.obj_type # "TIMER" \/ tt.state # DEACTIVE \/ ~tt.dyn THEN s
            ELSE [s EXCEPT !.tm[t].obj_type = "NONE"]

\* timer_cmd_proc: ARG_CHG_AUTO is stop, arg change, start
TimerCmdProc(s, c) ==
  IF c.op = "ARG_CHG_AUTO"
  THEN CmdProc(CmdProc(CmdProc(s, c, "STOP"), c, "ARG_CHG"), c, "START")
  ELSE CmdProc(s, c, c.op)

\* the timer after t in the list, or the end
NextOf(s, t) ==
  LET i == IndexFirstSubSeq(<<t>>, s.tlist) IN
  IF i < Len(s.tlist) THEN s.tlist[i + 1] ELSE END

(* timer_cb_proc: walk the list from its first timer; an expired timer's  *)
(* callback runs, it leaves the list and a periodic one is put back; the  *)
(* walk goes on from q->next, which klist_rm leaves as it was and the     *)
(* re-insertion sets to the timer's new successor.                         *)
RECURSIVE CbWalk(_, _, _)
CbWalk(s, q, fuel) ==
  IF q = END \/ fuel = 0 THEN s
  ELSE IF s.tm[q].match - s.count > 0 THEN s
  ELSE LET old_next == NextOf(s, q)
           s1 == TimerListRm(s, q)
       IN IF s.tm[q].round_ticks > 0
          THEN LET s2 == TimerListPriInsert(
                           [s1 EXCEPT !.tm[q].remain = s.tm[q].round_ticks,
                                      !.tm[q].match = s.count + s.tm[q].round_ticks,
                                      !.tm[q].to_head = TRUE], q)
               IN CbWalk(s2, NextOf(s2, q), fuel - 1)
          ELSE CbWalk([s1 EXCEPT !.tm[q].state = DEACTIVE], old_next, fuel - 1)

TimerCbProc(s) ==
  CbWalk(s, IF s.tlist = <<>> THEN END ELSE Head(s.tlist), 2 * Cardinality(Timer) + 1)

SetS(s) == tm' = s.tm /\ tlist' = s.tlist /\ count' = s.count

-----------------------------------------------------------------------------
(* Callers.  Each API posts one message with krhino_buf_queue_send: to    *)
(* the timer task directly if it is blocked in a receive and not yet      *)
(* woken, else into the buffer; a full buffer fails the call and changes  *)
(* nothing, so it is no step.  Calls with out-of-range first or round    *)
(* return RHINO_INV_PARAM before posting and are not steps either.       *)

Receiving == pc \in {"wait_forever", "wait_timed"} /\ wake = "NONE"

\* mutant: the buffer takes a message when it is full
PostNoFull(c) ==
  \/ /\ Receiving
     /\ msg' = c /\ wake' = "MSG"
     /\ UNCHANGED <<now, tm, tlist, count, cmdq, pc, delta, deadline>>
  \/ /\ ~Receiving
     /\ cmdq' = Append(cmdq, c)
     /\ UNCHANGED <<now, tm, tlist, count, pc, delta, deadline, wake, msg>>

Post(c) ==
  \/ /\ Receiving
     /\ msg' = c /\ wake' = "MSG"
     /\ UNCHANGED <<now, tm, tlist, count, cmdq, pc, delta, deadline>>
  \/ /\ ~Receiving
     /\ Len(cmdq) < TIMER_MSG_NUM
     /\ cmdq' = Append(cmdq, c)
     /\ UNCHANGED <<now, tm, tlist, count, pc, delta, deadline, wake, msg>>

\* the messages the APIs build; unused fields keep a fixed value
Msg(t, op, first, round, arg) ==
  [timer |-> t, op |-> op, first |-> first, round |-> round, arg |-> arg]

NoArg == CHOOSE a \in Arg : TRUE
NoRound == CHOOSE r \in RoundChoices : TRUE

krhino_timer_start(t) == Post(Msg(t, "START", 0, NoRound, NoArg))
krhino_timer_stop(t)  == Post(Msg(t, "STOP", 0, NoRound, NoArg))
krhino_timer_del(t)   == Post(Msg(t, "DEL", 0, NoRound, NoArg))
krhino_timer_dyn_del(t) == Post(Msg(t, "DYN_DEL", 0, NoRound, NoArg))
krhino_timer_change(t, first, round) == Post(Msg(t, "CHG", first, round, NoArg))
krhino_timer_arg_change(t, arg) == Post(Msg(t, "ARG_CHG", 0, NoRound, arg))
krhino_timer_arg_change_auto(t, arg) == Post(Msg(t, "ARG_CHG_AUTO", 0, NoRound, arg))

(* timer_create with auto_run 0, on the storage of a deleted timer: a     *)
(* model timer is a slot that the next create, static or dynamic, reuses; *)
(* dyn records mm_alloc_flag (K_OBJ_DYN_ALLOC).                             *)
TimerCreate(t, first, round, arg, dyn) ==
  /\ tm[t].obj_type = "NONE"
  /\ tm' = [tm EXCEPT ![t] = [init_count |-> first, round_ticks |-> round,
                              remain |-> 0, match |-> 0, state |-> DEACTIVE,
                              to_head |-> FALSE, obj_type |-> "TIMER", arg |-> arg,
                              dyn |-> dyn]]
  /\ UNCHANGED <<now, tlist, count, cmdq, pc, delta, deadline, wake, msg>>

krhino_timer_create(t, first, round, arg) == TimerCreate(t, first, round, arg, FALSE)

\* krhino_mm_alloc succeeds (RHINO_NO_MEM changes nothing)
krhino_timer_dyn_create(t, first, round, arg) == TimerCreate(t, first, round, arg, TRUE)

-----------------------------------------------------------------------------
(* The system tick: g_sys_time_tick advances and a timed receive whose     *)
(* ticks have run out is woken with RHINO_BLK_TIMEOUT (tick_list_update). *)

Tick ==
  /\ now < MaxTime
  /\ now' = now + 1
  /\ wake' = IF pc = "wait_timed" /\ wake = "NONE" /\ now + 1 >= deadline
             THEN "TIMEOUT" ELSE wake
  /\ UNCHANGED <<tm, tlist, count, cmdq, pc, delta, deadline, msg>>

-----------------------------------------------------------------------------
(* timer_task.  pc "wait_forever"/"wait_timed": inside the receive of line *)
(* 389/406, woken when wake # "NONE"; "loop": at the test of line 401;     *)
(* "pre_recv": delta computed (404), the receive not yet entered.         *)

\* krhino_buf_queue_recv: a buffered message returns at once
EnterRecv(forever) ==
  /\ IF cmdq # <<>>
     THEN msg' = Head(cmdq) /\ cmdq' = Tail(cmdq) /\ wake' = "MSG"
     ELSE UNCHANGED <<msg, cmdq>> /\ wake' = "NONE"
  /\ pc' = IF forever THEN "wait_forever" ELSE "wait_timed"
  /\ deadline' = IF forever \/ cmdq # <<>> THEN deadline ELSE now + delta

\* line 389
RecvForever ==
  /\ pc = "recv_forever"
  /\ EnterRecv(TRUE)
  /\ UNCHANGED <<now, tm, tlist, count, delta>>

\* lines 390-399: g_timer_count = tick_end, the command, then the loop
ForeverDone ==
  /\ pc = "wait_forever" /\ wake = "MSG"
  /\ SetS(TimerCmdProc([S EXCEPT !.count = now], msg))
  /\ pc' = "loop" /\ wake' = "NONE"
  /\ UNCHANGED <<now, cmdq, delta, deadline, msg>>

\* lines 401-405 and 419-422
Loop ==
  /\ pc = "loop"
  /\ IF tlist = <<>>
     THEN pc' = "recv_forever" /\ UNCHANGED <<tm, tlist, count, delta>>
     ELSE LET d == tm[Head(tlist)].match - now IN
          IF d > 0
          THEN pc' = "pre_recv" /\ delta' = d /\ UNCHANGED <<tm, tlist, count>>
          ELSE pc' = "loop" /\ SetS(TimerCbProc([S EXCEPT !.count = now]))
                            /\ UNCHANGED delta
  /\ UNCHANGED <<now, cmdq, deadline, wake, msg>>

\* line 406
RecvTimed ==
  /\ pc = "pre_recv"
  /\ EnterRecv(FALSE)
  /\ UNCHANGED <<now, tm, tlist, count, delta>>

\* lines 407-422: g_timer_count = tick_end, the command if one came, then
\* timer_cb_proc
TimedDone ==
  /\ pc = "wait_timed" /\ wake # "NONE"
  /\ LET s == [S EXCEPT !.count = now] IN
     SetS(TimerCbProc(IF wake = "MSG" THEN TimerCmdProc(s, msg) ELSE s))
  /\ pc' = "loop" /\ wake' = "NONE"
  /\ UNCHANGED <<now, cmdq, delta, deadline, msg>>

-----------------------------------------------------------------------------
(* Timers are created (krhino_timer_create, auto_run 0) before ktimer_init *)
(* lets the timer task run; the task starts at its first receive.          *)

Init ==
  /\ now = 0
  /\ tm \in [Timer -> [init_count : FirstChoices, round_ticks : RoundChoices,
                       remain : {0}, match : {0}, state : {DEACTIVE},
                       to_head : {FALSE}, obj_type : {"TIMER"}, arg : Arg,
                       dyn : {FALSE}]]
  /\ tlist = <<>>
  /\ count = 0
  /\ cmdq = <<>>
  /\ pc = "recv_forever"
  /\ delta = 0
  /\ deadline = 0
  /\ wake = "NONE"
  /\ msg = Msg(CHOOSE t \in Timer : TRUE, "STOP", 0, NoRound, NoArg)

Uses(op) == op \in TimerOps

Next ==
  \/ \E t \in Timer :
       \/ krhino_timer_start(t)
       \/ krhino_timer_stop(t)
       \/ Uses("DEL") /\ krhino_timer_del(t)
       \/ Uses("CHG") /\ \E f \in FirstChoices, r \in RoundChoices :
                           krhino_timer_change(t, f, r)
       \/ Uses("ARG_CHG") /\ \E a \in Arg : krhino_timer_arg_change(t, a)
       \/ Uses("ARG_CHG_AUTO") /\ \E a \in Arg : krhino_timer_arg_change_auto(t, a)
       \/ Uses("CREATE") /\ \E f \in FirstChoices, r \in RoundChoices, a \in Arg :
                              krhino_timer_create(t, f, r, a)
       \/ Uses("DYN") /\ krhino_timer_dyn_del(t)
       \/ Uses("DYN") /\ \E f \in FirstChoices, r \in RoundChoices, a \in Arg :
                           krhino_timer_dyn_create(t, f, r, a)
  \/ Tick
  \/ RecvForever \/ ForeverDone \/ Loop \/ RecvTimed \/ TimedDone

Spec == Init /\ [][Next]_tvars

-----------------------------------------------------------------------------
TimeVal == 0..(MaxTime + MAX_TIMER_TICKS)

TypeOK ==
  /\ now \in 0..MaxTime
  /\ tm \in [Timer -> [init_count : FirstChoices, round_ticks : RoundChoices,
                       remain : {0} \cup FirstChoices \cup RoundChoices,
                       match : TimeVal, state : {ACTIVE, DEACTIVE},
                       to_head : BOOLEAN, obj_type : {"TIMER", "NONE"}, arg : Arg,
                       dyn : BOOLEAN]]
  /\ tlist \in Seq(Timer)
  /\ count \in 0..MaxTime
  /\ cmdq \in Seq(Cmd) /\ Len(cmdq) <= TIMER_MSG_NUM
  /\ pc \in {"recv_forever", "wait_forever", "loop", "pre_recv", "wait_timed"}
  /\ wake \in {"NONE", "MSG", "TIMEOUT"}
  /\ msg \in Cmd

(* A timer is ACTIVE exactly when it is on the timer list, once, with    *)
(* to_head set, and only a live timer is listed: START, STOP, the          *)
(* stop-change-start of ARG_CHG_AUTO, the firing and re-arming in          *)
(* timer_cb_proc and DEL must keep state, to_head and the list in step.    *)
TimerActiveListed ==
  /\ IsInjective(tlist)
  /\ \A t \in Timer :
       /\ (tm[t].state = ACTIVE) = (t \in ToSet(tlist))
       /\ tm[t].to_head = (t \in ToSet(tlist))
       /\ t \in ToSet(tlist) => tm[t].obj_type = "TIMER"

(* timer_task never sleeps in the timed receive of line 406 while a       *)
(* listed timer is already due at g_timer_count: timer_cb_proc has run     *)
(* every expired callback before the task waits for the head's match, so  *)
(* no callback is kept waiting behind a later timer.                       *)
ExpiredTimersRun ==
  pc = "wait_timed" /\ wake = "NONE" =>
    \A t \in ToSet(tlist) : tm[t].match > count

(* The timers that have not expired at g_timer_count are in next-match     *)
(* order among themselves: the unsigned comparison of                     *)
(* timer_list_pri_insert is exact for them, whatever the clock read late. *)
PendingTimersSorted ==
  \A i, j \in 1..Len(tlist) :
    LET a == tm[tlist[i]].match
        b == tm[tlist[j]].match
    IN i < j /\ a >= count /\ b >= count => a <= b

====
