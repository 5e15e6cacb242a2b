------------------------------- MODULE MCTimer -------------------------------
(* Timers, a callback argument and the bounds of the timer runs.         *)
EXTENDS KTimer

CONSTANTS x1, x2, a1, a2

\* the received message is dead unless the task has been woken with one
\* so are delta outside the receive it times and deadline outside a
\* timed wait
\* match and remain of a stopped timer are dead too: START sets both
\* a deleted timer is dead whole: every command is a no-op on it, it is
\* never listed, and a create overwrites every field
DeadTm == CHOOSE r \in [init_count : FirstChoices, round_ticks : RoundChoices,
                        remain : {0}, match : {0}, state : {DEACTIVE},
                        to_head : {FALSE}, obj_type : {"NONE"}, arg : Arg,
                        dyn : {FALSE}] : TRUE
LiveTm == [t \in Timer |->
             CASE tm[t].obj_type = "NONE" -> DeadTm
               [] tm[t].state = ACTIVE -> tm[t]
               [] OTHER -> [tm[t] EXCEPT !.match = 0, !.remain = 0]]

TimerView == <<now, LiveTm, tlist, count, cmdq, pc, wake,
               IF pc = "pre_recv" THEN delta ELSE 0,
               IF pc = "wait_timed" /\ wake = "NONE" THEN deadline ELSE 0,
               IF wake = "MSG" THEN msg ELSE "none">>

TimerSym == Permutations({x1, x2})

====
