------------------------------- MODULE MCYLoop -------------------------------
(* Sockets and delayed-action callbacks of the yloop runs.                *)
EXTENDS YLoop

CONSTANTS s1, s2, s3, c1, c2

\* the local copies of aos_loop_run are dead outside the loop, res after
\* the timeout check, and the dispatch index outside the dispatch
YLoopView == <<rarr, rcount, parr, tmos, now, terminate, pc, cbsock, calls,
               IF pc \in {"idle", "top"} THEN 0 ELSE readers,
               IF pc = "poll" THEN delayed ELSE 0,
               IF pc = "poll" THEN wake ELSE 0,
               IF pc = "tmo" \/ (pc = "in_cb" /\ cbsock = NONE) THEN res ELSE 0,
               IF pc = "disp" \/ (pc = "in_cb" /\ ret = "disp") THEN i ELSE 0,
               IF pc = "in_cb" THEN ret ELSE "top">>

SockSym == Permutations({s1, s2, s3})

====
