------------------------------- MODULE MutexSpec ------------------------------
(***************************************************************************)
(* What a Rhino mutex promises, without lists, chains or the scheduler.   *)
(* A live mutex is free or held; tasks wait only on a held mutex; a       *)
(* waiter may give up (timeout, abort, delete) at any time; and a release *)
(* either frees a mutex nobody waits for or hands it to a waiter of the   *)
(* best current priority.  Deletion frees the mutex and drops every       *)
(* waiter; a deleted mutex is only ever created again free and with no    *)
(* waiters.  Priorities change as the environment likes.                   *)
(***************************************************************************)
EXTENDS Naturals

CONSTANTS Mutex, Task, NULL, Prio

VARIABLES
  live,      \* [Mutex -> BOOLEAN]: not yet deleted
  holder,    \* [Mutex -> Task \cup {NULL}]
  waiting,   \* [Mutex -> SUBSET Task]
  prio       \* [Task -> Prio], the current priorities

avars == <<live, holder, waiting, prio>>

Init ==
  /\ live = [m \in Mutex |-> TRUE]
  /\ holder = [m \in Mutex |-> NULL]
  /\ waiting = [m \in Mutex |-> {}]
  /\ prio \in [Task -> Prio]

\* the waiters of mutex m whose priority no other waiter beats
BestWaiters(m) == {w \in waiting[m] : \A v \in waiting[m] : prio[w] <= prio[v]}

Same(m) == holder'[m] = holder[m] /\ waiting'[m] = waiting[m]

\* a free mutex nobody waits for is taken
Acquire(m) ==
  /\ holder[m] = NULL /\ waiting[m] = {}
  /\ holder'[m] \in Task /\ waiting'[m] = {}

\* one task, not the holder, starts waiting on a held mutex
Enqueue(m) ==
  /\ holder[m] # NULL /\ holder'[m] = holder[m]
  /\ \E t \in Task \ (waiting[m] \cup {holder[m]}) : waiting'[m] = waiting[m] \cup {t}

\* some waiters stop waiting without the mutex
Leave(m) ==
  /\ holder'[m] = holder[m]
  /\ waiting'[m] \subseteq waiting[m] /\ waiting'[m] # waiting[m]

\* the holder lets go: to nobody, or to one of the best waiters
Release(m) ==
  /\ holder[m] # NULL
  /\ \/ waiting[m] = {} /\ holder'[m] = NULL /\ waiting'[m] = {}
     \/ \E w \in BestWaiters(m) : holder'[m] = w /\ waiting'[m] = waiting[m] \ {w}

MutexStep(m) ==
  \/ live'[m] = live[m] /\ Same(m)
  \/ live[m] /\ live'[m] /\ (Acquire(m) \/ Enqueue(m) \/ Leave(m) \/ Release(m))
  \/ live[m] /\ ~live'[m] /\ holder'[m] = NULL /\ waiting'[m] = {}
  \/ ~live[m] /\ live'[m] /\ holder'[m] = NULL /\ waiting'[m] = {}

Next ==
  /\ \A m \in Mutex : MutexStep(m)
  /\ live' \in [Mutex -> BOOLEAN]
  /\ holder' \in [Mutex -> Task \cup {NULL}]
  /\ waiting' \in [Mutex -> SUBSET Task]
  /\ prio' \in [Task -> Prio]

Spec == Init /\ [][Next]_avars

=============================================================================
