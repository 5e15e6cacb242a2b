# TLA+ models of the AliOS-things Rhino kernel

These modules model the single-CPU Rhino kernel under
`src/AliOS-things/kernel/rhino/core/` and the yloop event loop
(`src/AliOS-things/kernel/yloop/yloop.c`). They cover the scheduler, tasks,
mutexes with priority inheritance, semaphores, message queues, the tick
interrupt and the software-timer service. TLC checks them against the
invariants that make those parts correct, and against six claims that
the code breaks.

## 1. The system

### Parts and how they interact

| part | source | state | operations |
|---|---|---|---|
| ready queue and scheduler | `k_sched.c` | `g_ready_queue`: a circular list per priority (`cur_list_item[p]` is the head), `task_bit_map`, `highest_pri`; `g_active_task`, `g_sched_lock` | `ready_list_add[_head/_tail]`, `ready_list_rm`, `ready_list_head_to_tail`, `preferred_cpu_ready_task_get`, `core_sched`, `krhino_sched_disable/enable`, `time_slice_update` |
| tasks | `k_task.c` | `ktask_t`: `task_state`, `prio`, `b_prio` (base priority), `suspend_count`, `blk_obj`, `mutex_list`, `time_slice`, `time_total`, `sched_policy` | create, sleep, yield, suspend, resume, pri_change (`task_pri_change`), wait_abort, del (`task_mutex_free`), time_slice_set, sched_policy_set |
| mutex | `k_mutex.c` | `kmutex_t`: `mutex_task` (holder), `mutex_list` (the holder's owned-mutex stack), `owner_nested`, the pend list | lock, unlock, del, `mutex_pri_limit`, `mutex_pri_look`, `mutex_release`, `mutex_task_pri_reset` |
| pend and tick lists | `k_pend.c`, `k_tick.c` (not in the tree: modelled from the spec) | each object's pend list, `g_tick_head` | `pend_to_blk_obj`, `pend_task_wakeup/rm`, `pend_list_reorder`, `tick_list_insert/rm`, `tick_list_update` |
| semaphore | `k_sem.c` | `count`, pend list | give, give_all, take, count_set, del |
| message queue | `k_queue.c` | ring buffer, pend list | send (back/all), recv, flush, is_full |
| software timers | `k_timer.c` | timer list, command buffer queue, `timer_task` | create/del/start/stop/change; `timer_cmd_proc`, `timer_cb_proc` |
| yloop | `yloop/yloop.c` | readers[], pollfds[], the delayed-action list | poll_read_fd, cancel_poll_read_fd, post/cancel_delayed_action, loop_run |

Every kernel call runs between `RHINO_CRITICAL_ENTER` and
`RHINO_CRITICAL_EXIT[_SCHED]`, with interrupts disabled on one CPU. One call
is therefore one atomic step. The interleaving that matters is the order of
calls made by different tasks and ticks. Which task makes the next call is
decided by `core_sched`.

A blocking call (sleep, lock, take) ends at `RHINO_CRITICAL_EXIT_SCHED` with
the caller off the ready queue. The caller finishes only when some other
step wakes it: an unlock, a give, a tick timeout, an abort, or a delete.

The mutex is what ties tasks together. Its holder inherits the best priority
of the first waiters of every mutex it holds. When a holder is itself
waiting, `task_pri_change` carries a change further along the chain
waiter → `blk_obj` → `mutex_task`. Each holder keeps its mutexes on an
intrusive stack that runs through `kmutex_t.mutex_list`.

### What has to stay true
- **Ready queue:** the bitmap marks exactly the non-empty lists, and
  `highest_pri` is its first bit. A task is queued once, at its current
  priority, if and only if it is RDY.
- **Pend lists:** they hold exactly the waiting tasks of the object, in
  priority order. The tick list holds every sleeping task and the timed
  waiters, sorted by time.
- **Mutex chains:** each chain is finite, has no repeats, and holds exactly
  the mutexes its task owns.
- **Inheritance:** `prio = min(b_prio, first waiters' prio)`.
- **Scheduling:** with the scheduler unlocked, the running task is the head of
  the best non-empty list.
- **Hand-over:** a mutex handed to a waiter has `owner_nested = 1`.
- **Freed tasks:** a task that `krhino_task_dyn_del` queued on `g_res_list`
  for the freeing task is queued once, DELETED, not running, and on no
  ready, tick or pend list, and holds no live mutex (`ResListUnreferenced`).
  A deleted mutex keeps its stale `mutex_task` (`krhino_mutex_del` does not
  clear it), so only mutexes whose `obj_type` is still `RHINO_MUTEX_OBJ_TYPE`
  count.
- **Semaphores:** a semaphore never has both a positive count and waiters.
  A give with waiters hands the semaphore straight to the head waiter,
  and `krhino_sem_count_set` refuses while tasks wait.
- **Message queues:** a live queue never has both buffered messages and
  waiting receivers, and `cur_num` equals the number of messages in the
  ring buffer.
- **Software timers:** a timer is ACTIVE exactly when it is on the timer
  list, once, with `to_head` set. Only a live timer is listed. The list
  is sorted by next-match tick (spec 4.8).
- **yloop:** the timeout list is ascending. The dispatch loop reads only
  allocated cells of `readers[]` and `pollfds[]`. It runs a read callback
  only for a registered socket that `aos_poll` reported readable. Every
  due delayed action runs while the loop runs.

### The hard behaviours
- Orders of lock, unlock, timeout, abort, delete and pri_change across three
  tasks and two mutexes, which no unit test enumerates.
- A timeout that fires while the holder is about to unlock.
- A delete of a waiter, or of a holder.
- Deleting the same task twice.
- A task deleting itself (`krhino_task_deathbed`) while its stack and TCB
  are queued for freeing.
- Counters reaching their limits: `owner_nested`, `suspend_count`,
  `g_sched_lock`.
- The last task leaving the highest list.
- yloop callbacks that register or cancel readers while the loop is
  walking the arrays.
- Ticks between any two steps of `timer_task`, so `g_timer_count` can be
  read later than the task expected.

## 2. Modules

| module | models | notes |
|---|---|---|
| `KCore` | the variables, the ready queue, the pend and tick lists, and the inheritance helpers | Every routine is an operator from kernel state to kernel state. `K` is the current state as a record. An action `Commit`s the state its routines compute, so a C function that calls others is a composition, and a loop is a `RECURSIVE` operator. |
| `KTask` | the task and scheduler APIs and the tick interrupt | one action per API; guards come from the early returns; error returns that change nothing are left out |
| `KMutex` | `krhino_mutex_lock/unlock/del` | |
| `KSem` | `sem_give` (both `krhino_sem_give` and `krhino_sem_give_all`), `krhino_sem_take/count_set/del/create` | A give has no `INTRPT_NESTED_LEVEL_CHK`, so its guard does not require a calling task: it may come from an interrupt, whatever task runs. |
| `KQueue` | `msg_send` (both `back_send` and `all_send`), `krhino_queue_recv/flush/del/create` | The ring buffer (`k_ringbuf.c`, not in the tree) is a FIFO sequence, modelled from the spec. The message a waiter gets through `task->msg` is only a return value, so it is left out. A send, and a recv that finds a message (`RHINO_NO_WAIT` from an interrupt), need no calling task. |
| `KTimer` | the timer APIs, `timer_task` with `cmd_proc`, `timer_list_pri_insert/rm`, `timer_cb_proc`, and the system tick | Standalone: the timer service meets the rest of the kernel only through `g_timer_queue` and the tick. The APIs post a message. `Post` hands it straight to a blocked `timer_task`, or buffers it, or fails on a full buffer. A failed post changes nothing, so it is no step. `timer_task` is split at the points where it blocks or reads the clock (`pc`). `Tick` may come between any two of them. `timer_cb_proc` is a `RECURSIVE` walk that continues from `q->next` as the C loop does. A timer keeps its `mm_alloc_flag` (`dyn`): DEL ignores a dynamic timer and DYN_DEL a static one. A model timer is a slot, which `krhino_timer_create` or `krhino_timer_dyn_create` (`TimerCreate`, `auto_run` 0) fills again once it is deleted. |
| `MCTimer` | model values, `TimerView` (drops the dead `delta`, `deadline` and `msg`, and every field of a deleted timer, which a create overwrites), symmetry of the two timers | |
| `YLoop` | the yloop API and `aos_loop_run` of one loop task | `rarr` and `parr` are the heap arrays `readers[]` and `pollfds[]` with all their allocated cells, stale ones included. `rcount` is `reader_count`. `aos_poll_read_fd` builds arrays of `reader_count + 1` cells. The new `pollfd` is left as `aos_malloc` returned it, so its `revents` is a nondeterministic value. `aos_cancel_poll_read_fd` moves the reader cells down and leaves the last cell as it was. `aos_loop_run` is split at the poll (`PollReady`, `PollTimeout`, `PollEintr`, `PollError`), at the timeout check, and at every step of the dispatch. A callback (`pc = "in_cb"`) makes up to `MaxCbCalls` calls of the functions in `CbApis`. `Clock` advances `aos_now_ms`. `ForeignPost` and `ForeignExit` are calls of another task without a loop, which `get_context` sends to `g_main_ctx`; they come at any point and share `PostDelayed` with the loop's own post. A read past an array is the state `fault`, because the behaviour of the C code after it is undefined. |
| `MCYLoop` | model values, `YLoopView` (drops the loop's dead locals), symmetry of the sockets | |
| `MutexSpec` | what a mutex promises, abstractly | State: `live`, `holder`, a set of `waiting` tasks, and `prio`, which the environment may change. A free mutex with no waiters may be acquired. Only a held mutex gains waiters. Waiters may leave. A release frees a mutex with no waiters, or hands it to a waiter of the best current priority. A deleted mutex may only be created again, free and with no waiters. `Kernel` maps onto it (`MutexAbs`), and `MutexSpecRefined` is checked as a property. |
| `Kernel` | `Init` after `krhino_start`, `Next`, `Spec`, the properties | |
| `MCKernel` | model values, the creation priorities, symmetry and a view | |

### How the code maps to the model
- **Task records:** `tcb[t]` holds the fields of `ktask_t` listed above.
  `blk_state` is left out: it is only the return value of
  `pend_state_end_proc`.
- **Ready queue:** `rq.list[p]` is a ready list read from `cur_list_item[p]`
  round the ring.
  - `klist_insert` before the head is `Append`.
  - The extra head move in `_ready_list_add_head` is a prepend.
  - `ready_list_head_to_tail` is a rotation.
- **Mutex chains:** a chain is a linked list (`tcb[t].mutex_list`, then
  `mtx[m].mutex_list`), not a set. The `*prev` unlink of `mutex_pri_look`
  is modelled on the links themselves, so a corrupted chain can be
  represented.
- **Fatal errors:** `fatal` records a `k_err_proc` that halts the kernel.
  `"SYS_FATAL"` stands for the states the C code cannot survive: a NULL
  dereference, an empty bitmap in `ready_list_rm`, or a chain walk that
  never ends (the walks carry fuel). `"MUTEX_NESTED_OVF"` is the nesting
  overflow.
- **The tick** (spec-modelled `krhino_tick_proc`):
  1. decrement the tick list;
  2. expire the entries whose time is reached;
  3. run `time_slice_update` if RR;
  4. run `core_sched` (from `krhino_intrpt_exit`).

  An expired waiter goes through `mutex_task_pri_reset` as in
  `krhino_task_wait_abort`. `tick_list_update` also increments
  `g_tick_count`, modelled modulo 2 (`TICK_COUNT_MOD`), since nothing
  reads its value.
- **Task deletion:** `krhino_task_del` and `krhino_task_dyn_del` share the
  state switch `TaskDelSwitch`. `DynTask` is the set of tasks whose
  `mm_alloc_flag` is `K_OBJ_DYN_ALLOC`, and each delete refuses the other
  kind. `res_list` is `g_res_list`. The freeing task that takes entries
  off it is not in the source tree, so entries stay there. The
  `krhino_sem_give(&g_res_sem)` runs with `g_sched_lock` raised, so it
  cannot switch tasks inside the call, and the call stays one step.
  `krhino_task_deathbed` is the same delete applied to the running task.
- **Object create and delete:** `DynObj` is the set of mutexes whose
  `mm_alloc_flag` is `K_OBJ_DYN_ALLOC`. `krhino_mutex_del` refuses them
  and `krhino_mutex_dyn_del` refuses the others; both go through
  `MutexDel` (release to the head waiter, then wake every waiter with
  `RHINO_BLK_DEL`). `krhino_mutex_create`, `krhino_mutex_dyn_create`,
  `krhino_sem_create` and `krhino_queue_create` are enumerated only on
  deleted storage (`obj_type` NONE), and a create leaves the scheduler
  alone (no `core_sched`).
- **Initial state:** the idle task is created first, then the application
  tasks with `autorun`, in any creation order.

## 3. Runs

| run | cfg | expect | shows |
|---|---|---|---|
| `pi` | `MCKernel.cfg` | pass | Three tasks (priorities 0, 1, 1) and two mutexes. The calls are lock (timed, forever, nested up to overflow), unlock, sleep, suspend, resume, wait_abort, and ticks. Under all of them, `TypeOK`, `NoSysFatal`, `ReadyQueueIntegrity`, `PendListIntegrity`, `MutexChainIntegrity`, `PriorityExact` and `SchedulerPreemption` hold. The two mutexes give inheritance chains through a waiting holder. |
| `lifecycle` | `MCLifecycle.cfg` | pass | Round robin on, one mutex. t1 is static; t2 and t3 are dynamic (`DynTask`). The calls are task delete (static, dynamic and `krhino_task_deathbed`), mutex delete and re-create, sleep, suspension, yield, the scheduler lock, slice set (0 means the default) and policy changes. Under all of them, `task_mutex_free` hands mutexes on, deletion gives back lent priority, and `krhino_sched_enable` reschedules. `TypeOK`, `ReadyQueueIntegrity`, `MutexChainIntegrity`, `PriorityExact`, `SchedulerPreemption` and `ResListUnreferenced` hold. Without the `RHINO_SCHED_DISABLE` check, a task under the scheduler lock deletes itself and keeps running on a stack queued for freeing. `MutexSpecRefined` also holds: every step is a `MutexSpec` step, so `task_mutex_free` hands a mutex only to a best-priority waiter. `wait_abort` is left to `pi`, to keep the run small. |
| `sem_queue` | `MCSemQueue.cfg` | pass | One semaphore (count 0 to 1), one queue of one slot and one mutex. The calls are give and give_all, send and all_send (from tasks or interrupts), timed and forever takes and receives, count_set, flush, del and re-create of both, suspension, timeouts, and `krhino_task_pri_change` to priority 2 of holders and waiters. `TypeOK` (the count saturates at `(sem_count_t)-1`, a full queue refuses), `SemCountExclusive`, `QueueCountExclusive`, `QueueBufferConsistent`, `PendListIntegrity` and `PriorityExact` hold. Waiters of both priorities on one object exercise the sorted pend list, and a priority drop re-sorts it. A drop of a holder is limited by its waiters (`mutex_pri_limit`). `MutexSpecRefined` also holds: after any priority change of waiters, unlock still hands the mutex to a waiter of the best current priority. Only drops are tried, and `wait_abort` and `sleep` are left to `pi`, to keep the run under 200 s. |
| `timed_wait` | `MCLiveness.cfg` | pass | Under the tick's fairness, `TimedWaitEnds` holds: a task on the tick list leaves it again, by its timeout or an earlier wakeup, unless the kernel halts. The run uses one dynamic mutex, with sleeps, timed and forever locks, suspensions, and `krhino_mutex_dyn_del` and `krhino_mutex_dyn_create`, so a deleted mutex wakes its timed waiters early (`RHINO_BLK_DEL`), and an expiry can also take a `SLEEP_SUSPENDED` or `PEND_SUSPENDED` task to `SUSPENDED`. |
| `timer` | `MCTimer.cfg` | pass | Two timers (first 1 or 2 ticks, one-shot or period 1) go through a one-slot command queue, up to tick 4. The commands are start, stop, change, arg_change, arg_change_auto, del and dyn_del, and re-create of a deleted timer, static or dynamic. `TypeOK` (the queue never overfills), `TimerActiveListed` and `PendingTimersSorted` hold. So DEL of a running timer is refused, and the timers not yet expired at `g_timer_count` stay in match order. |
| `timer_order` | `MCTimerSorted.cfg` | violation | **Finding.** `timer_list_pri_insert` (k_timer.c:21) compares `match - g_timer_count` unsigned. Trace: x1 starts at tick 0 (match 1). `timer_task` computes delta 1 and is preempted before it enters the receive. Two ticks pass, and a START of x2 is waiting. The receive returns it at tick 2, so `g_timer_count = 2`. x2 gets match 3. For the expired x1, `1 - 2` wraps to a huge value, so x2 goes in front of it. `timer_cb_proc` stops at x2, and x1 fires only at tick 3, after x2. The timer task then sleeps in the timed receive of k_timer.c:406 until tick 3 although x1 is due at tick 2. This breaks `ExpiredTimersRun`: no timer already due at `g_timer_count` is listed while the task waits for the head's match. It is spec 4.8's "sorted by next-match tick … runs expired callbacks in order". |
| `yloop` | `MCYLoop.cfg` | pass | One socket, a delayed-action callback with delays 0 and 1, two timeouts, time up to 2, under `FairSpec`. The task registers and cancels the reader, posts and cancels actions, and runs the loop. Callbacks make one call: register, post, cancel an action, or exit. `TypeOK` (`delayed_ms` is never negative), `TimeoutsSorted` and `DueActionRuns` hold. Another task, which has no loop of its own, posts actions of its own callback and calls `aos_loop_exit` at any point. `DueActionRuns` is stated for the loop task's own actions. Callbacks do not cancel readers here, and there is one reader, so nothing about the dispatch over a stale count is asked of this run: `yloop_bounds` shows what goes wrong when callbacks cancel readers. The shift of `readers[]` without `pollfds[]` (yloop.c:176) needs the same callbacks and is not checked on its own. |
| `yloop_foreign` | `MCYLoopForeign.cfg` | violation | **Finding.** `get_context` (yloop.c:56) falls back to `g_main_ctx` for a task without a loop, so another task's `aos_post_delayed_action` goes onto the main loop's list. Nothing wakes `aos_poll` (yloop.c:267), which waits with the `delayed_ms` computed before the post. Trace: the loop registers a socket and polls with no timeout (-1); the other task posts two actions; the socket stays quiet; time passes and the actions never run. This breaks `ForeignActionRuns`, the same claim as `DueActionRuns` for those actions. |
| `yloop_bounds` | `MCYLoopBounds.cfg` | violation | **Finding.** The dispatch loop (yloop.c:290) runs to the count it read before the poll. Trace: two readers, both readable, and a due action. The action cancels both readers. The stale `readers[0]` still runs, though its socket is cancelled. It registers a socket, which reallocates both arrays to one cell. `pollfds[1]` is then read past the array. The same stale dispatch runs a cancelled reader's callback even with one socket: a due action that cancels a readable socket does not stop its callback. |
| `slice_charge` | `MCSlice.cfg` | violation | **Finding.** `time_slice_update` (k_sched.c:453) charges the head of the running task's ready list, not the running task. Trace: t1 sleeps, so t2 runs. t2 locks the scheduler and yields. The yield rotates the priority-1 list to t3, t2 but cannot switch tasks. The next tick takes t3's slice from 2 to 1 while t2 runs. This breaks `SliceChargedToRunning`, which is spec 4.2's "decrements the running task's slice". |
| `nested_transfer` | `MCNestedTransfer.cfg` | violation | **Finding.** `task_mutex_free` (k_task.c:707) hands a mutex to the first waiter but leaves `owner_nested` as the dead holder left it. Trace: t1 locks m1 twice and sleeps; t2 waits on m1; t3 deletes t1. t2 now holds m1 with `owner_nested = 2`, and its one unlock keeps the mutex locked. `TransferNestedOne` is the spec's claim (4.5) and what `krhino_mutex_unlock` does. |
| `del_deleted` | `MCDelDeleted.cfg` | violation | **Finding.** `krhino_task_del` has no `K_DELETED` check (`krhino_task_dyn_del` has one). It calls `task_mutex_free` on the stale `mutex_list` before it rejects the state. Trace: t1 locks m1; t2 deletes t1; t2 locks m1; t2 deletes t1 again. m1 is now free, but it is still on t2's chain (`MutexChainIntegrity`). |

The constant `Ops` names the APIs that the application calls in a run.
Lock and unlock are always called, and the tick always fires. Each run
enables the operations its question needs. Together, the passing runs
call every API.

Every property of a passing run has a mutant in `PROJECT.json`. A mutant
is a plausible slip in the C code, for example a dropped guard, a skipped
reset, or a missing `core_sched`. TLC must find the property violated once
the mutant replaces the code's definition.

### Bounds, and why they are enough
- **Tasks:** three application tasks and the idle task. That is the least
  that gives a chain "waiter → holder that waits → holder", plus two tasks
  at one priority for round robin and `ready_list_add`'s tail rule.
- **Mutexes:** two. That is the least for a holder that waits on another
  mutex, and for a chain with more than one link.
- **Other bounds:**
  - `PRI_MAX = 4`: priorities 0–2 plus idle.
  - `MaxTicks = 1`: every timed wait can time out on the next tick. Tick
    ordering between entries with equal time is still exercised.
  - `MaxNested = 2`: a nested lock happens, and so does the overflow.
  - `MaxSuspend = 2` and `SCHED_MAX_LOCK_COUNT = 1` are the smallest bounds
    at which the nested case and the saturation both happen.

- `MaxSemCount = 1` stands for `(sem_count_t)-1`. A give can saturate,
  and a count of 1 is enough for a count to sit beside a waiter if the
  code let it.

- `QSize = 1` (in `sem_queue`), so that a queue fills and a send is refused. `Msg` has
  one value, because no property depends on which message is sent.

Splitting the operations over four passing kernel runs (with `timed_wait`) keeps each one
under 400 000 distinct states. Two mutexes together with suspension are in `pi`
only.

- **Timers:** two, so that one can be inserted ahead of the other. Firsts
  of 1 and 2 and periods of 0 and 1 give equal and unequal matches, and
  periodic re-insertion. `TIMER_MSG_NUM = 1` makes the queue fill.
  `MaxTime = 4` bounds the clock; `Arg` has one value, because no
  property reads it. `SYS_TIME_MOD` stands for 2^64. TLC
  integers are 32-bit, so it is 2^30. That is still far above every
  difference the model forms, so the wrap of a negative difference is
  kept.

- **yloop:** one socket and one reader in `yloop`, so a cancel leaves a
  stale cell and a new `pollfd` starts as garbage. Two timeouts, so a post
  lands before or after another. Delays 0 and 1 and time up to 2 make
  actions due, overdue and not yet due. A second socket makes the
  liveness run too large for TLC without a view. `yloop_bounds`
  needs three readers and two calls per callback: two cancels and one
  register shrink the arrays below the dispatch count.
  `DueActionRuns` is stated for actions due before `MaxTime`. At the last
  modelled millisecond time stops, and a callback may repost, with delay
  0, an entry equal to the one that just fired, which would make "that
  action left the list" unobservable. Earlier, `Clock` is fair, so time
  moves past every repost.

### Reductions
- **Symmetry:** t2 and t3 have the same creation priority, and `Init`
  ranges over every creation order. Permuting them is therefore sound.
- **`VIEW MCView`** leaves out of the fingerprint the fields the code never
  reads before it overwrites them:
  - everything of a DELETED task, for the passing runs, where
    `DelDeletedTask = FALSE` and every API rejects a deleted task;
  - `tick_remain` of a task off the tick list (`tick_list_insert` sets it);
  - `mutex_list` and `owner_nested` of a free mutex (lock sets both).

  `del_deleted` runs without the view, because there a deleted task's
  `mutex_list` is read again.

### Deadlock
`CHECK_DEADLOCK FALSE` is set because `k_err_proc` halts the kernel (spec
§7), and the nesting overflow reaches it legitimately. A halted state has no
successor. Every other state can take a `Tick`, so deadlock checking would
find only halts. Unwanted halts are what `NoSysFatal` checks.

The timer runs do check deadlock. Without a halt, some step is always
enabled: a post, or a step of `timer_task`. Deadlock checking does not
stop when the clock reaches `MaxTime`.

### Fairness
Only the tick is assumed fair (`TickFairness` in `FairSpec`). The tick is
the hardware timer interrupt, which keeps firing while the kernel runs, so
`Tick` is weakly fair. Every tick increments `g_tick_count` (modelled as
its parity, `tick_count`), so a tick is never a stuttering step.
`<<Tick>>_vars` is therefore enabled exactly when the kernel has not
halted, and the fairness can be written as
`[]<>(fatal # "NONE") \/ []<><<Tick>>_vars`, which is `WF_vars(Tick)`
without the `ENABLED` operator. TLC evaluates that operator very slowly on
the nested state transformers.

In `YLoop`, `FairSpec` makes `Clock` weakly fair, because time passes. It
makes every step of the loop task weakly fair, including the return of
a callback, since callbacks must not block. A poll is fair only through
its timeout (`PollTimeout`), at the time `wake` computed when the
pollfds were filled: nothing is assumed of the sockets. The other task's
calls are not fair: it may call or not. When the
task calls `aos_loop_run` is also not constrained.

Nothing is assumed of the tasks. A task may call anything or nothing, so
no property depends on a task making progress. The liveness runs have no
`SYMMETRY` or `VIEW`, because neither is sound for liveness checking.

## 4. Not modelled, and the plan
- **Semaphores:** `krhino_sem_dyn_create/dyn_del` differ from create and
  del only in the `mm_alloc_flag` check and the heap calls; no passing run
  had the time to fire them with the rest, so they are left out.
  `peak_count` is a statistic.
- **Message queues:** `is_full` and `info_get` only read state. The
  dynamic variants are left out as for semaphores.
- **Create over a live object:** a create call on an object still in use
  re-initialises its pend list and strands its waiters (k_sem.c:17). The
  model enumerates creates on deleted storage only, so this misuse is
  listed as a hazard but not checked.
- **Software timers:** the callbacks' own effects are left out. A
  callback that calls the timer API is a caller like any other. Create
  with `auto_run` 1 (create, then a START post) is not enumerated. No liveness
  property is stated for timers ("an expired timer eventually fires"),
  because the clock is bounded: a timer overtaken as in `timer_order`
  waits for a later match that the bounded clock may never reach.
- **yloop:** `aos_loop_destroy` and the eventfd accessors are not
  modelled. Another task's post or exit through `g_main_ctx` is one step.
  The data race with the loop inside a list operation is not split into
  its C statements, and neither is a second task with a loop of its own. The
  `uint8_t reader_count` wraps at 256 readers, far beyond what TLC can
  enumerate. `max_sock` is written but never read, so it is left out.
- **Mutex refinement:** the mapping shows that hand-over picks a
  best-priority waiter. It cannot say who releases a mutex, so the
  `del_deleted` finding (a release by a dead task) is caught by
  `MutexChainIntegrity`, not by the refinement.
- **Ready-queue refinement**: an abstract specification of a set of ready
  tasks plus a "best priority runs" rule, shown refined by `KTask` through
  a mapping from `rq.list` to its set.
- **Left out for good:**
  - the SMP paths;
  - the heap itself: `krhino_mm_alloc` always succeeds in the modelled
    dyn creates, and `krhino_task_dyn_del` is modelled up to its
    hand-over on `g_res_list`;
  - `krhino_task_deathbed` returning after a refused self-delete. The
    code then returns to the port's task exit address, which is outside
    the model;
  - stack checks and statistics;
  - the interrupt mask. The hazard at k_task.c:737, an idle-task delete
    that returns with interrupts disabled, is therefore not reachable in
    the model.
