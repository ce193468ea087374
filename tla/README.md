# AsterOS userland: TLA+ specifications

AsterOS boots xnu and puts a userland of its own on it: a libc with threads, libdispatch,
libxpc, an Objective-C runtime, a dynamic linker and launchd as process 1. The kernel and the
trees under `src/src` are third-party code. What the project itself wrote and what is hard to
test in it is the userland's concurrency: libdispatch's worker pool, the locks, threads and heap it
stands on, launchd's threads over one table of daemons, and the XPC connections between daemons.
That is what is specified here.

Paths are relative to `src/userland/` unless they start with `src/`.

1. [The system](#1-the-system)
2. [Modules, and how they correspond to the code](#2-modules-and-how-they-correspond-to-the-code)
3. [Runs](#3-runs)
4. [Bounds](#4-bounds)
5. [Fairness](#5-fairness)
6. [Disagreements between the code and its documents](#6-disagreements-between-the-code-and-its-documents)
7. [Proofs](#7-proofs)
8. [Abstractions, and what is not modelled](#8-abstractions-and-what-is-not-modelled)
9. [Plan](#9-plan)

To check: `tlc -config X.cfg M` for a run, `tlapm M.tla` for the eight `*Proofs` modules.

## 1. The system

| Part | State | Operations | Hard because | Correct when |
|---|---|---|---|---|
| **libdispatch queues** (`libdispatch/dispatch_queue.c`) | per queue: FIFO of items, `draining`, `on_runnable_list`; `g_runnable` list of queue nodes; a thread-local "queue I drain" | `dispatch_async`, `dispatch_sync`, worker loop | two locks taken one after the other, never together; serial and concurrent queues share the pool; a sync item points into its caller's stack | a serial queue runs one item at a time, in order; no item is left behind; `dispatch_sync` returns after its block and never before |
| **object lifetime** (`dispatch_object.c`) | `refcount` | retain, release, destroy | items, nodes and workers hold no reference | memory is not used after the last release |
| **semaphores** (`dispatch_semaphore.c`) | `value`, mutex, condition | signal, wait now / until / for ever | the timeout races the signal; the condition is a polled counter | no permit lost or given twice |
| **groups** (`dispatch_group.c`) | `count`, notify list, condition | enter, leave, notify, wait | the list is detached under the lock and pushed outside | a note runs once, after all it was owed |
| **timers** (`dispatch_time.c`) | sorted list of deadlines | `dispatch_time`, `dispatch_after`, timer thread | clock read before the lock; a nearer timer arrives during the sleep; unsigned wrap | never early, in order, at most one poll cap late |
| **once** (`dispatch_once.c`) | three-state token | `dispatch_once` | waiters spin | the block runs once, and before anyone returns |
| **mutex, condition** (`libc/src/pthread.c`) | `owned`; `gen` | lock, unlock, signal, broadcast, (timed) wait | spinning; generation polled without the mutex | exclusion; no lost wake-up |
| **threads** (`libc/src/pthread.c`) | list of threads with their stack ranges, `finished`, `detached`; `g_reg_state` | create, join, detach, return, reap | a thread cannot unmap the stack it runs on; addresses are used again; a thread knows itself by its stack pointer | each stack freed once, when nobody runs on it; a thread finds its own struct |
| **rwlock, keys, once** (`libc/src/pthread.c`) | readers, writer; slots | rdlock, wrlock, ... | no queue of waiters | exclusion of writers |
| **malloc** (`libc/src/malloc.c`) | one chain of chunks over all mmap'ed blocks, a lock with a watchdog | malloc, calloc, realloc, aligned_alloc, free | the watchdog breaks the lock; sums and products wrap | chunks tile the memory; blocks lie apart and aligned; every call returns |
| **nanosleep** (`libc/src/time.c`) | one process-wide interval timer and SIGALRM disposition | nanosleep, usleep, alarm | shared by all threads; a signal may wake another thread | a sleeper wakes; no timer is left behind |
| **launchd supervision** (`launchd/launchd.c`) | `g_daemons` table (label, pid, unloaded, flags), `g_daemons_lock`, `g_shutdown_requested` | boot, wait4 loop, respawn, shutdown | the loop works without the lock the control thread takes; signals between a test and wait4; the respawn throttle sleeps on the shared timer | every exit reaped, KeepAlive restarted, unloaded left alone, everyone asked to terminate before the halt |
| **launchd control** (`launchd/control_server.c`, `lc_*`) | the request being served | list, start, stop, load, unload | runs against the loop and against the shutdown | replies tell the truth, lock released, labels unique |
| **bootstrap registry** (`launchd/bootstrap_server.c`) | name -> send right, references to it | register, look up | a respawned daemon registers again | one reference per entry; a respawned service gets its name back |
| **XPC connections** (`libxpc/xpc_connection.c`) | per connection: ports, peers, pending requests, receive thread, `suspend_count`, `cancelled` | activate, resume, suspend, cancel, send, send with (sync) reply, receive | two threads and a target queue; requests outlive connections; the service crashes | messages handled in order; each request answered once; no caller left waiting |
| **XPC objects** (`libxpc/xpc_*.c`) | reference-counted trees | get, set, serialise | truncated input | decode after encode is the identity |
| **libobjc** (`libobjc/arc.c`, `autorelease.c`) | side tables of counts and weak references; pool stack | retain, release, weak load, push, pop | fixed-size tables | objects live exactly as long as referenced |
| **dyld** (`dyld/*.c`) | loaded images | load, rebase, bind, initialise | cycles | dependencies before dependents |
| CoreFoundation, Foundation, Security, plist parser, launchctl, shell, tests, boot loader, build tools | sequential | | | |

How they interact. A client of libdispatch pushes an item on a queue; the push may owe the pool
a *runnable node*; a worker pops a node, then locks the queue and runs items. `dispatch_sync` is
a push followed by a wait on a private semaphore, which the item's trampoline signals. Groups,
timers and XPC connections end in the same push (`_dispatch_queue_push_item`). Semaphores,
groups and the pool are made of libc mutexes and condition variables. launchd's main thread
forks daemons and waits for them in `wait4`; its control thread receives launchctl's requests as
Mach messages and calls the `lc_*` functions; both call `spawn_daemon`. Daemons register with
the bootstrap thread, and XPC clients look them up there.

## 2. Modules, and how they correspond to the code

| Module | Models | Composed with |
|---|---|---|
| `Executor` | the abstract promise of libdispatch queues | |
| `DispatchQueue` | `dispatch_queue.c` | refines `Executor` through `INSTANCE` |
| `DispatchQueueProofs` | theorems about it | |
| `DispatchLifetime` | reference counts of queues | extends `DispatchQueue` |
| `DispatchSemaphore`, `DispatchSemaphoreProofs` | `dispatch_semaphore.c` on `pthread.c`'s mutex and condition | |
| `DispatchGroup`, `DispatchGroupProofs` | `dispatch_group.c` and theorems | |
| `DispatchTimer`, `DispatchTimerProofs` | `dispatch_time.c` | |
| `Launchd`, `LaunchdProofs` | `launchd.c`, `launchd_ops.h`, `control_server.c`; of `time.c`, nanosleep | |
| `BootstrapRegistry` | `bootstrap_server.c`, and its clients in `libc/src/mach_bootstrap.c` | |
| `RequestReply` | the abstract promise of a connection | |
| `XpcConnection`, `XpcConnectionProofs` | `xpc_connection.c`, and the life of a service; theorems also about the registry | extends `BootstrapRegistry`, refines `RequestReply` |
| `PthreadLifecycle`, `PthreadLifecycleProofs` | create, join, detach and reaping in `pthread.c` | |
| `Heap` | the abstract promise of malloc | |
| `Malloc`, `MallocProofs` | `malloc.c` | refines `Heap` |
| `MC*` | instances for TLC | |

**DispatchQueue.** One action is one critical section of `q->lock` or `g_runnable.lock`; threads
interleave between them. `PushItem` is `_dispatch_queue_push_item` (allocate, append, decide
`should_push`), `RunnablePush` is `runnable_push`; between the two the thread is at pc `push` and
the queue is marked `on_runnable_list` though no node is on the list. `PopNode` is
`runnable_pop_blocking`; then the worker holds a node and not yet the lock (`node`). `StartDrain`
clears `on_runnable_list` and claims the queue, `DrainNext` is a later turn of the drain loop,
`RunConcurrent` takes one item for one node. `ItemReturn` is the end of `item->func`, with the
trampoline's signal and the reset of the thread-local key. `DispatchSync` pushes and then waits;
`SyncReturn` pops the frame; `DispatchSyncAbort` is the diagnosed self-deadlock. While a block
runs, its worker is at pc `user` with `node` set, so blocks call the library themselves, as
`AsyncCalls` and `SyncCalls` (relations between the calling queue and the target) allow.

**Executor.** Each queue has a sequence of pending items, a set of running ones; `Start` takes the
head, on a serial queue only if none runs. The refinement maps `pending` to `fifo`, `running` to
the items with status "running" and `finished` to those "done": locks, flags, nodes and workers
disappear.

**DispatchLifetime** adds `refcount` and `destroyed`. Its client is careful: it releases a queue
only when every item it pushed has run and every `dispatch_sync` on it has returned.

**DispatchSemaphore** goes one level lower: `Lock` is the successful exchange, `Sleep` reads the
generation under the mutex and releases it, `Wake` and `Timeout` are one poll each, `Unlock` is
the releasing store, `Release` the private semaphore's free. A behaviour is about a shared semaphore or,
with `private`, about the one `dispatch_sync_f` makes: created with 0, signalled once, waited for once and
freed by its waiter.

**DispatchGroup**: a task is one balanced enter/leave, a note one `dispatch_group_notify`, a waiter
one `dispatch_group_wait`. The leave that finds the count at one detaches the notify list and
broadcasts in one step, then pushes note by note. `owed` is history: the tasks that were in when a
note or a waiter called.

**DispatchTimer**: `DispatchTime` computes the deadline, `DispatchAfter` reads the clock, `Insert`
puts the node in the list, each a separate step with time free to pass between. `Fire`,
`StartNap`, `PushFired`, `Arm`, `Wake` are `timer_main`. `asked` is the exact time the caller meant and
`busy` the time that passed while the timer thread (or a caller about to insert) was running or kept from
running rather than asleep; both are history.

**Launchd**: `jobs` is `g_daemons`, `lock` is `g_daemons_lock`, `proc` and `owner` are the kernel's
processes and what they were forked for. The main thread goes through boot (under the lock), the
loop (`CheckShutdown`, `EnterWait4`, `WaitReturns`, `FindExited`, `HandleExit`, then `spawn_daemon`
for a respawn: no lock, as in the code) and `do_shutdown`: `SignalNext` for each entry, also without the
lock; `CatchAlarm`, `ResetAlarm`, `SetAlarm`; `DrainTest` ... `DrainExited`.
The control thread is `Receive`, `TakeLock` and one `lc_*` action per request; a start or a load
that spawns keeps the lock over all of `spawn_daemon`. That is `Nap`, `Fork` (or `ForkFails`) and `Store`.
`Nap` is the throttle, and one action per system call of `nanosleep`: `Throttle` installs the handler, `Arm` sets
the timer, `Suspend` enters sigsuspend, from which only a signal handled by this very thread leads on,
`Disarm` and `Restore` clean up. `itimer` and `handler` are one for both threads and for `do_shutdown`'s alarm;
`Sigalrm` under SIG_DFL ends PID 1 (`killed`). `Wedged` says of a sleeper that the timer it waits for is gone.
`Exit`, `Reparent`, `Sigterm`, `Sigalrm` are the world. `escaped` is history: the entries for which a
start raced main's respawn, or whose pid a command stored when the loop of kills had passed them.

**BootstrapRegistry**: `services` is `g_services`, `rights` the user references launchd holds for each port.
`Ask` is a client's call up to `mach_msg`, `Serve` one turn of `server_thread_main`, which is the only thread
that touches the list. Nothing tells the registry of a death.

**XpcConnection**: a client's thread (`Activate` ... `Collect`), its receive thread (`Receive` ...
`ReceiverEnds`), the listener's one receive thread (`ReceivePeer`, `Accepted`, `DeliverToPeer`), the service's
serial target queue (`RunAccept`, `RunEvent`, and the handler's `HandlerReplies`, `HandlerSends`,
`HandlerReturns`), and the process of the service (`StartListener`, `ListenerUp`, `Crash`). A request is
numbered (`Send`), put on the pending list (`AddPending`), sent (`SendWire`) and waited for (`Collect`), each
its own step as in the code. `Complete` is `complete_pending`, which takes the first entry of the reply's msgid
(`Found`) off the list; the proofs show that there is no second. `PortDied` detaches the pending list, `FailNext` fails it entry by entry. The
service is that of `xpctest.c`: its listener handler gives each peer a handler, which replies.

**RequestReply**: per end of a connection a channel of messages in the order sent; `Handle` takes the head,
`Lose` needs the end to be cancelled, `Settle` answers a request once. The refinement maps a peer's channel
to what is in its queue's items, the listener's hand and the listener's port, in this order.

**PthreadLifecycle**: any thread creates, joins, detaches and returns. `CallCreate`, `Ensure`, `BsdRegister`,
`Reap`, `ReleaseDead`, `Mmap`, `Register`, `BsdCreate` are the stages of `pthread_create`; `Unregister` and
`Munmap` its error path and the end of `pthread_join`; `Return`, `Finish`, `Terminate` the trampoline. `Mmap`
takes any range that is not mapped, so a dead thread's range comes back at once.

**Malloc**: `heap` is the chain from `g_head` as a sequence of chunks with byte addresses and sizes.
`Allocations` is `malloc_nolock` (first fit, `Carve`, or a block from `arena_grow` wherever mmap puts it),
`Coalesced` the single pass of `free_nolock` (`Look` is its turn for one chunk, `Pass` the chain after each
turn), `Shifted` the extra cut of `aligned_alloc`; `Overflows` and
`Align16` count modulo `SizeSize`. A call is `Enter`, `Lock` or `BreakOpen`, `Begin`, the end of its edit (`Work`), `Unlock`.
`BreakOpen` needs a lock that is taken, and nothing of its holder, as line 84 asks nothing: every other thread may
be made to wait that long. `Leak` is a thread that never gets to release the lock, in the middle of an edit
or not. An edit takes effect at its end; that stands for the edit only if it had the chain to itself and
was finished. `torn` is the history of the contrary: from a `Begin` beside another editor, or a `Leak` while editing, the
contents of the chain are not described, and the properties of the chain are claimed up to there. `broken`
says that the watchdog has struck. **Heap** knows the blocks of the callers alone.

## 3. Runs

| Run | Instance | Properties | Distinct states |
|---|---|---|---|
| `queue_safety` | 2 clients, 2 workers, 2 serial queues and a concurrent one, 4 items, any call from anywhere | `TypeOK` `SerialOrder` `SerialExclusion` `NoStrandedItem` `SyncFrameAlive` | 668 406 (threads up to symmetry) |
| `queue_promises` | the same pool, 3 items, an acyclic call graph | `ImplementsExecutor` `EveryItemRuns` `EverySyncReturns` | 79 374 |
| `semaphore` | 3 threads, 3 signals, 3 waits of any kind, initial value -1; or a private semaphore | `TypeOK` `NoLostWakeup` `NoUseAfterFree` `PermitIsUsed` | 87 839 |
| `group` | 3 tasks, 2 notes, 1 waiter | `TypeOK` `NotifyAfterLeave` `WaitMeansLeft` `EveryNoteIsPushed` `EveryWaitReturns` | 352 276 |
| `timer` | 2 calls, 4-bit times, cap 2 | `TypeOK` `NeverEarly` `LatenessBound` `EveryTimerFires` | 254 183 |
| `launchd` | 2 daemons at boot, 2 to load, 2 commands, 2 exits, 1 orphan or failed fork, SIGTERM | `TypeOK` `HaltedMeansSignalled` `KilledByOverlapOnly` | 4 002 522 |
| `launchd_progress` | the same with 1 to load and 1 command | `Supervision` (`EveryZombieReaped` and `KeepAliveRestarts`) `CommandsEnd` | 277 796 |
| `xpc` | 1 client, 2 messages, 1 event, 3 disturbances, service started twice | `TypeOK` `RightsBalanced` `ImplementsRequestReply` `RequestsAnswered` `ServiceComesBack` | 103 083 |
| `threads` | 3 creates, 2 stack ranges | `TypeOK` `CurrentIsSelf` `ReleasedOnce` `CallsReturn` `ReclaimedAtNextCreate` | 98 389 |
| `malloc` | 2 threads, blocks of 40 and 170 bytes, a product that wraps, alignment 64, an arena of 192 bytes, 3 blocks, 1 leaked lock, any number of breaks | `TypeOK` `LockExcludes` `ImplementsHeap` `CallsReturn` | 745 328 |
| `lifetime` | 1 client, 2 workers | `NoUseAfterDestroy` | violated |
| `launchd_unload` | 1 KeepAlive daemon, 1 command, 1 exit | `NoRespawnAfterUnload` | violated |

What they show. *Queues:* the handshake of `on_runnable_list` and `draining` gives each serial
queue exactly one owner at a time (a pusher, a place on the list, a worker with the node, a
drainer), so nothing is drained twice and nothing stranded, whatever the interleaving of the two
locks. *Semaphores:* reading the generation before the mutex is released is what makes the polled
condition variable lose nothing; a timeout that races a signal gives the permit to one party.
*Groups:* a note registered while the last leave detaches is either in the list or fires itself.
*Timers:* inserting with a stale clock reading never fires early; the cap bounds how late a timer
in front of the sleeping thread's is, whatever time code itself takes. *launchd:* the
supervision loop reaps and restarts, and launchctl's commands end, as long as the two threads do not sleep at
once; the table never confuses two entries, and a halt has signalled everyone but those the unlocked
accesses let escape, with launchctl at work beside it. One thread that sleeps cleans up after itself whatever
wakes it; two do not (section 6). *XPC:* the synchronous accept is what keeps a new client's first messages;
listing a request before it is sent is what gets it answered; replies that come twice or late change
nothing; a second registration of a name gives the old right up exactly once. *Threads:* taking finished
detached threads off the list under the lock and freeing them outside frees each once and leaves no range
on the list that a new thread's stack may get. *malloc:* the cuts, the single-pass coalescing, also across
blocks that happen to touch, and the checked product never let two blocks overlap or lose a byte of the
arena, and a lock leaked and broken open outside an edit costs nothing; past a leaked lock every caller still gets on. What a
break into an edit does to the chain is left open; that it may happen without a leak is in section 6.

Deadlock checking is off everywhere but in `malloc`: clients may stop calling, all items may be used up, the halted
system stops, and after `abort()` the process does nothing more.

Each property of each passing run has a mutant in `PROJECT.json`, an operator `Mutant: ...` beside the
original, that breaks it.

## 4. Bounds

- **Items** (`MaxItems`): a thread can disagree with another about one queue at a push, a pop and a
  drain; two items for one serial queue and one for another already produce all of these, and the
  fourth lets a sync call nest in a block while a third party pushes. The proofs need no bound, here or below.
- **Workers**: two is the least pool with a race between workers, and it is the pool's minimum.
- **GenSize** is above `MaxSignals` on purpose (`SemaphoreAssumption`): a waiter not scheduled for
  exactly 2^32 signals is not modelled.
- **Semaphore** waits and signals: three of each; with a debt of one the last two signals wake, so two
  waiters can be woken for one permit and a timeout can race either.
- **Groups**: three tasks let the count reach zero and rise again while a waiter has been woken and a
  detached list is half pushed.
- **Timers**: `TimeSize` 16 with deltas -8 to 5 lets a time before the epoch occur (it becomes 0);
  `MaxTime` bounds the calls, not the firings. The clock, a delta added, does not reach the wrap
  (`ClockAssumption`: it is below 2^63 ns until 2262, and a delta is an `int64_t`).
- **launchd**: `MaxCommands`, `MaxExits` and `MaxUnusual` (orphans and failed forks) count events of the
  world; `MAX_DAEMONS` is the code's own bound, small enough to be met by loads. Two exits give two zombies at
  once, and a respawn that sleeps while a start does; for that one command is enough, which is what liveness is checked
  with. Two commands can unload a label and load it again; longer sequences are left to `LabelsUniqueHolds`.
- **XPC**: `MaxSends` messages that are not replies, `MaxEvents` of them from the service, `MaxFaults`
  disturbances. Two requests can be outstanding at once, and the disturbances are a cancel under a crash, a
  second reply to a cancelled client, a suspension at both ends. `Ports` is the number of lives of the
  service. There is one client: a second adds another independent channel; what two share, the listener's
  thread and queue, is in the invariants proved for any number of clients (section 7). With two clients and `MaxFaults`
  1 the run passes too, in 165 361 states.
- **Threads**: with two ranges and three threads a range is used again while both its former owner's
  struct and a reaper's list may still name it.
- **malloc**: sizes are chosen against an arena of 192 bytes so that a block fits twice, once, or needs a
  block of its own; the two places for mmap touch. `SizeSize` 1024 makes one product wrap. Either thread may
  break into the other's edit, or find the lock released by one that had not taken it.

## 5. Fairness

xnu preempts threads, including those that spin, so a thread that can go on goes on: weak fairness
of every step the library or launchd takes by itself. Starting a call is the client's choice and is
never fair; no process need exit, no signal need come. Exceptions:

- `Lock` of a semaphore's mutex has strong fairness: the exchange loop is no queue, so progress needs
  a thread not to find the mutex taken at every one of its attempts.
- `DeadlinePasses`, `Tick`: time passes.
- `EverySyncReturns` is checked where blocks do not wait for each other in a circle and never need more
  workers than there are: the fixed pool does not promise more.
- `KeepAliveRestarts` says nothing once a command has been given or a fork has failed (section 6; a failed
  fork is not retried).
- `LatenessBound` allows for `busy`: "worst-case lateness" in the code means lateness beyond scheduling delays.
- XPC: whoever suspends a connection resumes it, and the service's handler replies and returns. No call
  need be made, and nothing need crash. launchd respawns what crashed.
- `Lock` of malloc's spinlock has strong fairness, for the same reason as a mutex, and a thread that keeps finding
  it taken comes to its last spin (`BreakOpen`); who is in an edit comes to its end (of `pc` alone, as the
  edit may leave the memory as it was).
- launchd: both threads run, and a timer that is armed expires (`Sigalrm`). Which thread handles the signal is
  xnu's choice (`Handled`), so nothing makes a sleeper wake: `KeepAliveRestarts`, `EveryZombieReaped` and
  `CommandsEnd` name the state of a sleeper whose timer is gone (`Wedged`) as one they end in, and
  `CommandsAnswered`, which does not, is refuted.
- Start routines return, and no thread joins itself or one that waits for it (`CallJoin` joins later threads
  only): else `pthread_join` need not return.

## 6. Disagreements between the code and its documents

Two have a run that shows them.

- **`lifetime`**: `worker_main` locks `q->lock` once more after an item returned
  (`dispatch_queue.c:273`). Nobody holds a reference to the queue for it. `test_sync` in
  `libdispatch/test/dispatchtest.c:54-58` releases the queue right after `dispatch_sync` returned, by
  which time the worker may not have locked it again: use after free.
- **`launchd_unload`**: `launchd.c:466-469` says an unload cannot race the reap loop, "both under this
  same lock". The loop does not take the lock: an unload between `find_by_pid` (564) and `spawn_daemon`
  (572) is followed by the fork of an unloaded daemon.

More came up while the models were written. Those with a name in parentheses are stated in the module and TLC
refutes them if the definition is put in the cfg: the invariants in that of the run `launchd` or `malloc`, the liveness
properties in `launchd_progress`, if nothing else is said.

*launchd*

- A start between main's `d->pid = 0` (570) and its respawn finds pid 0 and forks too: two processes,
  one forgotten, where `launchd_ops.h:28` says "already running (no-op)". (`OneProcessPerJob`.)
- `launchd_ops.h:6-7` says the calls block at most for the throttle's sleep. That sleep ends when *this* thread
  handles a signal; xnu may give SIGALRM to another thread, as `libdispatch/dispatch_time.c:143-151` tells of its
  own, and then launchctl is never served again, the lock being taken. (`CommandsAnswered`.)
- `time.c:135-144` disarms the timer so that it cannot kill PID 1 later. With both threads asleep the first to
  leave restores SIG_DFL (149) under the other's timer. (`NeverKilled`.)
- `do_shutdown` (488) neither takes the lock nor stops the control thread: a daemon stored behind the loop of
  kills is alive, and not signalled, at the halt, where line 479 says "every supervised child".
  (`EverySupervisedSignalled`.)
- `time.c:104-105` says nothing sleeps while an alarm of the same process is outstanding. The control thread
  does, during `do_shutdown`'s drain. (`NoNapDuringAlarm`.)
- SIGTERM between the test of `g_shutdown_requested` (549) and `wait4` (555) interrupts nothing, and the "bounded
  shutdown" (6-7) waits for some child to exit. (`ShutdownBegins`.)
- The alarm of the drain has the same window: fired between the loop's test (501) and `wait4` (503), or handled by
  another thread, it does not interrupt the wait, and nothing bounds the drain.
- A daemon forked by the control thread may exit, and main reap it, before `d->pid = pid` (321) is
  stored. Main does not find the pid, and the entry then holds the pid of a process that is gone: the
  KeepAlive daemon is never restarted. (`KeepAliveRestarts` without `commands > 0`.)
- `do_shutdown` (489) signals the pids of unloaded entries, which `launchd.c:44` says are "excluded
  from ... shutdown" and whose pid is never cleared.

*libxpc* (`xpc_connection.c`)

- "p itself is freed by the waiter" (248), and `fail_all_pending` frees it as well (352): cancelling a
  connection under a caller of `..._with_reply_sync` is a double free, after a read of freed memory (630).
  (`FreedOnce`; the constants of `MCXpcConnection.cfg`.)
- "can't leave a caller blocked forever" (336): a request put on the list (621-624, 599-602) after the receive
  thread has failed all pending ones and ended is never answered, nor is a synchronous request on a
  connection whose look-up failed, which has no receive thread. (`CallersReturn`, under `FairSpec`.)
- `recv_thread_main` sets `cancelled` (387) before it delivers `XPC_ERROR_CONNECTION_INVALID` (398), and
  `deliver_event` drops every event of a cancelled connection (176): no handler ever sees it.
- A suspended peer blocks the listener's only receive thread in `deliver_event` (170), and so every other
  client of the service until it is resumed.
- A listener handler that makes a synchronous request of the peer it is given waits for a reply only the
  receive thread can take, which waits for the handler (299).
- A second `xpc_connection_cancel` destroys the same port name again (525), which may be another port by then.
- A reply carries a send right like any message, and only the listener's side gives the extra reference up
  (275); a client's thread does not.
- `libxpc/include/xpc/connection.h:32` says `name` is "not used for lookup"; `activate` looks it up (460).

*libc*

- `pthread.c:198` wants the kernel never to reclaim "the stack we're currently running on". `finished` is stored
  (197) while the thread still runs on it: a joiner, or a creator that reaps, may unmap it before
  `bsdthread_terminate`. (`StackOutlivesThread`.)
- `malloc.c:55-61` takes 20000 spins for proof of a leak, and says nobody else can edit the chain. A holder that was
  only not scheduled for so long is broken into (`TornByLeakOnly`), and two that spin on a leaked lock may both edit.
- `malloc.c:191` reads `tail->next` of a NULL `g_head` when the very first mmap failed.
- `align16` wraps for the last 15 sizes, and the sums in `arena_grow` (116) and `aligned_alloc` (316) are not
  checked; `MallocAssumption` leaves such sizes, sums and products out, and `MallocImplementsHeap` is false
  without it.
- The coalescing pass merges pairs (227-231): a chunk that has absorbed its successor is not compared with the
  next, so adjacent free chunks may remain. Nothing is lost, and a later pass may merge them.

## 7. Proofs

**DispatchQueueProofs** proves, for any queues, workers, clients, number of items and call relations
satisfying `QueueAssumption`:

- `Invariance`: `IInv` is inductive. `IInv` is `TypeOK`, `ControlInv` (what a pc says of the
  thread's other variables), `OwnerInv`, `ItemInv`, `SyncInv`, `SerialOrder`, `SyncFrameAlive` and
  `NoSelfDeadlock`.
- `TypeCorrect`, `SerialOrderHolds`, `SerialExclusionHolds`, `NoStrandedItemHolds`, `SyncSafe`.
- `Refinement`: `Spec => ImplementsExecutor`. A push is a `Submit`, the turn of the drain loop that
  takes an item a `Start`, the item's return a `Finish`; every other step is a stutter.

The argument. Nothing in the code forbids two workers to be inside the drain loop of one queue; they
are kept apart because a serial queue always has exactly as many owners as its two flags say:
`on_runnable_list` goes with one pusher, place or holder, `draining` with one drainer, and with
both flags clear there is none. That is `OwnerInv`, by itself inductive given types and control.
`SerialOrder` is not: it needs that identities grow along a FIFO, that queued items are exactly the
ones in the FIFOs and running ones exactly those some worker executes (`ItemInv`), and that a
serial queue's running item has its one drainer (`OwnerInv`), so that the head starts when all
older ones are done. `SyncFrameAlive` needs that a private semaphore is positive only after its item
is done, and `NoSelfDeadlock` that the thread-local key is the queue being drained whenever a block of
a serial queue runs (both in `SyncInv`).

**DispatchGroupProofs** proves for any finite set of tasks and any notes and waiters: `GroupInvariance`
(the count is the number of tasks that are in; listed notes imply the count is positive; a task
recorded as owed is never "out" again, and has left once the note or waiter was released),
`NotifyIsSound` (`NotifyAfterLeave` and `NoNoteStranded`) and `WaitIsSound` (`WaitMeansLeft`).

`GroupTypeCorrect` is `TypeOK`: the count is the number of tasks that are in.

**DispatchQueueProofs** also proves `OneNodePerItemHolds`. Its invariant is a balance per concurrent queue:
places on the runnable list, nodes in workers' hands and pushes under way are together exactly as many as the
queued items (`NodeBalance`), so a worker that pops a node always finds an item.

**DispatchSemaphoreProofs** (any threads, any initial value, signals and waits at least one each and fewer
signals than the generation counter has values):

- `SemaphoreInvariance`: the critical sections exclude each other (`MutexInv`); the signals
  made are those posted and those whose signaller has not come to it yet (`CountInv`); the generation is at most
  the number of posts, and no sleeper has read a later one (`GenInv`); a private semaphore sees one signal and one
  wait, and once its permit is granted no signaller is left in the call (`PrivateInv`).
- `PermitsAreCounted` (`TypeOK`: the value is the initial one plus the posts minus the permits
  granted), `WakeupIsNotLost` (`NoLostWakeup`), `FreedWhenIdle` (`NoUseAfterFree`). The last
  rests on the order in `dispatch_semaphore_signal`: its waiter can pass only once the mutex has been released,
  so no signaller touches the memory after the waiter is free to give it back.

**DispatchTimerProofs** (any calls, deltas, cap and width of the clock under `ClockAssumption`):

- `TimerInvariance`: who is on the list, and that what was taken off was due (`ListInv`, `DeadlineInv`: a
  deadline is at or after the time asked for, saturation at the epoch included), and how long the thread can
  still sleep past each listed deadline (`LateInv`).
- `TimerListSorted` (`TypeOK`), `TimersAreNeverEarly` (`NeverEarly`), `LatenessIsCapped` (`LatenessBound`). For the
  last the invariant speaks of the nap under way, whose remainder is below the cap whatever is inserted meanwhile.

**PthreadLifecycleProofs** (any number of creates, any nonempty set of stacks):

- `LifecycleInvariance`: a thread whose struct and stack exist is kept in exactly one place, which is the list, one
  create's list of dead, or the hands of one creator or joiner (`BusyInv`, `DeadInv`, `FreedInv`); no two kept threads
  have one stack (`StackInv`); a thread that has not finished is on the list (`LifeInv`).
- `LifecycleTypeCorrect` (`TypeOK`), `CurrentIsSelfHolds` (`CurrentIsSelf`), `ReleasedOnceHolds` (`ReleasedOnce`).

**XpcConnectionProofs** (any clients, names and ports, crashes and cancellations at any time):

- `XpcInvariance`: one right per registry entry of a port (`RegistryOK`), and for each thread that what its next
  step uses is there: the message it holds, the call it makes, the listener's port. The msgids on a pending list
  are distinct and not above the last one given out (`Distinct`), which needs that the request being put on the
  list has a msgid that no entry has.
- `XpcTypeCorrect` (`TypeOK`), `RightsAreBalanced` (`RightsBalanced`).

**LaunchdProofs** (any plists, boot set and size of the table, commands, exits and failed forks in any number):

- `LaunchdInvariance`: the lock is where the two threads' pcs say (`LockInv`); a spawner works on an entry of the
  table, and the pid it is about to store was forked for it (`SlotInv`); the pids in the table have been forked
  (`PidInv`); the supply of pids is never used up (`SupplyInv`); what main has reaped stays reaped (`MainInv`); and an entry
  that has not escaped tells all (`EntryInv`).
- `LaunchdTypeCorrect` (`TypeOK`), `LabelsUniqueHolds` (`LabelsUnique`), `KilledByOverlapOnlyHolds`
  (`KilledByOverlapOnly`).
- `HaltedMeansSignalledHolds` (`HaltedMeansSignalled`), with any number of commands beside the shutdown.

The argument for the last is per entry (`EntryOK`): a process alive for it is the one in the table or the one a spawner
is about to store; who spawns for it finds pid 0 and does so alone; and once the loop of kills has been past it, what is
alive is signalled, or has been forked by the control thread since. Each step works on at most one entry
(`Unaffected` for the others), and the two that break it, a start beside main's respawn and a store behind the loop, put the
entry in `escaped`. `KilledByOverlapOnly` needs that before the first command main is alone with the timer, so that
it is armed only inside main's nap or under `on_sigalrm` (`NapInv`).

**MallocProofs** (any threads, sizes, products, alignments and places for arenas within `MallocAssumption`):

- `MallocInvariance`: unless the chain is torn, a byte is in a chunk exactly if mmap gave it, and in one chunk only
  (`Tiles`), and the chunks in use are the callers' blocks, one for one, and as big as was asked (`Owned`); until the
  lock was broken open, who is inside holds it, alone, and the chain is torn only by a leak (`LockOK`).
- `MallocLockExcludes` (`LockExcludes`), `MallocTypeCorrect` (`TypeOK`), and `MallocImplementsHeap` (`ImplementsHeap`),
  for any number of threads, breaks and leaks: the first until a break, the others until the chain is torn. Of what
  two threads do to each other in one chain they say nothing, and the code promises nothing.

The argument is about bytes, not about neighbours: coalescing across blocks that touch, and blocks that come in any
order of addresses, need no case of their own. Each edit of the chain has a lemma that says which bytes its chunks
hold and which chunks are in use afterwards (`Marked`, `Cut`, `Appended`, `Absorbed`), each call a lemma built from
these (`CarveTiles`, `GrownTiles`, `ShiftedTiles`, `FreedKeeps`). The pass over the whole chain is proved by induction
over its turns (`LookKeeps`, `CoalescedKeeps`): the set of the turns for which the claim holds contains 0 and every
successor, and a least counterexample exists because `<` is well-founded on the naturals (`IntervalInduction`).

Every invariant of every passing run is so proved for all values of its module's constants, and two of the three
refinements. Model-checked only:

- all liveness: fairness and ENABLED are out of the prover's reach;
- `ImplementsRequestReply`: `SelectSeq` with a lambda, through which the channels are read off the queues, is
  opaque to the provers;
- the runs that end in a violation.

## 8. Abstractions, and what is not modelled

- A block is opaque: it makes the calls its queue's relation allows and returns. Outside `Malloc` and
  `PthreadLifecycle` memory allocation succeeds, and the pool's threads exist.
- Groups do not compose with `DispatchQueue`: a pushed note is in `pushed`, and what happens then is
  `PushItem`'s affair. The same holds of timers.
- The critical sections of groups, queues and timers are atomic because the mutex is one
  atomic exchange; condition variables are polled in `DispatchSemaphore` and `DispatchGroup`, while a worker
  waiting for a node is simply not enabled.
- The clock moves only forward; `dispatch_walltime` is `AddDelta` on another base.
- plists are records of a label and two flags; labels of the boot set differ. Pids are never reused.
  The respawn throttle takes any time, and none if the daemon was started long ago; logging and message formats
  are left out.
- A signal is handled by the main thread or, with `SignalsToMain` FALSE, perhaps by another; if main
  handles it in `wait4` the call returns EINTR, and whoever handles it in `sigsuspend` goes on. A process asked to terminate may ignore it.

- XPC messages are opaque and always serialize; a message to a dead port is lost, as `send_wire` loses it, and
  one to a dead listener's port in a client's hand is never redirected. Ports are not used again after their
  death. The target queue is a FIFO whose items run one by one (`Executor`), and each client delivers
  to a queue of its own, at once.
- A thread calls `pthread_join` or `pthread_detach` once for a joinable thread, as POSIX asks. The contents of
  malloc's blocks, and `CHUNK_SCAN_LIMIT`, which only a corrupted chain reaches, are left out.

Not modelled, of the parts that are:

- connections: requests a peer makes of its client, a cancelled listener, a connection used by more than one
  thread, finalizers and contexts, release of a connection;
- `pthread.c`: read-write locks, keys, `pthread_once`, recursive mutexes, trylock, `pthread_exit`;
- groups' and timers' references to queues.

Not modelled at all, and why, is in "components" of `PROJECT.json`: `dispatch_once` (one exchange decides, and
nothing can come between that a test would miss), sequential code without interleaving (stdio, the Objective-C runtime, CoreFoundation, the plist
parser, launchctl, SecItem, whose every call is one critical section), byte-level decoding (dyld's opcodes, the
XPC serializer), input and output (shell, tests), and third-party code, which is nearly all of the tree by
size.

## 9. Plan

The models are written and their invariants proved. What is left to prove, in this order:

1. `ImplementsRequestReply`. `Events` and `Dispatched` would become recursive functions, as `Pass` is in `Malloc`, with
   lemmas on appending and on the tail by `IntervalInduction`. The invariant needed besides `XpcInv`: tags in flight,
   handled and outstanding are distinct; a reply in an inbox is to a request that was handled, and the entry of its
   msgid on the pending list is that request's; a request is unanswered while it is on a list.
2. `DispatchLifetime` with the missing reference added: that the repaired code never uses a destroyed queue.
3. Action properties of the shutdown and of the registry: `g_shutdown_requested` is never taken back, a name once
   registered always has an entry.
