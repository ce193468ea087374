---------------------------- MODULE DispatchQueue ----------------------------
(***************************************************************************)
(* libdispatch: dispatch queues, the worker pool that drains them, and     *)
(* dispatch_async / dispatch_sync (userland/libdispatch/dispatch_queue.c). *)
(*                                                                         *)
(* One action is one critical section: everything the code does between    *)
(* pthread_mutex_lock and pthread_mutex_unlock of q->lock or of            *)
(* g_runnable.lock.  The steps BETWEEN critical sections are where threads *)
(* interleave: a queue is marked on_runnable_list under q->lock and only   *)
(* later pushed on the runnable list under g_runnable.lock, and a worker   *)
(* pops a runnable node under one lock before it takes the other.          *)
(***************************************************************************)
EXTENDS Naturals, Sequences, FiniteSets

CONSTANTS
    Queues,        \* the dispatch_queue_t objects
    SerialQueues,  \* those with is_serial
    Workers,       \* pool threads running worker_main
    Clients,       \* every other thread that calls the library
    MaxItems,      \* bound: number of dispatch_item's ever allocated
    AsyncCalls,    \* <<q, r>>: code run by q may dispatch_async to r
    SyncCalls,     \* <<q, r>>: code run by q may dispatch_sync to r
    None           \* NULL; as a queue, "on no queue"

Threads == Workers \cup Clients
Items == 1 .. MaxItems
Caller == Queues \cup {None}

ASSUME QueueAssumption ==
    /\ SerialQueues \subseteq Queues
    /\ Workers \cap Clients = {}
    /\ MaxItems \in Nat
    /\ AsyncCalls \subseteq Caller \X Queues
    /\ SyncCalls \subseteq Caller \X Queues
    /\ None \notin Queues
    /\ None \notin Items

VARIABLES
    fifo,             \* q->head .. q->tail
    draining,         \* q->draining
    on_runnable_list, \* q->on_runnable_list
    runnable,         \* g_runnable: the queues of its nodes, in order
    next,             \* identity of the next dispatch_item allocated
    status,           \* life of an item: "free", "queued", "running", "done"
    home,             \* the queue an item was pushed on
    kind,             \* "async", or "sync": its func is the sync trampoline
    sem,              \* value of a sync item's private semaphore sc.done
    frames,           \* sync items whose sync_ctx is live on a caller's stack
    pc,               \* where each thread is, see below
    node,             \* the queue a worker took from the runnable list
    cur,              \* the item a worker is executing
    pushing,          \* the queue a thread must still runnable_push
    awaited,          \* the sync item a thread waits for
    tls,              \* g_dispatch_draining_key of each thread
    aborted           \* abort() was called

qvars == <<fifo, draining, on_runnable_list>>
ivars == <<next, status, home, kind>>
svars == <<sem, frames, awaited>>
vars == <<qvars, ivars, svars, runnable, pc, node, cur, pushing, tls, aborted>>

(***************************************************************************)
(* "user": running code outside the library (a client's own code, or the   *)
(* block a worker is executing).  "push": left q->lock with should_push    *)
(* set, runnable_push still to come.  "wait": in dispatch_semaphore_wait   *)
(* of dispatch_sync_f.  Workers only: "pop" in runnable_pop_blocking,      *)
(* "node" between the pop and q->lock, "ret" after item->func returned.    *)
(***************************************************************************)
PC == {"user", "push", "wait", "pop", "node", "ret"}

Init ==
    /\ fifo = [q \in Queues |-> <<>>]
    /\ draining = [q \in Queues |-> FALSE]
    /\ on_runnable_list = [q \in Queues |-> FALSE]
    /\ runnable = <<>>
    /\ next = 1
    /\ status = [i \in Items |-> "free"]
    /\ home = [i \in Items |-> None]
    /\ kind = [i \in Items |-> "async"]
    /\ sem = [i \in Items |-> 0]
    /\ frames = {}
    /\ pc = [t \in Threads |-> IF t \in Workers THEN "pop" ELSE "user"]
    /\ node = [t \in Threads |-> None]
    /\ cur = [t \in Threads |-> None]
    /\ pushing = [t \in Threads |-> None]
    /\ awaited = [t \in Threads |-> None]
    /\ tls = [t \in Threads |-> None]
    /\ aborted = FALSE

-----------------------------------------------------------------------------
(***************************************************************************)
(* _dispatch_queue_push_item: allocate the item and, under q->lock, append *)
(* it and decide whether this thread owes the queue a runnable_push.       *)
(***************************************************************************)
\* Mutant: only on_runnable_list is tested, a draining queue is pushed again.
ShouldPushWhileDraining(q) == q \in SerialQueues => ~on_runnable_list[q]

\* Mutant: a concurrent queue is pushed only when it was empty.
ShouldPushOnlyWhenEmpty(q) ==
    IF q \in SerialQueues THEN ~draining[q] /\ ~on_runnable_list[q] ELSE fifo[q] = <<>>

ShouldPush(q) == q \in SerialQueues => ~draining[q] /\ ~on_runnable_list[q]

PushItem(t, q, k) ==
    /\ next \in Items
    /\ fifo' = [fifo EXCEPT ![q] = Append(@, next)]
    /\ on_runnable_list' =
         [on_runnable_list EXCEPT ![q] = @ \/ (q \in SerialQueues /\ ShouldPush(q))]
    /\ status' = [status EXCEPT ![next] = "queued"]
    /\ home' = [home EXCEPT ![next] = q]
    /\ kind' = [kind EXCEPT ![next] = k]
    /\ next' = next + 1
    /\ pushing' = [pushing EXCEPT ![t] = IF ShouldPush(q) THEN q ELSE None]
    /\ pc' = [pc EXCEPT ![t] = IF ShouldPush(q) THEN "push"
                               ELSE IF k = "sync" THEN "wait" ELSE "user"]
    /\ UNCHANGED <<draining, runnable, node, cur, tls, aborted>>

\* runnable_push: append a node under g_runnable.lock and signal the pool.
RunnablePush(t) ==
    /\ ~aborted
    /\ pc[t] = "push"
    /\ runnable' = Append(runnable, pushing[t])
    /\ pushing' = [pushing EXCEPT ![t] = None]
    /\ pc' = [pc EXCEPT ![t] = IF awaited[t] = None THEN "user" ELSE "wait"]
    /\ UNCHANGED <<qvars, ivars, svars, node, cur, tls, aborted>>

\* dispatch_async_f (and dispatch_async, which only copies the block first).
DispatchAsync(t, q) ==
    /\ ~aborted
    /\ pc[t] = "user"
    /\ <<node[t], q>> \in AsyncCalls
    /\ PushItem(t, q, "async")
    /\ UNCHANGED svars

\* dispatch_sync_f up to its wait: a private semaphore, then the push.
DispatchSync(t, q) ==
    /\ ~aborted
    /\ pc[t] = "user"
    /\ <<node[t], q>> \in SyncCalls
    /\ tls[t] # q
    /\ PushItem(t, q, "sync")
    /\ sem' = [sem EXCEPT ![next] = 0]
    /\ frames' = frames \cup {next}
    /\ awaited' = [awaited EXCEPT ![t] = next]

\* dispatch_sync_f onto the queue this thread is draining: diagnose, abort().
DispatchSyncAbort(t, q) ==
    /\ ~aborted
    /\ pc[t] = "user"
    /\ <<node[t], q>> \in SyncCalls
    /\ tls[t] = q
    /\ aborted' = TRUE
    /\ UNCHANGED <<qvars, ivars, svars, runnable, pc, node, cur, pushing, tls>>

\* Mutant: the wait returns without testing the semaphore's value.
SyncReturnWithoutTest(t) ==
    /\ ~aborted
    /\ pc[t] = "wait"
    /\ sem' = [sem EXCEPT ![awaited[t]] = @ - 1]
    /\ frames' = frames \ {awaited[t]}
    /\ awaited' = [awaited EXCEPT ![t] = None]
    /\ pc' = [pc EXCEPT ![t] = "user"]
    /\ UNCHANGED <<qvars, ivars, runnable, node, cur, pushing, tls, aborted>>

\* dispatch_semaphore_wait(sc.done) succeeds; the frame holding sc is popped.
SyncReturn(t) ==
    /\ ~aborted
    /\ pc[t] = "wait"
    /\ sem[awaited[t]] > 0
    /\ sem' = [sem EXCEPT ![awaited[t]] = @ - 1]
    /\ frames' = frames \ {awaited[t]}
    /\ awaited' = [awaited EXCEPT ![t] = None]
    /\ pc' = [pc EXCEPT ![t] = "user"]
    /\ UNCHANGED <<qvars, ivars, runnable, node, cur, pushing, tls, aborted>>

-----------------------------------------------------------------------------
\* runnable_pop_blocking: the head of g_runnable, once there is one.
PopNode(w) ==
    /\ ~aborted
    /\ pc[w] = "pop"
    /\ runnable # <<>>
    /\ node' = [node EXCEPT ![w] = Head(runnable)]
    /\ runnable' = Tail(runnable)
    /\ pc' = [pc EXCEPT ![w] = "node"]
    /\ UNCHANGED <<qvars, ivars, svars, cur, pushing, tls, aborted>>

\* queue_pop_head_locked found an item: worker w starts to execute it.
RunHead(w, q) ==
    /\ fifo' = [fifo EXCEPT ![q] = Tail(@)]
    /\ cur' = [cur EXCEPT ![w] = Head(fifo[q])]
    /\ status' = [status EXCEPT ![Head(fifo[q])] = "running"]
    /\ tls' = [tls EXCEPT ![w] = IF q \in SerialQueues THEN q ELSE @]
    /\ pc' = [pc EXCEPT ![w] = "user"]
    /\ UNCHANGED node

\* queue_pop_head_locked returned NULL: back to runnable_pop_blocking.
BackToPool(w) ==
    /\ node' = [node EXCEPT ![w] = None]
    /\ pc' = [pc EXCEPT ![w] = "pop"]
    /\ UNCHANGED <<fifo, cur, status, tls>>

\* One turn of worker_main's drain loop, under q->lock.
DrainLocked(w, q) ==
    /\ draining' = [draining EXCEPT ![q] = fifo[q] # <<>>]
    /\ IF fifo[q] # <<>> THEN RunHead(w, q) ELSE BackToPool(w)
    /\ UNCHANGED <<runnable, next, home, kind, svars, pushing, aborted>>

\* Mutant: the drainer forgets q->on_runnable_list = false.
StartDrainWithoutReset(w) ==
    /\ ~aborted
    /\ pc[w] = "node"
    /\ node[w] \in SerialQueues
    /\ UNCHANGED on_runnable_list
    /\ DrainLocked(w, node[w])

\* First turn: take the queue off the runnable list and claim it.
StartDrain(w) ==
    /\ ~aborted
    /\ pc[w] = "node"
    /\ node[w] \in SerialQueues
    /\ on_runnable_list' = [on_runnable_list EXCEPT ![node[w]] = FALSE]
    /\ DrainLocked(w, node[w])

\* Later turns: the item returned, so lock the queue again and go on.
DrainNext(w) ==
    /\ ~aborted
    /\ pc[w] = "ret"
    /\ UNCHANGED on_runnable_list
    /\ DrainLocked(w, node[w])

\* A concurrent queue: one item for one runnable node, no draining flag.
RunConcurrent(w) ==
    /\ ~aborted
    /\ pc[w] = "node"
    /\ node[w] \notin SerialQueues
    /\ IF fifo[node[w]] # <<>> THEN RunHead(w, node[w]) ELSE BackToPool(w)
    /\ UNCHANGED <<draining, on_runnable_list, runnable, next, home, kind,
                   svars, pushing, aborted>>

\* Mutant: the trampoline does not signal sc->done.
ItemReturnWithoutSignal(w) ==
    /\ ~aborted
    /\ pc[w] = "user"
    /\ w \in Workers
    /\ status' = [status EXCEPT ![cur[w]] = "done"]
    /\ tls' = [tls EXCEPT ![w] = None]
    /\ cur' = [cur EXCEPT ![w] = None]
    /\ IF node[w] \in SerialQueues
       THEN pc' = [pc EXCEPT ![w] = "ret"] /\ UNCHANGED node
       ELSE pc' = [pc EXCEPT ![w] = "pop"] /\ node' = [node EXCEPT ![w] = None]
    /\ UNCHANGED <<qvars, next, home, kind, svars, runnable, pushing, aborted>>

(***************************************************************************)
(* item->func returns: for a sync item the trampoline has signalled        *)
(* sc->done; the thread-local key is cleared and the item freed.  A        *)
(* concurrent worker is then back in the pool.                             *)
(***************************************************************************)
ItemReturn(w) ==
    /\ ~aborted
    /\ pc[w] = "user"
    /\ w \in Workers
    /\ status' = [status EXCEPT ![cur[w]] = "done"]
    /\ sem' = [sem EXCEPT ![cur[w]] = IF kind[cur[w]] = "sync" THEN @ + 1 ELSE @]
    /\ tls' = [tls EXCEPT ![w] = None]
    /\ cur' = [cur EXCEPT ![w] = None]
    /\ IF node[w] \in SerialQueues
       THEN pc' = [pc EXCEPT ![w] = "ret"] /\ UNCHANGED node
       ELSE pc' = [pc EXCEPT ![w] = "pop"] /\ node' = [node EXCEPT ![w] = None]
    /\ UNCHANGED <<qvars, next, home, kind, frames, awaited, runnable, pushing, aborted>>

WorkerStep(w) ==
    \/ PopNode(w)
    \/ StartDrain(w)
    \/ DrainNext(w)
    \/ RunConcurrent(w)
    \/ ItemReturn(w)

CallStep(t) ==
    \/ RunnablePush(t)
    \/ SyncReturn(t)

Next ==
    \/ \E t \in Threads, q \in Queues :
         DispatchAsync(t, q) \/ DispatchSync(t, q) \/ DispatchSyncAbort(t, q)
    \/ \E t \in Threads : CallStep(t)
    \/ \E w \in Workers : WorkerStep(w)

Spec == Init /\ [][Next]_vars

(***************************************************************************)
(* Every thread that can take its next step takes it: xnu preempts, and    *)
(* blocks terminate.  Starting a new call is the client's free choice.     *)
(***************************************************************************)
Fairness ==
    /\ \A t \in Threads : WF_vars(CallStep(t))
    /\ \A w \in Workers : WF_vars(WorkerStep(w))

FairSpec == Spec /\ Fairness

-----------------------------------------------------------------------------
\* The type invariant.
TypeOK ==
    /\ fifo \in [Queues -> Seq(Items)]
    /\ draining \in [Queues -> BOOLEAN]
    /\ on_runnable_list \in [Queues -> BOOLEAN]
    /\ runnable \in Seq(Queues)
    /\ next \in 1 .. MaxItems + 1
    /\ status \in [Items -> {"free", "queued", "running", "done"}]
    /\ home \in [Items -> Caller]
    /\ kind \in [Items -> {"async", "sync"}]
    /\ sem \in [Items -> Nat]
    /\ frames \subseteq Items
    /\ pc \in [Threads -> PC]
    /\ node \in [Threads -> Caller]
    /\ cur \in [Threads -> Items \cup {None}]
    /\ pushing \in [Threads -> Caller]
    /\ awaited \in [Threads -> Items \cup {None}]
    /\ tls \in [Threads -> Caller]
    /\ aborted \in BOOLEAN

\* A thread on its way to runnable_push(q); the places of q on the runnable
\* list; the workers that popped a node of q and do not hold q->lock yet; the
\* workers inside the drain loop of q.
Pushers(q) == {t \in Threads : pc[t] = "push" /\ pushing[t] = q}
Places(q) == {k \in DOMAIN runnable : runnable[k] = q}
Holders(q) == {w \in Workers : pc[w] = "node" /\ node[w] = q}
Drainers(q) == {w \in Workers : pc[w] # "node" /\ node[w] = q}

(***************************************************************************)
(* The scheduling invariant of the header comment: items of a serial queue *)
(* run one at a time and in the order they were pushed, whichever workers  *)
(* drain it.  An item that has started finds every earlier one finished.   *)
(***************************************************************************)
SerialOrder ==
    \A i, j \in Items :
        /\ i < j
        /\ home[i] \in SerialQueues
        /\ home[i] = home[j]
        /\ status[j] \in {"running", "done"}
        => status[i] = "done"

\* Those who own a serial queue: its one pass to being drained.
Owners(q) ==
    ({"pusher"} \X Pushers(q)) \cup ({"place"} \X Places(q))
      \cup ({"holder"} \X Holders(q)) \cup ({"drainer"} \X Drainers(q))

(***************************************************************************)
(* A serial queue has at most one owner: a thread about to push its node,  *)
(* a node on the runnable list, a worker holding the popped node, or a     *)
(* worker draining it.  So it never appears twice on the runnable list     *)
(* ("serial queues never do", dispatch_internal.h) and is never drained by *)
(* two workers.                                                            *)
(***************************************************************************)
SerialExclusion ==
    \A q \in SerialQueues : \A x, y \in Owners(q) : x = y

(***************************************************************************)
(* No item is stranded: while a serial queue has items, somebody owns it   *)
(* and is on its way to them, although a push that finds the queue         *)
(* draining or listed leaves without scheduling anything.                  *)
(***************************************************************************)
NoStrandedItem ==
    \A q \in SerialQueues : fifo[q] # <<>> => Owners(q) # {}

(***************************************************************************)
(* A concurrent queue has exactly one runnable node, pushed, popped or     *)
(* about to be pushed, for each item waiting in it: a worker that popped   *)
(* one always finds an item, and no item waits without one.                *)
(***************************************************************************)
OneNodePerItem ==
    \A q \in Queues \ SerialQueues :
        Len(fifo[q]) = Cardinality(Pushers(q)) + Cardinality(Places(q))
                         + Cardinality(Holders(q))

(***************************************************************************)
(* dispatch_sync hands the worker a pointer into the caller's stack frame  *)
(* and a private semaphore: the frame outlives every use of it, so the     *)
(* call returns only after its block has run (the trampoline's comment,    *)
(* "guaranteed still alive").                                              *)
(***************************************************************************)
SyncFrameAlive ==
    \A i \in Items :
        status[i] \in {"queued", "running"} /\ kind[i] = "sync" => i \in frames

(***************************************************************************)
(* No thread waits, directly, for an item that only it can run: the        *)
(* thread-local check of dispatch_sync_f catches every such call.          *)
(***************************************************************************)
NoSelfDeadlock ==
    \A w \in Workers :
        awaited[w] # None /\ node[w] \in SerialQueues =>
            home[awaited[w]] # node[w]

-----------------------------------------------------------------------------
(***************************************************************************)
(* The inductive invariant behind the safety properties.                   *)
(***************************************************************************)

\* What a thread's pc says about the other things it holds.
ControlInv ==
    \A t \in Threads :
        /\ pc[t] \in {"pop", "node", "ret"} => t \in Workers
        /\ (pc[t] = "push") <=> (pushing[t] # None)
        /\ pc[t] = "wait" => awaited[t] # None
        /\ awaited[t] # None => pc[t] \in {"push", "wait"}
        /\ t \in Clients => node[t] = None /\ cur[t] = None
        /\ t \in Workers /\ pc[t] \in {"user", "push", "wait"} =>
             cur[t] # None /\ node[t] # None
        /\ pc[t] \in {"pop", "node", "ret"} => cur[t] = None
        /\ pc[t] = "node" => node[t] # None
        /\ pc[t] = "ret" => node[t] \in SerialQueues
        /\ pc[t] = "pop" => node[t] = None

\* A serial queue has one owner, of one kind, and its two flags tell which.
OwnedOnce(q) ==
    /\ \A s, t \in Pushers(q) : s = t
    /\ \A k, l \in Places(q) : k = l
    /\ \A v, w \in Holders(q) : v = w
    /\ \A v, w \in Drainers(q) : v = w
    /\ Pushers(q) # {} => Places(q) = {} /\ Holders(q) = {}
    /\ Places(q) # {} => Holders(q) = {}
    /\ draining[q] <=> Drainers(q) # {}
    /\ on_runnable_list[q] <=> Pushers(q) # {} \/ Places(q) # {} \/ Holders(q) # {}
    /\ ~(draining[q] /\ on_runnable_list[q])
    /\ fifo[q] # <<>> => draining[q] \/ on_runnable_list[q]

OwnerInv == \A q \in SerialQueues : OwnedOnce(q)

\* Items are allocated in order and belong to a queue from then on.
AllocInv ==
    \A i \in Items : /\ status[i] = "free" <=> i >= next
                     /\ status[i] # "free" => home[i] \in Queues

\* The items waiting in a fifo are the queued items of that queue, by age.
FifoInv ==
    \A q \in Queues : \A k \in 1 .. Len(fifo[q]) :
        /\ status[fifo[q][k]] = "queued"
        /\ home[fifo[q][k]] = q
        /\ \A l \in 1 .. Len(fifo[q]) : k < l => fifo[q][k] < fifo[q][l]

QueuedInv ==
    \A i \in Items : status[i] = "queued" =>
        \E k \in 1 .. Len(fifo[home[i]]) : fifo[home[i]][k] = i

\* The items running are those the workers execute, each by one worker.
RunningInv ==
    /\ \A w \in Workers : cur[w] # None =>
         status[cur[w]] = "running" /\ home[cur[w]] = node[w]
    /\ \A i \in Items : status[i] = "running" => \E w \in Workers : cur[w] = i
    /\ \A v, w \in Workers : cur[v] = cur[w] /\ cur[v] # None => v = w

ItemInv == AllocInv /\ FifoInv /\ QueuedInv /\ RunningInv

\* What dispatch_sync relies on: signalled means run, the key names the queue.
SyncInv ==
    /\ \A i \in Items : sem[i] > 0 => status[i] = "done"
    /\ \A t \in Threads : awaited[t] # None => status[awaited[t]] # "free"
    /\ \A w \in Workers : cur[w] # None /\ node[w] \in SerialQueues => tls[w] = node[w]

IInv ==
    /\ TypeOK
    /\ ControlInv
    /\ OwnerInv
    /\ ItemInv
    /\ SyncInv
    /\ SerialOrder
    /\ SyncFrameAlive
    /\ NoSelfDeadlock

-----------------------------------------------------------------------------
(***************************************************************************)
(* The refinement mapping: forget workers, nodes and flags.                *)
(***************************************************************************)
ItemsRunning(q) == {i \in Items : status[i] = "running" /\ home[i] = q}

Exec == INSTANCE Executor
          WITH pending <- fifo,
               running <- [q \in Queues |-> ItemsRunning(q)],
               finished <- {i \in Items : status[i] = "done"}

\* The worker pool implements the executor its clients are promised: at most
\* one running item on a serial queue, first submitted first started.
ImplementsExecutor == Exec!ExecutorSpec

\* Every item pushed is eventually executed, unless the process aborts.
EveryItemRuns ==
    \A i \in Items : status[i] = "queued" ~> status[i] = "done" \/ aborted

\* Every dispatch_sync eventually returns, unless the process aborts.
EverySyncReturns ==
    \A t \in Threads : awaited[t] # None ~> awaited[t] = None \/ aborted
=============================================================================
