--------------------------- MODULE DispatchLifetime ---------------------------
(***************************************************************************)
(* Reference counts of dispatch queues (userland/libdispatch               *)
(* dispatch_object.c and _dispatch_queue_destroy) on top of DispatchQueue. *)
(*                                                                         *)
(* Neither an item nor a runnable node nor the worker draining a queue     *)
(* retains it: the only references are those of the clients.  A client     *)
(* here is careful: it drops its reference only once every item it pushed  *)
(* has run, as the tests of libdispatch do, and never uses q afterwards.   *)
(***************************************************************************)
EXTENDS DispatchQueue

CONSTANT References  \* bound: references a client may hold besides the first

VARIABLES
    refcount,  \* hdr.refcount of each queue
    destroyed  \* queues whose memory _dispatch_queue_destroy has freed

lvars == <<vars, refcount, destroyed>>

LifetimeInit ==
    /\ Init
    /\ refcount = [q \in Queues |-> 1]
    /\ destroyed = {}

\* A queue is used by whoever holds a reference to it.
Use(t, q) ==
    /\ refcount[q] > 0
    /\ DispatchAsync(t, q) \/ DispatchSync(t, q) \/ DispatchSyncAbort(t, q)
    /\ UNCHANGED <<refcount, destroyed>>

\* dispatch_retain, by a thread of the client that already holds a reference.
Retain(t, q) ==
    /\ ~aborted
    /\ pc[t] = "user"
    /\ refcount[q] \in 1 .. References
    /\ refcount' = [refcount EXCEPT ![q] = @ + 1]
    /\ UNCHANGED <<vars, destroyed>>

\* dispatch_release by a client that saw all its items run.
Release(t, q) ==
    /\ ~aborted
    /\ t \in Clients
    /\ pc[t] = "user"
    /\ refcount[q] > 0
    /\ \A i \in Items : home[i] = q => status[i] = "done" /\ i \notin frames
    /\ \A s \in Threads : pushing[s] # q
    /\ refcount' = [refcount EXCEPT ![q] = @ - 1]
    /\ destroyed' = IF refcount[q] = 1 THEN destroyed \cup {q} ELSE destroyed
    /\ UNCHANGED vars

LifetimeNext ==
    \/ \E t \in Threads, q \in Queues : Use(t, q) \/ Retain(t, q) \/ Release(t, q)
    \/ UNCHANGED <<refcount, destroyed>> /\ \E t \in Threads : CallStep(t)
    \/ UNCHANGED <<refcount, destroyed>> /\ \E w \in Workers : WorkerStep(w)

LifetimeSpec == LifetimeInit /\ [][LifetimeNext]_lvars

-----------------------------------------------------------------------------
(***************************************************************************)
(* What test_sync and test_serial_order take for granted when they call    *)
(* dispatch_release right after their last block ran: nobody locks q->lock *)
(* (worker_main, after the item or after the pop) once q is freed.         *)
(***************************************************************************)
NoUseAfterDestroy ==
    \A w \in Workers : pc[w] \in {"node", "ret"} => node[w] \notin destroyed
=============================================================================
