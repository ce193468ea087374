---------------------------- MODULE DispatchGroup ----------------------------
(***************************************************************************)
(* dispatch_group_t (userland/libdispatch/dispatch_group.c): a count of    *)
(* outstanding enters, the one-shot notify list that the leave reaching    *)
(* zero detaches, and waiters that poll a condition's generation.          *)
(*                                                                         *)
(* Each task is one balanced enter/leave (one dispatch_group_async), each  *)
(* note one dispatch_group_notify, each waiter one dispatch_group_wait.    *)
(* What a call does under g->lock is one step (DispatchSemaphore shows the *)
(* mutex exclusive); a detached list is pushed outside it, note by note.   *)
(***************************************************************************)
EXTENDS Integers, Sequences, FiniteSets

CONSTANTS
    Tasks,   \* enter/leave pairs
    Notes,   \* dispatch_group_notify calls
    Waiters  \* dispatch_group_wait calls

ASSUME GroupAssumption ==
    /\ IsFiniteSet(Tasks)
    /\ Notes \cap Waiters = {}

VARIABLES
    count,    \* g->count
    notify,   \* the notes on g->notify_head, head first
    gen,      \* g->cond.gen
    task,     \* where each task is: "out", "in", "left"
    pending,  \* the detached notes a leaving task has yet to push
    note,     \* life of each note: "new", "listed", "detached",
              \* "fire" (by the notifier itself), "pushed"
    pushed,   \* the notes pushed on their queues, in the order of the pushes
    wpc,      \* each waiter: "new", "test", "poll", "zero", "timeout"
    mode,     \* its timeout: "now", "forever", "until"
    late,     \* its deadline has passed
    gen0,     \* the generation it read before it released g->lock
    owed      \* the tasks that were in when a note or a waiter called

nvars == <<notify, pending, note, pushed>>
wvars == <<wpc, mode, late, gen0>>
vars == <<count, gen, task, nvars, wvars, owed>>

In == {t \in Tasks : task[t] = "in"}

Init ==
    /\ count = 0
    /\ notify = <<>>
    /\ gen = 0
    /\ task = [t \in Tasks |-> "out"]
    /\ pending = [t \in Tasks |-> <<>>]
    /\ note = [n \in Notes |-> "new"]
    /\ pushed = <<>>
    /\ wpc = [w \in Waiters |-> "new"]
    /\ mode = [w \in Waiters |-> "now"]
    /\ late = [w \in Waiters |-> FALSE]
    /\ gen0 = [w \in Waiters |-> 0]
    /\ owed = [c \in Notes \cup Waiters |-> {}]

-----------------------------------------------------------------------------
\* Mutant: the count is kept as a flag.
EnterAsFlag(t) ==
    /\ task[t] = "out"
    /\ task' = [task EXCEPT ![t] = "in"]
    /\ count' = 1
    /\ UNCHANGED <<gen, nvars, wvars, owed>>

\* dispatch_group_enter, before dispatch_group_async_f pushes the work.
Enter(t) ==
    /\ task[t] = "out"
    /\ task' = [task EXCEPT ![t] = "in"]
    /\ count' = count + 1
    /\ UNCHANGED <<gen, nvars, wvars, owed>>

\* Mutant: every leave detaches the list, not only the last.
EveryLeave == TRUE

LastLeave == count = 1

\* Mutant: the waiters are not woken.
DetachWithoutBroadcast(t) ==
    /\ pending' = [pending EXCEPT ![t] = notify]
    /\ note' = [n \in Notes |-> IF note[n] = "listed" THEN "detached" ELSE note[n]]
    /\ notify' = <<>>
    /\ UNCHANGED gen

\* The leaving thread takes the list for itself and broadcasts.
Detach(t) ==
    /\ pending' = [pending EXCEPT ![t] = notify]
    /\ note' = [n \in Notes |-> IF note[n] = "listed" THEN "detached" ELSE note[n]]
    /\ notify' = <<>>
    /\ gen' = gen + 1

\* dispatch_group_leave under g->lock.
Leave(t) ==
    /\ task[t] = "in"
    /\ task' = [task EXCEPT ![t] = "left"]
    /\ count' = count - 1
    /\ IF LastLeave THEN Detach(t) ELSE UNCHANGED <<gen, notify, pending, note>>
    /\ UNCHANGED <<pushed, wvars, owed>>

Push(n) ==
    /\ note' = [note EXCEPT ![n] = "pushed"]
    /\ pushed' = Append(pushed, n)

\* dispatch_group_leave after g->lock: one turn of the while (pending) loop.
PushPending(t) ==
    /\ pending[t] # <<>>
    /\ Push(Head(pending[t]))
    /\ pending' = [pending EXCEPT ![t] = Tail(@)]
    /\ UNCHANGED <<count, gen, task, notify, wvars, owed>>

\* Mutant: fire_now is dropped, a note on an empty group is listed as well.
NotifyAlwaysListed(n) ==
    /\ note[n] = "new"
    /\ owed' = [owed EXCEPT ![n] = In]
    /\ note' = [note EXCEPT ![n] = "listed"]
    /\ notify' = <<n>> \o notify
    /\ UNCHANGED <<count, gen, task, pending, pushed, wvars>>

\* dispatch_group_notify under g->lock: fire_now, or to the front of the list.
Notify(n) ==
    /\ note[n] = "new"
    /\ owed' = [owed EXCEPT ![n] = In]
    /\ IF count = 0
       THEN /\ note' = [note EXCEPT ![n] = "fire"]
            /\ UNCHANGED notify
       ELSE /\ note' = [note EXCEPT ![n] = "listed"]
            /\ notify' = <<n>> \o notify
    /\ UNCHANGED <<count, gen, task, pending, pushed, wvars>>

\* dispatch_group_notify after g->lock, with fire_now: push it oneself.
FireNow(n) ==
    /\ note[n] = "fire"
    /\ Push(n)
    /\ UNCHANGED <<count, gen, task, notify, pending, wvars, owed>>

-----------------------------------------------------------------------------
CallWait(w) ==
    /\ wpc[w] = "new"
    /\ \E m \in {"now", "forever", "until"} : mode' = [mode EXCEPT ![w] = m]
    /\ wpc' = [wpc EXCEPT ![w] = "test"]
    /\ owed' = [owed EXCEPT ![w] = In]
    /\ UNCHANGED <<count, gen, task, nvars, late, gen0>>

\* Mutant: a woken waiter returns 0 without testing the count again.
WaitWithoutRetest(w) ==
    /\ wpc[w] = "test"
    /\ count <= 0 \/ gen0[w] # gen
    /\ wpc' = [wpc EXCEPT ![w] = "zero"]
    /\ UNCHANGED <<count, gen, task, nvars, mode, late, gen0, owed>>

\* The test of the wait loop, under g->lock: nothing outstanding, result 0.
WaitZero(w) ==
    /\ wpc[w] = "test"
    /\ count <= 0
    /\ wpc' = [wpc EXCEPT ![w] = "zero"]
    /\ UNCHANGED <<count, gen, task, nvars, mode, late, gen0, owed>>

\* Outstanding: DISPATCH_TIME_NOW gives up, the others sleep on the condition.
WaitSleep(w) ==
    /\ wpc[w] = "test"
    /\ count > 0
    /\ wpc' = [wpc EXCEPT ![w] = IF mode[w] = "now" THEN "timeout" ELSE "poll"]
    /\ gen0' = [gen0 EXCEPT ![w] = gen]
    /\ UNCHANGED <<count, gen, task, nvars, mode, late, owed>>

\* pthread_cond_(timed)wait sees another generation: test the count again.
WaitWake(w) ==
    /\ wpc[w] = "poll"
    /\ gen # gen0[w]
    /\ wpc' = [wpc EXCEPT ![w] = "test"]
    /\ UNCHANGED <<count, gen, task, nvars, mode, late, gen0, owed>>

\* The poll saw the old generation and then the deadline in the past: under
\* g->lock again, which may be much later, the count decides.
WaitTimeout(w) ==
    /\ wpc[w] = "poll"
    /\ mode[w] = "until"
    /\ late[w]
    /\ wpc' = [wpc EXCEPT ![w] = IF count > 0 THEN "timeout" ELSE "zero"]
    /\ UNCHANGED <<count, gen, task, nvars, mode, late, gen0, owed>>

DeadlinePasses(w) ==
    /\ wpc[w] \in {"test", "poll"}
    /\ mode[w] = "until"
    /\ ~late[w]
    /\ late' = [late EXCEPT ![w] = TRUE]
    /\ UNCHANGED <<count, gen, task, nvars, wpc, mode, gen0, owed>>

WaitStep(w) == WaitZero(w) \/ WaitSleep(w) \/ WaitWake(w) \/ WaitTimeout(w)

Next ==
    \/ \E t \in Tasks : Enter(t) \/ Leave(t) \/ PushPending(t)
    \/ \E n \in Notes : Notify(n) \/ FireNow(n)
    \/ \E w \in Waiters : CallWait(w) \/ WaitStep(w) \/ DeadlinePasses(w)

Spec == Init /\ [][Next]_vars

(***************************************************************************)
(* Threads inside the library run on (xnu preempts, the mutex is held for  *)
(* a few instructions) and deadlines come.  Nothing makes a task leave.    *)
(***************************************************************************)
Fairness ==
    /\ \A t \in Tasks : WF_vars(PushPending(t))
    /\ \A n \in Notes : WF_vars(FireNow(n))
    /\ \A w \in Waiters : WF_vars(WaitStep(w)) /\ WF_vars(DeadlinePasses(w))

FairSpec == Spec /\ Fairness

-----------------------------------------------------------------------------
\* The type invariant; the count is the number of tasks that are in.
TypeOK ==
    /\ count \in Nat
    /\ count = Cardinality(In)
    /\ gen \in Nat
    /\ notify \in Seq(Notes)
    /\ task \in [Tasks -> {"out", "in", "left"}]
    /\ pending \in [Tasks -> Seq(Notes)]
    /\ note \in [Notes -> {"new", "listed", "detached", "fire", "pushed"}]
    /\ pushed \in Seq(Notes)
    /\ wpc \in [Waiters -> {"new", "test", "poll", "zero", "timeout"}]
    /\ mode \in [Waiters -> {"now", "forever", "until"}]
    /\ late \in [Waiters -> BOOLEAN]
    /\ gen0 \in [Waiters -> Nat]
    /\ owed \in [Notes \cup Waiters -> SUBSET Tasks]

(***************************************************************************)
(* A notify block is pushed, or on its way to be, only after every task    *)
(* that was in the group when it was registered has left, whichever leave  *)
(* detached it and however many tasks entered meanwhile.                   *)
(***************************************************************************)
NotifyAfterLeave ==
    \A n \in Notes : note[n] \in {"detached", "fire", "pushed"} =>
        \A t \in owed[n] : task[t] = "left"

\* No note waits on the list of an empty group, where no leave would find it.
NoNoteStranded == notify # <<>> => count > 0

\* dispatch_group_wait returns 0 only after every task that was in when it
\* was called has left, even if others entered since and are still in.
WaitMeansLeft ==
    \A w \in Waiters : wpc[w] = "zero" => \A t \in owed[w] : task[t] = "left"

\* Once the group stays empty, every note registered is pushed.
EveryNoteIsPushed ==
    \A n \in Notes :
        <>[](count = 0) => (note[n] \in {"listed", "detached", "fire"} ~> note[n] = "pushed")

\* Once the group stays empty every wait returns; one with a deadline always.
EveryWaitReturns ==
    \A w \in Waiters :
        /\ <>[](count = 0) => (wpc[w] = "test" ~> wpc[w] = "zero" \/ wpc[w] = "timeout")
        /\ wpc[w] = "test" /\ mode[w] = "until" ~> wpc[w] \in {"zero", "timeout"}
=============================================================================
