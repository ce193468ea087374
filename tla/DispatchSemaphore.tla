-------------------------- MODULE DispatchSemaphore --------------------------
(***************************************************************************)
(* dispatch_semaphore_t (userland/libdispatch/dispatch_semaphore.c) on the *)
(* mutexes and condition variables of userland/libc/src/pthread.c.         *)
(*                                                                         *)
(* The mutex is an atomic exchange in a loop; the condition variable is a  *)
(* generation counter that a waiter polls, without the mutex, until it     *)
(* differs from the value read before the mutex was released.  A step here *)
(* is what one thread does between two accesses other threads can observe: *)
(* taking the mutex, the body under it, the store that releases it, one    *)
(* read of the generation.                                                 *)
(***************************************************************************)
EXTENDS Integers, FiniteSets

CONSTANTS
    Threads,      \* the threads that use the semaphore
    InitialValue, \* dispatch_semaphore_create(value)
    GenSize,      \* cv->gen counts modulo GenSize (2^32, unsigned int)
    MaxSignals,   \* bound: calls of dispatch_semaphore_signal
    MaxWaits      \* bound: calls of dispatch_semaphore_wait

ASSUME SemaphoreAssumption ==
    /\ InitialValue \in Int
    /\ GenSize \in Nat \ {0}
    /\ MaxSignals \in Nat \ {0}
    /\ MaxSignals < GenSize
    /\ MaxWaits \in Nat \ {0}

VARIABLES
    private,   \* the semaphore is the one dispatch_sync makes for itself
    owned,     \* m->owned, FALSE or TRUE
    gen,       \* cv->gen
    value,     \* sem->value
    freed,     \* _dispatch_semaphore_destroy has freed the memory
    pc,        \* where each thread is
    mode,      \* the timeout of its wait: "now", "forever", "until"
    late,      \* the deadline of an "until" wait has passed
    gen0,      \* the generation it read before it released the mutex
    timed_out, \* pthread_cond_timedwait will return ETIMEDOUT
    signals,   \* calls of signal so far
    posted,    \* calls of signal so far that added to value
    waits,     \* calls of wait so far
    granted    \* calls of wait so far that took one from value

wvars == <<mode, late, gen0, timed_out>>
counts == <<signals, posted, waits, granted>>
vars == <<private, owned, gen, value, freed, pc, wvars, counts>>

(***************************************************************************)
(* "siglock", "signal", "unlock": dispatch_semaphore_signal before, in and *)
(* after its critical section.  "lock", "test": a wait before and in its   *)
(* loop.  "poll": in pthread_cond_(timed)wait, the mutex released.         *)
(* "leave": the wait is over, the mutex still to be released; "leavefail"  *)
(* the same with result -1.  "taken": a private semaphore's wait returned. *)
(***************************************************************************)
PC == {"idle", "siglock", "signal", "unlock", "lock", "test", "poll",
       "leave", "leavefail", "taken"}
Mode == {"now", "forever", "until"}

\* dispatch_sync_f creates its semaphore with 0, and nobody else knows it.
Created == IF private THEN 0 ELSE InitialValue

Init ==
    /\ private \in BOOLEAN
    /\ owned = FALSE
    /\ gen = 0
    /\ value = Created
    /\ freed = FALSE
    /\ pc = [t \in Threads |-> "idle"]
    /\ mode = [t \in Threads |-> "now"]
    /\ late = [t \in Threads |-> FALSE]
    /\ gen0 = [t \in Threads |-> 0]
    /\ timed_out = [t \in Threads |-> FALSE]
    /\ signals = 0
    /\ posted = 0
    /\ waits = 0
    /\ granted = 0

Go(t, p) == pc' = [pc EXCEPT ![t] = p]

-----------------------------------------------------------------------------
CallSignal(t) ==
    /\ pc[t] = "idle"
    /\ ~freed
    /\ signals < IF private THEN 1 ELSE MaxSignals
    /\ signals' = signals + 1
    /\ Go(t, "siglock")
    /\ UNCHANGED <<private, owned, gen, value, freed, wvars, posted, waits, granted>>

CallWait(t) ==
    /\ pc[t] = "idle"
    /\ ~freed
    /\ waits < IF private THEN 1 ELSE MaxWaits
    /\ waits' = waits + 1
    /\ \E m \in IF private THEN {"forever"} ELSE Mode : mode' = [mode EXCEPT ![t] = m]
    /\ late' = [late EXCEPT ![t] = FALSE]
    /\ timed_out' = [timed_out EXCEPT ![t] = FALSE]
    /\ Go(t, "lock")
    /\ UNCHANGED <<private, owned, gen, value, freed, gen0, signals, posted, granted>>

\* The atomic exchange of pthread_mutex_lock finds the mutex free.
Lock(t) ==
    /\ pc[t] \in {"siglock", "lock"}
    /\ ~owned
    /\ owned' = TRUE
    /\ Go(t, IF pc[t] = "siglock" THEN "signal" ELSE "test")
    /\ UNCHANGED <<private, gen, value, freed, wvars, counts>>

\* Mutant: the value is tested before it is incremented.
SignalTestingOldValue(t) ==
    /\ pc[t] = "signal"
    /\ value' = value + 1
    /\ gen' = IF value > 0 THEN (gen + 1) % GenSize ELSE gen
    /\ posted' = posted + 1
    /\ Go(t, "unlock")
    /\ UNCHANGED <<private, owned, freed, wvars, signals, waits, granted>>

\* ++sem->value, and pthread_cond_signal when it is now positive.
Signal(t) ==
    /\ pc[t] = "signal"
    /\ value' = value + 1
    /\ gen' = IF value + 1 > 0 THEN (gen + 1) % GenSize ELSE gen
    /\ posted' = posted + 1
    /\ Go(t, "unlock")
    /\ UNCHANGED <<private, owned, freed, wvars, signals, waits, granted>>

\* Mutant: a woken waiter does not test the value again (if, not while).
TakeWithoutRetest(t) ==
    /\ pc[t] = "test"
    /\ value > 0 \/ gen0[t] # gen
    /\ value' = value - 1
    /\ granted' = granted + 1
    /\ Go(t, "leave")
    /\ UNCHANGED <<private, owned, gen, freed, wvars, signals, posted, waits>>

\* The loop of dispatch_semaphore_wait, once, with the mutex held.
Take(t) ==
    /\ pc[t] = "test"
    /\ value > 0
    /\ value' = value - 1
    /\ granted' = granted + 1
    /\ Go(t, "leave")
    /\ UNCHANGED <<private, owned, gen, freed, wvars, signals, posted, waits>>

\* DISPATCH_TIME_NOW, or a timed wait that timed out: give up, result -1.
GiveUp(t) ==
    /\ pc[t] = "test"
    /\ value <= 0
    /\ mode[t] = "now" \/ timed_out[t]
    /\ Go(t, "leavefail")
    /\ UNCHANGED <<private, owned, gen, value, freed, wvars, counts>>

\* pthread_cond_wait or _timedwait: read the generation, release the mutex.
Sleep(t) ==
    /\ pc[t] = "test"
    /\ value <= 0
    /\ mode[t] # "now"
    /\ ~timed_out[t]
    /\ gen0' = [gen0 EXCEPT ![t] = gen]
    /\ owned' = FALSE
    /\ Go(t, "poll")
    /\ UNCHANGED <<private, gen, value, freed, mode, late, timed_out, counts>>

\* Mutant: pthread_cond_wait returns without taking the mutex again.
WakeWithoutLock(t) ==
    /\ pc[t] = "poll"
    /\ gen # gen0[t]
    /\ Go(t, "test")
    /\ UNCHANGED <<private, owned, gen, value, freed, wvars, counts>>

\* The poll sees another generation: back to pthread_mutex_lock, no timeout.
Wake(t) ==
    /\ pc[t] = "poll"
    /\ gen # gen0[t]
    /\ Go(t, "lock")
    /\ UNCHANGED <<private, owned, gen, value, freed, wvars, counts>>

\* The poll sees the same generation and then a clock past the deadline.
Timeout(t) ==
    /\ pc[t] = "poll"
    /\ mode[t] = "until"
    /\ late[t]
    /\ gen = gen0[t]
    /\ timed_out' = [timed_out EXCEPT ![t] = TRUE]
    /\ Go(t, "lock")
    /\ UNCHANGED <<private, owned, gen, value, freed, mode, late, gen0, counts>>

\* Time goes by: the absolute deadline of t's wait is now in the past.
DeadlinePasses(t) ==
    /\ pc[t] \in {"lock", "test", "poll"}
    /\ mode[t] = "until"
    /\ ~late[t]
    /\ late' = [late EXCEPT ![t] = TRUE]
    /\ UNCHANGED <<private, owned, gen, value, freed, pc, mode, gen0, timed_out, counts>>

\* The releasing store of pthread_mutex_unlock, its last access to the mutex.
Unlock(t) ==
    /\ pc[t] \in {"unlock", "leave", "leavefail"}
    /\ owned' = FALSE
    /\ Go(t, IF private /\ pc[t] = "leave" THEN "taken" ELSE "idle")
    /\ UNCHANGED <<private, gen, value, freed, wvars, counts>>

\* dispatch_sync_f: dispatch_release(sc.done) after its only wait.
Release(t) ==
    /\ pc[t] = "taken"
    /\ freed' = TRUE
    /\ Go(t, "idle")
    /\ UNCHANGED <<private, owned, gen, value, wvars, counts>>

Step(t) ==
    \/ Signal(t)
    \/ Take(t)
    \/ GiveUp(t)
    \/ Sleep(t)
    \/ Wake(t)
    \/ Timeout(t)
    \/ Unlock(t)
    \/ Release(t)

Next ==
    \E t \in Threads :
        \/ CallSignal(t)
        \/ CallWait(t)
        \/ Lock(t)
        \/ DeadlinePasses(t)
        \/ Step(t)

Spec == Init /\ [][Next]_vars

(***************************************************************************)
(* xnu preempts a spinning thread, so every thread runs; the exchange loop *)
(* of the mutex is not queued, so a thread gets it only if it is not       *)
(* unlucky for ever (SF), and deadlines come (WF).                         *)
(***************************************************************************)
Fairness ==
    \A t \in Threads : WF_vars(Step(t)) /\ SF_vars(Lock(t)) /\ WF_vars(DeadlinePasses(t))

FairSpec == Spec /\ Fairness

-----------------------------------------------------------------------------
(***************************************************************************)
(* The type invariant.  However signals, wakeups and timeouts race, each   *)
(* wait that succeeds has taken one permit, and none takes what is a debt. *)
(***************************************************************************)
TypeOK ==
    /\ private \in BOOLEAN
    /\ owned \in BOOLEAN
    /\ gen \in 0 .. GenSize - 1
    /\ value = Created + posted - granted
    /\ granted > 0 => value >= 0
    /\ freed \in BOOLEAN
    /\ pc \in [Threads -> PC]
    /\ mode \in [Threads -> Mode]
    /\ late \in [Threads -> BOOLEAN]
    /\ gen0 \in [Threads -> 0 .. GenSize - 1]
    /\ timed_out \in [Threads -> BOOLEAN]
    /\ signals \in 0 .. MaxSignals
    /\ posted \in Nat
    /\ waits \in 0 .. MaxWaits
    /\ granted \in Nat

(***************************************************************************)
(* No lost wakeup: a waiter still polling the generation it read when it   *)
(* went to sleep has nothing to take.  The generation is read under the    *)
(* mutex, so a signal between that read and the first poll is seen.        *)
(***************************************************************************)
NoLostWakeup ==
    \A t \in Threads : pc[t] = "poll" /\ gen0[t] = gen => value <= 0

(***************************************************************************)
(* dispatch_sync frees its private semaphore as soon as its wait returns;  *)
(* by then the signaller has made its last access to it.                   *)
(***************************************************************************)
NoUseAfterFree == freed => \A t \in Threads : pc[t] = "idle"

\* A permit does not stay unused while somebody waits for one.
PermitIsUsed ==
    \A t \in Threads : pc[t] = "poll" /\ value > 0 ~> pc[t] # "poll" \/ value <= 0
=============================================================================
