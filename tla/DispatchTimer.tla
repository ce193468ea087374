---------------------------- MODULE DispatchTimer ----------------------------
(***************************************************************************)
(* dispatch_time and dispatch_after (userland/libdispatch/dispatch_time.c):*)
(* a list of timers sorted by deadline and the one thread that polls it,   *)
(* sleeping at most TIMER_POLL_CAP_NS between two looks at the list.       *)
(*                                                                         *)
(* The clock is CLOCK_REALTIME in some unit; it never steps back here.     *)
(* What is done under g_timers.lock is one step, including the reading of  *)
(* the clock it is done with; the push, the second reading (for wake_at)   *)
(* and the spin are steps of their own, and time passes between any two.   *)
(***************************************************************************)
EXTENDS Integers, SequencesExt

CONSTANTS
    Calls,    \* the dispatch_after calls
    Deltas,   \* delta arguments of dispatch_time, int64_t
    TimeSize, \* dispatch_time_t counts modulo TimeSize (2^64)
    Cap,      \* TIMER_POLL_CAP_NS
    MaxTime,  \* bound: no call is made after MaxTime
    None      \* NULL

ASSUME TimerAssumption ==
    /\ TimeSize \in Nat \ {0}
    /\ Cap \in Nat \ {0}
    /\ MaxTime \in Nat
    /\ Deltas \subseteq Int
    /\ None \notin Calls

\* The clock is below 2^63 ns (until 2262) and a delta is an int64_t, so
\* add_delta on DISPATCH_TIME_NOW does not wrap.
ASSUME ClockAssumption == \A delta \in Deltas : MaxTime + delta < TimeSize

VARIABLES
    clock,    \* now_ns()
    timers,   \* the calls on g_timers.head, in list order
    deadline, \* node->deadline of each call
    asked,    \* the time its caller meant, an exact integer
    call,     \* life of a call: "new", "timed" (its deadline computed),
              \* "direct" (when <= now), "insert", "listed",
              \* "fired" (taken off the list), "pushed"
    busy,     \* the time that has passed while code ran, not just the spin
    tpc,      \* the timer thread: "scan", "push", "arm", "spin"
    firing,   \* the timer it took off the list
    sleep_ns,
    wake_at

tvars == <<tpc, firing, sleep_ns, wake_at>>
vars == <<clock, timers, deadline, asked, call, busy, tvars>>

Init ==
    /\ clock = 1
    /\ timers = <<>>
    /\ deadline = [c \in Calls |-> 0]
    /\ asked = [c \in Calls |-> 0]
    /\ call = [c \in Calls |-> "new"]
    /\ busy = 0
    /\ tpc = "scan"
    /\ firing = None
    /\ sleep_ns = 0
    /\ wake_at = 0

Least(a, b) == IF a < b THEN a ELSE b

-----------------------------------------------------------------------------
\* add_delta, in unsigned arithmetic; a time before the epoch becomes zero.
AddDelta(base, delta) ==
    IF delta >= 0 THEN (base + delta) % TimeSize
    ELSE IF base > -delta THEN base + delta ELSE 0

\* when = dispatch_time(DISPATCH_TIME_NOW, delta), by the client.
DispatchTime(c) ==
    /\ call[c] = "new"
    /\ clock <= MaxTime
    /\ \E delta \in Deltas :
         /\ deadline' = [deadline EXCEPT ![c] = AddDelta(clock, delta)]
         /\ asked' = [asked EXCEPT ![c] = clock + delta]
    /\ call' = [call EXCEPT ![c] = "timed"]
    /\ UNCHANGED <<busy, clock, timers, tvars>>

\* dispatch_after_f(when, ...) up to its own reading of the clock: a deadline
\* already past goes to the queue, any other to the list.
DispatchAfter(c) ==
    /\ call[c] = "timed"
    /\ call' = [call EXCEPT ![c] = IF deadline[c] <= clock THEN "direct" ELSE "insert"]
    /\ UNCHANGED <<busy, clock, timers, deadline, asked, tvars>>

\* Mutant: a timer goes to the end, whatever its deadline.
InsertionPointAtEnd(c) == 1 + Len(timers)

\* Behind every timer whose deadline is not later.
InsertionPoint(c) == 1 + Cardinality({k \in DOMAIN timers :
                                        deadline[timers[k]] <= deadline[c]})

\* _dispatch_timer_schedule, which may come long after the clock was read.
Insert(c) ==
    /\ call[c] = "insert"
    /\ timers' = InsertAt(timers, InsertionPoint(c), c)
    /\ call' = [call EXCEPT ![c] = "listed"]
    /\ UNCHANGED <<busy, clock, deadline, asked, tvars>>

\* dispatch_after_f pushes the item itself.
PushDirect(c) ==
    /\ call[c] = "direct"
    /\ call' = [call EXCEPT ![c] = "pushed"]
    /\ UNCHANGED <<busy, clock, timers, deadline, asked, tvars>>

-----------------------------------------------------------------------------
\* Mutant: after its sleep the thread takes the head without looking again.
HeadTakenAfterSleep == timers # <<>> /\ (deadline[Head(timers)] <= clock \/ wake_at > 0)

HeadIsDue == timers # <<>> /\ deadline[Head(timers)] <= clock

\* timer_main under g_timers.lock: take the head off if it is due...
Fire ==
    /\ tpc = "scan"
    /\ HeadIsDue
    /\ firing' = Head(timers)
    /\ timers' = Tail(timers)
    /\ call' = [call EXCEPT ![Head(timers)] = "fired"]
    /\ tpc' = "push"
    /\ UNCHANGED <<busy, clock, deadline, asked, sleep_ns, wake_at>>

\* Mutant: the nap is not capped, the thread sleeps until the head is due.
NapUncapped == IF timers # <<>> THEN deadline[Head(timers)] - clock ELSE 2 * Cap

\* ... else how long to sleep: till the head is due, the cap at most.
Nap == IF timers # <<>> THEN Least(Cap, deadline[Head(timers)] - clock) ELSE Cap

StartNap ==
    /\ tpc = "scan"
    /\ ~HeadIsDue
    /\ sleep_ns' = Nap
    /\ tpc' = "arm"
    /\ UNCHANGED <<busy, clock, timers, deadline, asked, call, firing, wake_at>>

\* Mutant: the timer taken off the list is freed before it is pushed.
PushForgotten ==
    /\ tpc = "push"
    /\ firing' = None
    /\ tpc' = "scan"
    /\ UNCHANGED <<busy, clock, timers, deadline, asked, call, sleep_ns, wake_at>>

\* _dispatch_queue_push_item outside the lock, then the list again.
PushFired ==
    /\ tpc = "push"
    /\ call' = [call EXCEPT ![firing] = "pushed"]
    /\ firing' = None
    /\ tpc' = "scan"
    /\ UNCHANGED <<busy, clock, timers, deadline, asked, sleep_ns, wake_at>>

\* wake_at from a second reading of the clock, the lock released.
Arm ==
    /\ tpc = "arm"
    /\ wake_at' = clock + sleep_ns
    /\ tpc' = "spin"
    /\ UNCHANGED <<busy, clock, timers, deadline, asked, call, firing, sleep_ns>>

\* The spin ends.
Wake ==
    /\ tpc = "spin"
    /\ clock >= wake_at
    /\ tpc' = "scan"
    /\ UNCHANGED <<busy, clock, timers, deadline, asked, call, firing, sleep_ns, wake_at>>

TimerStep == Fire \/ StartNap \/ PushFired \/ Arm \/ Wake

\* The timer thread spins, and no caller is on its way to the list.
Idle ==
    /\ tpc = "spin"
    /\ clock < wake_at
    /\ \A c \in Calls : call[c] \notin {"insert", "direct"}

\* Time passes; with nothing on the list and no more calls it need not.
Tick ==
    /\ clock < MaxTime \/ (timers # <<>> /\ tpc = "spin" /\ clock < wake_at)
    /\ clock' = clock + 1
    /\ busy' = IF Idle THEN busy ELSE busy + 1
    /\ UNCHANGED <<timers, deadline, asked, call, tvars>>

CallStep == \E c \in Calls :
    DispatchTime(c) \/ DispatchAfter(c) \/ Insert(c) \/ PushDirect(c)

Next == CallStep \/ TimerStep \/ Tick

Spec == Init /\ [][Next]_vars

(***************************************************************************)
(* xnu runs every thread and time passes.                                  *)
(***************************************************************************)
FairSpec ==
    /\ Spec
    /\ WF_vars(TimerStep)
    /\ WF_vars(Tick)
    /\ \A c \in Calls : WF_vars(Insert(c)) /\ WF_vars(PushDirect(c))

-----------------------------------------------------------------------------
\* The type invariant; the list is sorted and holds each call once.
TypeOK ==
    /\ clock \in Nat
    /\ timers \in Seq(Calls)
    /\ \A k, l \in DOMAIN timers : k < l =>
         timers[k] # timers[l] /\ deadline[timers[k]] <= deadline[timers[l]]
    /\ deadline \in [Calls -> 0 .. TimeSize - 1]
    /\ asked \in [Calls -> Int]
    /\ call \in [Calls -> {"new", "timed", "direct", "insert", "listed", "fired", "pushed"}]
    /\ busy \in 0 .. clock
    /\ tpc \in {"scan", "push", "arm", "spin"}
    /\ firing \in Calls \cup {None}
    /\ sleep_ns \in 0 .. Cap
    /\ wake_at \in Nat

(***************************************************************************)
(* dispatch_after never fires early ("dispatch_after did not fire early",  *)
(* test_after), however the clock was read before the list was locked.     *)
(***************************************************************************)
NeverEarly ==
    \A c \in Calls : call[c] \in {"direct", "fired", "pushed"} => clock >= asked[c]

(***************************************************************************)
(* TIMER_POLL_CAP_NS is the "worst-case dispatch_after() lateness", also   *)
(* for a timer put in front of the one the thread is sleeping for: what    *)
(* comes on top of it is only the time code takes to run.                  *)
(***************************************************************************)
LatenessBound ==
    \A c \in Calls : call[c] = "listed" => clock < deadline[c] + Cap + busy

\* Every timer is eventually pushed on its queue.
EveryTimerFires ==
    \A c \in Calls : call[c] \in {"direct", "insert"} ~> call[c] = "pushed"
=============================================================================
