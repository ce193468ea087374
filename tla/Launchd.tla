------------------------------- MODULE Launchd -------------------------------
(***************************************************************************)
(* launchd (userland/launchd/launchd.c, launchd_ops.h, control_server.c):  *)
(* PID 1's table of daemons, the main thread that starts them, reaps every *)
(* child and restarts the KeepAlive ones, the control thread that runs     *)
(* launchctl's list/start/stop/load/unload, and the shutdown on SIGTERM.   *)
(*                                                                         *)
(* The control thread takes g_daemons_lock around each command; so does    *)
(* the main thread while it boots.  Its supervision loop and do_shutdown   *)
(* do not take it, so what they do is cut at every access to the table     *)
(* and at every system call.  So is the respawn throttle, libc's nanosleep *)
(* (libc/src/time.c) on the one ITIMER_REAL and the one disposition of     *)
(* SIGALRM that the process has, which do_shutdown's alarm(5) uses too.    *)
(***************************************************************************)
EXTENDS Naturals, Sequences, FiniteSets

CONSTANTS
    Boot,         \* the parsed plists of /etc/launchd/daemons, by filename
    Loadable,     \* the plists launchctl load may be given
    MAX_DAEMONS,
    MaxCommands,  \* bound: commands received from launchctl
    MaxExits,     \* bound: exits of supervised processes
    MaxUnusual,   \* bound: processes reparented to PID 1, and failures of fork
    MaySigterm,   \* whether somebody sends PID 1 a SIGTERM
    SignalsToMain \* whether xnu always picks the main thread to handle a signal

Slots == 1 .. MAX_DAEMONS
Pids == 1 .. (MAX_DAEMONS + MaxCommands + MaxExits + MaxUnusual)
Configs == {Boot[i] : i \in DOMAIN Boot} \cup Loadable

ASSUME LaunchdAssumption ==
    /\ MAX_DAEMONS \in Nat
    /\ Boot \in Seq(Configs)
    /\ Len(Boot) <= MAX_DAEMONS
    /\ {MaxCommands, MaxExits, MaxUnusual} \subseteq Nat
    /\ {MaySigterm, SignalsToMain} \subseteq BOOLEAN
    /\ \A i, j \in DOMAIN Boot : Boot[i].label = Boot[j].label => i = j
    /\ \A c \in Configs : {c.keep_alive, c.run_at_load} \subseteq BOOLEAN

VARIABLES
    jobs,       \* g_daemons[0 .. g_ndaemons - 1]: a sequence of records
                \* [cfg, pid, spawned, unloaded], pid 0 when not running,
                \* spawned when last_spawn_ms is not 0
    lock,       \* who holds g_daemons_lock: "none", "main", "control"
    pc,         \* where "main" and "control" are
    slot,       \* the table entry each works on, d, or has done, i
    got,        \* the pid wait4 returned to main, or fork to a spawner
    command,    \* the request the control thread is serving
    shutdown_requested,
    itimer,     \* ITIMER_REAL: "off", "armed"
    handler,    \* what SIGALRM does: "default", "noop", "alarm" (on_sigalrm)
    old_sa,     \* the handler each thread's nanosleep will put back
    alarm_fired,\* g_alarm_fired
    proc,       \* each process: "none", "alive", "zombie", "reaped"
    owner,      \* the table entry it was forked for, 0 for an orphan
    signalled,  \* processes sent SIGTERM by launchd
    escaped,    \* history: the entries that do_shutdown may miss
    commands, exits, orphans, forkfails  \* how often, for the bounds

alarms == <<itimer, handler, old_sa, alarm_fired>>
signals == <<shutdown_requested, alarms>>
threads == <<pc, slot, got, lock>>
procs == <<proc, owner, signalled>>
counts == <<commands, exits, orphans, forkfails>>
vars == <<jobs, threads, command, signals, procs, escaped, counts>>

(***************************************************************************)
(* main: "boot" in start_runatload_daemons, "check" before the test of     *)
(* g_shutdown_requested, "enter" before and "wait" in wait4, "reaped"      *)
(* before find_by_pid, "found" before d->pid = 0; in do_shutdown,          *)
(* "shutdown" in the loop of kills, "catch", "reset" and "alarm" before    *)
(* sigaction, g_alarm_fired = 0 and alarm(5), "drain" before the loop      *)
(* test, "drainenter" before and "drainwait" in wait4, "drained" before    *)
(* find_by_pid, "done" before alarm(0), "halt" after reboot; "killed".     *)
(* control: "receive", "locking", "run".                                   *)
(* Both, in spawn_daemon: "spawn" before the throttle, "fork" after it,    *)
(* "store" before d->pid = pid; and in nanosleep, "arm" and "suspend"      *)
(* before setitimer and sigsuspend, "asleep" in it, "disarm" and "restore" *)
(* before setitimer and sigaction.                                         *)
(***************************************************************************)
Thread == {"main", "control"}
Napping == {"arm", "suspend", "asleep", "disarm", "restore"}
ToFork == {"spawn", "fork"} \cup Napping
InSpawn == ToFork \cup {"store"}
Draining == {"drain", "drainenter", "drainwait", "drained"}
AfterKills == {"catch", "reset", "alarm", "done", "halt"} \cup Draining
PC == {"boot", "check", "enter", "wait", "reaped", "found", "shutdown", "killed",
       "receive", "locking", "run"} \cup InSpawn \cup AfterKills
NoCommand == [op |-> "none"]
Labels == {c.label : c \in Configs}
Commands ==
    [op : {"list"}] \cup [op : {"start", "stop", "unload"}, label : Labels]
      \cup [op : {"load"}, cfg : Loadable]

Entry(cfg) == [cfg |-> cfg, pid |-> 0, spawned |-> FALSE, unloaded |-> FALSE]

\* After load_all_daemons, the lock taken by start_runatload_daemons.
Init ==
    /\ jobs = [i \in DOMAIN Boot |-> Entry(Boot[i])]
    /\ lock = "main"
    /\ pc = [t \in Thread |-> IF t = "main" THEN "boot" ELSE "receive"]
    /\ slot = [t \in Thread |-> 0]
    /\ got = [t \in Thread |-> 0]
    /\ command = NoCommand
    /\ shutdown_requested = FALSE
    /\ itimer = "off"
    /\ handler = "default"
    /\ old_sa = [t \in Thread |-> "default"]
    /\ alarm_fired = FALSE
    /\ proc = [p \in Pids |-> "none"]
    /\ owner = [p \in Pids |-> 0]
    /\ signalled = {}
    /\ escaped = {}
    /\ commands = 0 /\ exits = 0 /\ orphans = 0 /\ forkfails = 0

Go(t, p) == pc' = [pc EXCEPT ![t] = p]
Loaded(i) == i \in DOMAIN jobs /\ ~jobs[i].unloaded

\* find_by_pid, find_by_label: the first entry still loaded, 0 for NULL.
First(S) == IF S = {} THEN 0 ELSE CHOOSE i \in S : \A j \in S : i <= j
find_by_pid(p) == First({i \in DOMAIN jobs : Loaded(i) /\ jobs[i].pid = p})
find_by_label(l) == First({i \in DOMAIN jobs : Loaded(i) /\ jobs[i].cfg.label = l})
running_count == Cardinality({i \in DOMAIN jobs : Loaded(i) /\ jobs[i].pid > 0})

\* kill(pid, SIGTERM), which a process may ignore.
Kill(S) == signalled' = signalled \cup S

-----------------------------------------------------------------------------
(***************************************************************************)
(* The throttle of spawn_daemon, and nanosleep.  A daemon never spawned    *)
(* before does not sleep, one spawned long enough ago neither.  What is    *)
(* left of the delay when the sleep ends early is spun away in "fork".     *)
(***************************************************************************)
Throttle(t) ==
    /\ pc[t] = "spawn"
    /\ jobs[slot[t]].spawned
    /\ old_sa' = [old_sa EXCEPT ![t] = handler]
    /\ handler' = "noop"
    /\ Go(t, "arm")
    /\ UNCHANGED <<jobs, slot, got, lock, command, shutdown_requested, itimer, alarm_fired,
                   procs, escaped, counts>>

Arm(t) ==
    /\ pc[t] = "arm"
    /\ itimer' = "armed"
    /\ Go(t, "suspend")
    /\ UNCHANGED <<jobs, slot, got, lock, command, shutdown_requested, handler, old_sa,
                   alarm_fired, procs, escaped, counts>>

\* Into sigsuspend: a signal that came before does not end it.
Suspend(t) ==
    /\ pc[t] = "suspend"
    /\ Go(t, "asleep")
    /\ UNCHANGED <<jobs, slot, got, lock, command, signals, procs, escaped, counts>>

\* Mutant: a sleep that a signal ended leaves its timer running.
LeaveArmed(t) ==
    /\ pc[t] = "disarm"
    /\ Go(t, "restore")
    /\ UNCHANGED <<jobs, slot, got, lock, command, signals, procs, escaped, counts>>

Disarm(t) ==
    /\ pc[t] = "disarm"
    /\ itimer' = "off"
    /\ Go(t, "restore")
    /\ UNCHANGED <<jobs, slot, got, lock, command, shutdown_requested, handler, old_sa,
                   alarm_fired, procs, escaped, counts>>

Restore(t) ==
    /\ pc[t] = "restore"
    /\ handler' = old_sa[t]
    /\ Go(t, "fork")
    /\ UNCHANGED <<jobs, slot, got, lock, command, shutdown_requested, itimer, old_sa,
                   alarm_fired, procs, escaped, counts>>

Nap(t) == Throttle(t) \/ Arm(t) \/ Suspend(t) \/ Disarm(t) \/ Restore(t)

\* It sleeps, and the timer that was to wake it is gone.
Wedged(t) == pc[t] = "asleep" /\ itimer = "off"

-----------------------------------------------------------------------------
\* spawn_daemon: fork, after the throttle.
NewPid == CHOOSE p \in Pids : proc[p] = "none" /\ \A q \in Pids : q < p => proc[q] # "none"

Fork(t) ==
    /\ pc[t] \in {"spawn", "fork"}
    /\ proc' = [proc EXCEPT ![NewPid] = "alive"]
    /\ owner' = [owner EXCEPT ![NewPid] = slot[t]]
    /\ got' = [got EXCEPT ![t] = NewPid]
    /\ Go(t, "store")
    /\ UNCHANGED <<jobs, slot, lock, command, signals, signalled, escaped, counts>>

\* Where spawn_daemon returns to: main's boot or supervision loop, or a
\* control command that then releases the lock.
Return(t) ==
    IF t = "main"
    THEN Go(t, IF lock = "main" THEN "boot" ELSE "check") /\ UNCHANGED <<lock, command>>
    ELSE Go(t, "receive") /\ lock' = "none" /\ command' = NoCommand

\* fork failed: logged, nothing else; pid stays 0.
ForkFails(t) ==
    /\ pc[t] \in {"spawn", "fork"}
    /\ orphans + forkfails < MaxUnusual
    /\ forkfails' = forkfails + 1
    /\ Return(t)
    /\ UNCHANGED <<jobs, slot, got, signals, procs, escaped, commands, exits, orphans>>

\* History: control stores its pid when do_shutdown has been past the entry.
PassedBy(i) ==
    \/ pc["main"] = "shutdown" /\ i <= slot["main"]
    \/ pc["main"] \in AfterKills
Missed(t) == {i \in {slot[t]} : t = "control" /\ PassedBy(i)}

\* Mutant: the pid passes through a variable the two threads share.
StoreShared(t) ==
    /\ pc[t] = "store"
    /\ jobs' = [jobs EXCEPT ![slot[t]].pid = got["main"], ![slot[t]].spawned = TRUE]
    /\ escaped' = escaped \cup Missed(t)
    /\ Return(t)
    /\ UNCHANGED <<slot, got, signals, procs, counts>>

\* d->pid = pid and d->last_spawn_ms, in the parent, at any time after fork.
Store(t) ==
    /\ pc[t] = "store"
    /\ jobs' = [jobs EXCEPT ![slot[t]].pid = got[t], ![slot[t]].spawned = TRUE]
    /\ escaped' = escaped \cup Missed(t)
    /\ Return(t)
    /\ UNCHANGED <<slot, got, signals, procs, counts>>

-----------------------------------------------------------------------------
\* start_runatload_daemons: the next RunAtLoad entry, else unlock.
BootNext ==
    /\ pc["main"] = "boot"
    /\ LET i == First({j \in DOMAIN jobs : j > slot["main"] /\ jobs[j].cfg.run_at_load})
       IN  IF i # 0
           THEN Go("main", "spawn") /\ slot' = [slot EXCEPT !["main"] = i] /\ UNCHANGED lock
           ELSE Go("main", "check") /\ lock' = "none" /\ UNCHANGED slot
    /\ UNCHANGED <<jobs, got, command, signals, procs, escaped, counts>>

\* The test at the top of main's loop.
CheckShutdown ==
    /\ pc["main"] = "check"
    /\ IF shutdown_requested
       THEN Go("main", "shutdown") /\ slot' = [slot EXCEPT !["main"] = 0]
       ELSE Go("main", "enter") /\ UNCHANGED slot
    /\ UNCHANGED <<jobs, got, lock, command, signals, procs, escaped, counts>>

\* Into wait4: from here on a signal interrupts it, one that came before is
\* not seen.
EnterWait4 ==
    /\ pc["main"] \in {"enter", "drainenter"}
    /\ Go("main", IF pc["main"] = "enter" THEN "wait" ELSE "drainwait")
    /\ UNCHANGED <<jobs, slot, got, lock, command, signals, procs, escaped, counts>>

Zombies == {p \in Pids : proc[p] = "zombie"}

\* Mutant: only the pids in the table are waited for.
ReapTracked(from, to) ==
    /\ pc["main"] = from
    /\ \E p \in Zombies :
         /\ find_by_pid(p) # 0
         /\ proc' = [proc EXCEPT ![p] = "reaped"]
         /\ got' = [got EXCEPT !["main"] = p]
    /\ Go("main", to)
    /\ UNCHANGED <<jobs, slot, lock, command, signals, owner, signalled, escaped, counts>>

\* wait4(-1, ...) returns the pid of some zombie, which is now gone.
Reap(from, to) ==
    /\ pc["main"] = from
    /\ \E p \in Zombies :
         /\ proc' = [proc EXCEPT ![p] = "reaped"]
         /\ got' = [got EXCEPT !["main"] = p]
    /\ Go("main", to)
    /\ UNCHANGED <<jobs, slot, lock, command, signals, owner, signalled, escaped, counts>>

WaitReturns == Reap("wait", "reaped")

\* wait4 with no child at all: ECHILD, and round again.
WaitNoChild ==
    /\ pc["main"] = "wait"
    /\ \A p \in Pids : proc[p] \notin {"alive", "zombie"}
    /\ Go("main", "check")
    /\ UNCHANGED <<jobs, slot, got, lock, command, signals, procs, escaped, counts>>

\* find_by_pid, without the lock: not ours, or not any more, is ignored.
FindExited ==
    /\ pc["main"] = "reaped"
    /\ slot' = [slot EXCEPT !["main"] = find_by_pid(got["main"])]
    /\ Go("main", IF find_by_pid(got["main"]) = 0 THEN "check" ELSE "found")
    /\ UNCHANGED <<jobs, got, lock, command, signals, procs, escaped, counts>>

\* Mutant: a RunAtLoad daemon is taken for a one-shot.
KeepOnDemand(i) == jobs[i].cfg.keep_alive /\ ~jobs[i].cfg.run_at_load

Keep(i) == jobs[i].cfg.keep_alive

\* d->pid = 0, and spawn_daemon(d) if it has KeepAlive: again no lock.
HandleExit ==
    /\ pc["main"] = "found"
    /\ jobs' = [jobs EXCEPT ![slot["main"]].pid = 0]
    /\ Go("main", IF Keep(slot["main"]) THEN "spawn" ELSE "check")
    /\ UNCHANGED <<slot, got, lock, command, signals, procs, escaped, counts>>

-----------------------------------------------------------------------------
(***************************************************************************)
(* do_shutdown.                                                            *)
(***************************************************************************)
\* Mutant: only KeepAlive daemons are signalled.
KeptTarget(i) == IF jobs[i].cfg.keep_alive THEN {jobs[i].pid} \ {0} ELSE {}

\* The pid in an entry, whether or not it is still loaded.
Target(i) == {jobs[i].pid} \ {0}

\* SIGTERM to the pid in the next entry, of those there are by now.
SignalNext ==
    /\ pc["main"] = "shutdown"
    /\ LET i == slot["main"] + 1
       IN  IF i \in DOMAIN jobs
           THEN Kill(Target(i)) /\ slot' = [slot EXCEPT !["main"] = i] /\ UNCHANGED pc
           ELSE Go("main", "catch") /\ UNCHANGED <<signalled, slot>>
    /\ UNCHANGED <<jobs, got, lock, command, signals, proc, owner, escaped, counts>>

CatchAlarm ==
    /\ pc["main"] = "catch"
    /\ handler' = "alarm"
    /\ Go("main", "reset")
    /\ UNCHANGED <<jobs, slot, got, lock, command, shutdown_requested, itimer, old_sa,
                   alarm_fired, procs, escaped, counts>>

ResetAlarm ==
    /\ pc["main"] = "reset"
    /\ alarm_fired' = FALSE
    /\ Go("main", "alarm")
    /\ UNCHANGED <<jobs, slot, got, lock, command, shutdown_requested, itimer, handler,
                   old_sa, procs, escaped, counts>>

\* alarm(5), and alarm(0) when there is nothing more to drain, or no more time.
SetAlarm ==
    /\ pc["main"] \in {"alarm", "done"}
    /\ itimer' = IF pc["main"] = "alarm" THEN "armed" ELSE "off"
    /\ Go("main", IF pc["main"] = "alarm" THEN "drain" ELSE "halt")
    /\ UNCHANGED <<jobs, slot, got, lock, command, shutdown_requested, handler, old_sa,
                   alarm_fired, procs, escaped, counts>>

\* The loop test, which comes before every wait4.
DrainTest ==
    /\ pc["main"] = "drain"
    /\ Go("main", IF ~alarm_fired /\ running_count > 0 THEN "drainenter" ELSE "done")
    /\ UNCHANGED <<jobs, slot, got, lock, command, signals, procs, escaped, counts>>

DrainReap == Reap("drainwait", "drained")

\* ECHILD: break.
DrainNoChild ==
    /\ pc["main"] = "drainwait"
    /\ \A p \in Pids : proc[p] \notin {"alive", "zombie"}
    /\ Go("main", "done")
    /\ UNCHANGED <<jobs, slot, got, lock, command, signals, procs, escaped, counts>>

DrainExited ==
    /\ pc["main"] = "drained"
    /\ LET i == find_by_pid(got["main"])
       IN  jobs' = IF i = 0 THEN jobs ELSE [jobs EXCEPT ![i].pid = 0]
    /\ Go("main", "drain")
    /\ UNCHANGED <<slot, got, lock, command, signals, procs, escaped, counts>>

-----------------------------------------------------------------------------
(***************************************************************************)
(* The control thread: receive a request, take the lock, run the lc_*      *)
(* function.  Each but a spawn does all it does, and unlocks, in one step. *)
(***************************************************************************)
Receive ==
    /\ pc["control"] = "receive"
    /\ pc["main"] # "boot"
    /\ commands < MaxCommands
    /\ commands' = commands + 1
    /\ command' \in Commands
    /\ Go("control", "locking")
    /\ UNCHANGED <<jobs, slot, got, lock, signals, procs, escaped,
                   exits, orphans, forkfails>>

TakeLock ==
    /\ pc["control"] = "locking"
    /\ lock = "none"
    /\ lock' = "control"
    /\ Go("control", "run")
    /\ UNCHANGED <<jobs, slot, got, command, signals, procs, escaped, counts>>

Running(op) == pc["control"] = "run" /\ command.op = op
Reply == Go("control", "receive") /\ lock' = "none" /\ command' = NoCommand
Spawning(i) ==
    Go("control", "spawn") /\ slot' = [slot EXCEPT !["control"] = i] /\ UNCHANGED <<lock, command>>
Rest == UNCHANGED <<got, signals, proc, owner, counts>>

\* lc_list, and any command that returns an error: the table is only read.
lc_list == Running("list") /\ Reply /\ Rest /\ UNCHANGED <<jobs, slot, signalled, escaped>>

\* History: main is about to respawn the entry that a start finds down.
Raced(i) == {j \in {i} : pc["main"] \in InSpawn /\ slot["main"] = i}

\* Mutant: the early return for a running job forgets to unlock.
lc_startLeakingLock ==
    /\ Running("start")
    /\ LET i == find_by_label(command.label)
       IN  IF i # 0 /\ jobs[i].pid = 0
           THEN Spawning(i) /\ escaped' = escaped \cup Raced(i)
           ELSE /\ Go("control", "receive") /\ command' = NoCommand
                /\ UNCHANGED <<slot, lock, escaped>>
    /\ Rest
    /\ UNCHANGED <<jobs, signalled>>

lc_start ==
    /\ Running("start")
    /\ LET i == find_by_label(command.label)
       IN  IF i # 0 /\ jobs[i].pid = 0
           THEN Spawning(i) /\ escaped' = escaped \cup Raced(i)
           ELSE Reply /\ UNCHANGED <<slot, escaped>>
    /\ Rest
    /\ UNCHANGED <<jobs, signalled>>

lc_stop ==
    /\ Running("stop")
    /\ LET i == find_by_label(command.label)
       IN  IF i # 0 /\ jobs[i].pid > 0 THEN Kill({jobs[i].pid}) ELSE UNCHANGED signalled
    /\ Reply
    /\ Rest
    /\ UNCHANGED <<jobs, slot, escaped>>

\* Mutant: the label is looked for among the running daemons only.
MayLoadStopped(cfg) ==
    /\ \A i \in DOMAIN jobs : Loaded(i) /\ jobs[i].pid # 0 => jobs[i].cfg.label # cfg.label
    /\ Len(jobs) < MAX_DAEMONS

MayLoad(cfg) == find_by_label(cfg.label) = 0 /\ Len(jobs) < MAX_DAEMONS

lc_load ==
    /\ Running("load")
    /\ IF MayLoad(command.cfg)
       THEN /\ jobs' = Append(jobs, Entry(command.cfg))
            /\ IF command.cfg.run_at_load THEN Spawning(Len(jobs) + 1)
               ELSE Reply /\ UNCHANGED slot
       ELSE Reply /\ UNCHANGED <<jobs, slot>>
    /\ Rest
    /\ UNCHANGED <<signalled, escaped>>

lc_unload ==
    /\ Running("unload")
    /\ LET i == find_by_label(command.label)
       IN  IF i = 0 THEN UNCHANGED <<jobs, signalled>>
           ELSE /\ jobs' = [jobs EXCEPT ![i].unloaded = TRUE]
                /\ Kill({jobs[i].pid} \ {0})
    /\ Reply
    /\ Rest
    /\ UNCHANGED <<slot, escaped>>

-----------------------------------------------------------------------------
(***************************************************************************)
(* The world: processes exit, orphans arrive, signals come.                *)
(***************************************************************************)
Exit(p) ==
    /\ proc[p] = "alive"
    /\ exits < MaxExits
    /\ exits' = exits + 1
    /\ proc' = [proc EXCEPT ![p] = "zombie"]
    /\ UNCHANGED <<jobs, threads, command, signals, owner, signalled, escaped,
                   commands, orphans, forkfails>>

\* A grandchild whose parent died: PID 1 is its parent now.
Reparent ==
    /\ orphans + forkfails < MaxUnusual
    /\ orphans' = orphans + 1
    /\ proc' = [proc EXCEPT ![NewPid] = "alive"]
    /\ UNCHANGED <<jobs, threads, command, signals, owner, signalled, escaped,
                   commands, exits, forkfails>>

\* A handler that runs in a thread ends its wait4 (EINTR) or sigsuspend.
Interrupted(p) ==
    CASE p = "wait" -> "check"
      [] p = "drainwait" -> "done"
      [] p = "asleep" -> "disarm"
      [] OTHER -> p

\* One thread of the process handles a signal: main, control or another.
Handled ==
    \/ \E t \in IF SignalsToMain THEN {"main"} ELSE Thread :
          pc' = [pc EXCEPT ![t] = Interrupted(@)]
    \/ ~SignalsToMain /\ UNCHANGED pc

\* on_sigterm, installed once the daemons are started.
Sigterm ==
    /\ MaySigterm
    /\ ~shutdown_requested
    /\ lock # "main"
    /\ shutdown_requested' = TRUE
    /\ Handled
    /\ UNCHANGED <<jobs, slot, got, lock, command, alarms, procs, escaped, counts>>

\* The timer, whoever armed it, expires once; SIG_DFL terminates PID 1.
Sigalrm ==
    /\ itimer = "armed"
    /\ itimer' = "off"
    /\ alarm_fired' = (alarm_fired \/ handler = "alarm")
    /\ IF handler = "default" THEN Go("main", "killed") ELSE Handled
    /\ UNCHANGED <<jobs, slot, got, lock, command, shutdown_requested, handler, old_sa,
                   procs, escaped, counts>>

Spawner(t) == Nap(t) \/ Fork(t) \/ ForkFails(t) \/ Store(t)

MainStep ==
    \/ Spawner("main")
    \/ BootNext \/ CheckShutdown \/ EnterWait4
    \/ WaitReturns \/ WaitNoChild \/ FindExited \/ HandleExit
    \/ SignalNext \/ CatchAlarm \/ ResetAlarm \/ SetAlarm
    \/ DrainTest \/ DrainReap \/ DrainNoChild \/ DrainExited

ControlStep ==
    \/ Spawner("control")
    \/ TakeLock
    \/ lc_list \/ lc_start \/ lc_stop \/ lc_load \/ lc_unload

\* reboot(RB_HALT) ends everything, and so does the end of PID 1.
Up == pc["main"] \notin {"halt", "killed"}

Next ==
    /\ Up
    /\ \/ MainStep
       \/ ControlStep
       \/ Receive
       \/ \E p \in Pids : Exit(p)
       \/ Reparent
       \/ Sigterm
       \/ Sigalrm

Spec == Init /\ [][Next]_vars

(***************************************************************************)
(* Both threads run, and a timer armed expires; a thread in sigsuspend     *)
(* waits for a signal, which need not reach it.  No process need exit, no  *)
(* SIGTERM need come.                                                      *)
(***************************************************************************)
Fairness == WF_vars(MainStep) /\ WF_vars(Up /\ ControlStep) /\ WF_vars(Up /\ Sigalrm)

FairSpec == Spec /\ Fairness

-----------------------------------------------------------------------------
(***************************************************************************)
(* A label names one loaded entry, whatever was unloaded and loaded again  *)
(* (lc_load, lc_unload): "its label becomes loadable again", once.         *)
(***************************************************************************)
LabelsUnique ==
    \A i, j \in DOMAIN jobs :
        Loaded(i) /\ Loaded(j) /\ jobs[i].cfg.label = jobs[j].cfg.label => i = j

(***************************************************************************)
(* The type invariant; an entry's pid is that of a process forked for it,  *)
(* and its label no other's.                                               *)
(***************************************************************************)
TypeOK ==
    /\ jobs \in Seq([cfg : Configs, pid : Pids \cup {0}, spawned : BOOLEAN, unloaded : BOOLEAN])
    /\ Len(jobs) <= MAX_DAEMONS
    /\ \A i \in DOMAIN jobs : jobs[i].pid # 0 => owner[jobs[i].pid] = i
    /\ LabelsUnique
    /\ lock \in {"none"} \cup Thread
    /\ pc \in [Thread -> PC]
    /\ slot \in [Thread -> Slots \cup {0}]
    /\ got \in [Thread -> Pids \cup {0}]
    /\ command \in Commands \cup {NoCommand}
    /\ shutdown_requested \in BOOLEAN
    /\ itimer \in {"off", "armed"}
    /\ handler \in {"default", "noop", "alarm"}
    /\ old_sa \in [Thread -> {"default", "noop", "alarm"}]
    /\ alarm_fired \in BOOLEAN
    /\ proc \in [Pids -> {"none", "alive", "zombie", "reaped"}]
    /\ owner \in [Pids -> Slots \cup {0}]
    /\ signalled \subseteq Pids
    /\ escaped \subseteq Slots

Alive(i) == {p \in Pids : proc[p] = "alive" /\ owner[p] = i}

(***************************************************************************)
(* "PID 1 must reap every exited process", its own or an orphan, unless    *)
(* the system is going down, or its throttle's sleep has lost its timer.   *)
(***************************************************************************)
EveryZombieReaped ==
    Zombies # {} ~> Zombies = {} \/ shutdown_requested \/ ~Up \/ Wedged("main")

(***************************************************************************)
(* Every command ends, and gives the lock back (the lc_ functions), unless *)
(* the sleep of a throttle it is in has lost its timer.                    *)
(***************************************************************************)
CommandsEnd ==
    pc["control"] # "receive"
    ~> (pc["control"] = "receive" /\ lock # "control") \/ ~Up \/ Wedged("control")

(***************************************************************************)
(* launchd "re-forks any KeepAlive daemon that exits" (header comment): as *)
(* long as fork works, no launchctl command races the supervision loop and *)
(* the throttle's sleep has not lost its timer.                            *)
(***************************************************************************)
KeepAliveRestarts ==
    \A i \in Slots :
        (\E p \in Pids : proc[p] = "zombie" /\ owner[p] = i /\ jobs[i].cfg.keep_alive)
        ~> \/ Alive(i) # {} \/ shutdown_requested \/ commands > 0 \/ forkfails > 0
           \/ Wedged("main")

\* The two halves of the supervision loop: whatever exits is reaped, and what
\* is to be kept alive runs again.
Supervision == EveryZombieReaped /\ KeepAliveRestarts

(***************************************************************************)
(* When the system halts, each supervised process still alive has been     *)
(* asked to terminate (do_shutdown), launchctl's included, except: those   *)
(* of an entry whose start raced main's respawn, for which there are two;  *)
(* that of an entry for which a command stored its pid after the loop of   *)
(* kills had been there; and one forked by a command and not yet stored.   *)
(***************************************************************************)
HaltedMeansSignalled ==
    pc["main"] = "halt" =>
        \A i \in DOMAIN jobs \ escaped :
            Alive(i) \subseteq signalled
                \cup (IF pc["control"] = "store" THEN {got["control"]} ELSE {})

(***************************************************************************)
(* "Disarming unconditionally, regardless of why sigsuspend returned"      *)
(* (nanosleep): no timer left behind terminates PID 1, unless launchctl    *)
(* has made a second thread sleep.                                         *)
(***************************************************************************)
KilledByOverlapOnly == pc["main"] = "killed" => commands > 0

(***************************************************************************)
(* What comments of the repository say without these exceptions, and       *)
(* launchd does not do.                                                    *)
(*                                                                         *)
(* "it will not be respawned even if KeepAlive" (lc_unload, launchd_ops.h):*)
(* no process is forked for an entry once it is unloaded.                  *)
(***************************************************************************)
NoRespawnAfterUnload ==
    [][\A p \in Pids :
         proc[p] = "none" /\ proc'[p] = "alive" /\ owner'[p] # 0
         => ~jobs[owner'[p]].unloaded]_vars

\* lc_start on a running job is "already running (no-op)" (launchd_ops.h):
\* a job never has two processes.
OneProcessPerJob == \A i \in DOMAIN jobs : \A p, q \in Alive(i) : p = q

\* "signal every supervised child" (do_shutdown).
EverySupervisedSignalled ==
    pc["main"] = "halt" => \A i \in DOMAIN jobs : Alive(i) \subseteq signalled

\* "these calls may block briefly (bounded: at most spawn_daemon()'s
\* respawn-throttle sleep)" (launchd_ops.h): every command is answered.
CommandsAnswered == pc["control"] # "receive" ~> pc["control"] = "receive" \/ ~Up

\* "Disarming unconditionally ... is the actual fix" (nanosleep) for a PID 1
\* terminated by an orphaned timer.
NeverKilled == pc["main"] # "killed"

\* "nothing calls nanosleep/usleep/sleep while an alarm() from the same
\* process is outstanding" (nanosleep).
NoNapDuringAlarm ==
    ~(pc["main"] \in Draining /\ ~alarm_fired /\ pc["control"] \in Napping)

\* "SIGTERM begins a bounded shutdown" (header comment of launchd.c): a
\* signal between main's test of the flag and its wait4 refutes it.
ShutdownBegins == shutdown_requested ~> pc["main"] \in AfterKills \/ ~Up
=============================================================================
