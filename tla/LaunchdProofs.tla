---------------------------- MODULE LaunchdProofs ----------------------------
(***************************************************************************)
(* That launchd's table is never wrong about whose a pid is, that a label  *)
(* names one loaded entry, that a halt has signalled the processes the     *)
(* table could name, and that a sleep by itself leaves no timer behind,    *)
(* for any plists, table size and bounds.  The liveness properties stay    *)
(* with TLC.                                                               *)
(***************************************************************************)
EXTENDS Launchd, FiniteSetTheorems, TLAPS

\* TypeOK, in three parts: the table, the two threads, the rest.
Job == [cfg : Configs, pid : Pids \cup {0}, spawned : BOOLEAN, unloaded : BOOLEAN]

JobsOK ==
    /\ jobs \in Seq(Job)
    /\ Len(jobs) <= MAX_DAEMONS
    /\ \A i \in DOMAIN jobs : jobs[i].pid # 0 => owner[jobs[i].pid] = i

ThreadsOK ==
    /\ lock \in {"none"} \cup Thread
    /\ pc \in [Thread -> PC]
    /\ slot \in [Thread -> Slots \cup {0}]
    /\ got \in [Thread -> Pids \cup {0}]
    /\ command \in Commands \cup {NoCommand}

WorldOK ==
    /\ shutdown_requested \in BOOLEAN
    /\ itimer \in {"off", "armed"}
    /\ handler \in {"default", "noop", "alarm"}
    /\ old_sa \in [Thread -> {"default", "noop", "alarm"}]
    /\ alarm_fired \in BOOLEAN
    /\ proc \in [Pids -> {"none", "alive", "zombie", "reaped"}]
    /\ owner \in [Pids -> Slots \cup {0}]
    /\ signalled \subseteq Pids
    /\ escaped \subseteq Slots

Used == {p \in Pids : proc[p] # "none"}

(***************************************************************************)
(* Who may still fork: main at boot, once for each entry it has not come   *)
(* to; main for a child it has reaped; control for the command it serves.  *)
(***************************************************************************)
BootLeft ==
    IF lock # "main" THEN 0
    ELSE MAX_DAEMONS - slot["main"] + (IF pc["main"] \in ToFork THEN 1 ELSE 0)
Respawning ==
    IF pc["main"] \in {"reaped", "found"} \/ (pc["main"] \in ToFork /\ lock # "main")
    THEN 1 ELSE 0
Requested == IF pc["control"] \in {"locking", "run"} \cup ToFork THEN 1 ELSE 0

\* g_daemons_lock is main's while it boots and control's in a command.
LockInv ==
    /\ lock = "main" => pc["main"] \in {"boot", "killed"} \cup InSpawn
    /\ pc["main"] = "boot" => lock = "main"
    /\ pc["main"] \notin {"receive", "locking", "run"}
    /\ pc["control"] \in {"receive", "locking", "run"} \cup InSpawn
    /\ lock = "control" <=> pc["control"] \in {"run"} \cup InSpawn

\* A spawner works on an entry of the table; the pid it is about to store is
\* that of the process it forked for the entry.
SlotInv ==
    \A t \in Thread :
       /\ pc[t] \in InSpawn \cup {"found"} => slot[t] \in DOMAIN jobs
       /\ pc[t] = "store" =>
            got[t] \in Pids /\ proc[got[t]] # "none" /\ owner[got[t]] = slot[t]

PidInv ==
    /\ \A i \in DOMAIN jobs : jobs[i].pid # 0 => proc[jobs[i].pid] # "none"
    /\ \A p \in Pids : owner[p] \in DOMAIN jobs \cup {0}
    /\ \A p \in Pids : proc[p] = "none" => owner[p] = 0

\* Pids is large enough: each process was forked at boot, for a command, for
\* an exit, or reparented.
SupplyInv ==
    /\ commands \in 0 .. MaxCommands
    /\ exits \in 0 .. MaxExits
    /\ {orphans, forkfails} \subseteq Nat
    /\ orphans + forkfails <= MaxUnusual
    /\ Cardinality(Used) + Cardinality(Zombies) + BootLeft + Respawning + Requested
         <= MAX_DAEMONS + commands + exits + orphans

\* What main has reaped stays reaped, and at boot the rest is not running.
MainInv ==
    /\ pc["main"] \in {"reaped", "found", "drained"} =>
         got["main"] \in Pids /\ proc[got["main"]] = "reaped"
    /\ lock = "main" => \A i \in DOMAIN jobs : i > slot["main"] => jobs[i].pid = 0

(***************************************************************************)
(* An entry that has not escaped tells all: its pid is the process alive   *)
(* for it, but for the one a spawner is about to store; its spawner finds  *)
(* it down and is alone; and once the loop of kills has been past it, its  *)
(* process is signalled, or is the one control has forked since.           *)
(***************************************************************************)
Spawns(t, i) == pc[t] \in InSpawn /\ slot[t] = i
Stores(t, p) == pc[t] = "store" /\ got[t] = p

EntryOK(i) ==
    /\ \A p \in Alive(i) : p = jobs[i].pid \/ \E t \in Thread : Stores(t, p) /\ slot[t] = i
    /\ \A t \in Thread : Spawns(t, i) => jobs[i].pid = 0
    /\ ~(Spawns("main", i) /\ Spawns("control", i))
    /\ PassedBy(i) => \A p \in Alive(i) : p \in signalled \/ Stores("control", p)
    /\ pc["main"] = "found" /\ slot["main"] = i => jobs[i].pid = got["main"]

EntryInv == pc["main"] # "killed" => \A i \in DOMAIN jobs \ escaped : EntryOK(i)

LaunchdInv ==
    /\ JobsOK
    /\ ThreadsOK
    /\ WorldOK
    /\ LockInv
    /\ SlotInv
    /\ PidInv
    /\ SupplyInv
    /\ MainInv
    /\ EntryInv

USE LaunchdAssumption DEF LaunchdAssumption

-----------------------------------------------------------------------------
\* A set of natural numbers that is not empty has a least element.
LEMMA LeastExists ==
  ASSUME NEW S, S \subseteq Nat, S # {}
  PROVE  \E i \in S : \A j \in S : i <= j
  <1> DEFINE R == OpToRel(<, Nat)
  <1>1. IsWellFoundedOn(R, Nat)
    BY NatLessThanWellFounded
  <1>2. \A x, y \in Nat : x < y => <<x, y>> \in R
    BY DEF OpToRel
  <1> HIDE DEF R
  <1>3. PICK i \in S : \A j \in S : ~(<<j, i>> \in R)
    BY <1>1, WFMin
  <1>4. ASSUME NEW j \in S PROVE i <= j
    <2>1. i \in Nat /\ j \in Nat /\ ~(<<j, i>> \in R)
      BY <1>3
    <2> QED
      BY <1>2, <2>1
  <1> QED
    BY <1>4

\* find_by_pid and find_by_label return an entry of the set searched, or 0.
LEMMA FirstIsIn ==
  ASSUME NEW S, S \subseteq Nat
  PROVE  IF S = {} THEN First(S) = 0 ELSE First(S) \in S
  BY LeastExists DEF First

LEMMA FoundByPid ==
  ASSUME JobsOK, NEW p
  PROVE  \/ find_by_pid(p) = 0
         \/ find_by_pid(p) \in DOMAIN jobs /\ jobs[find_by_pid(p)].pid = p
  <1>1. {i \in DOMAIN jobs : Loaded(i) /\ jobs[i].pid = p} \subseteq Nat
    BY DEF JobsOK
  <1> QED
    BY <1>1, FirstIsIn DEF find_by_pid

LEMMA FoundByLabel ==
  ASSUME JobsOK, NEW l
  PROVE  find_by_label(l) \in DOMAIN jobs \cup {0}
  <1>1. {i \in DOMAIN jobs : Loaded(i) /\ jobs[i].cfg.label = l} \subseteq Nat
    BY DEF JobsOK
  <1> QED
    BY <1>1, FirstIsIn DEF find_by_label

\* While somebody may still fork, there is a pid nobody has had.
LEMMA UsedFinite ==
  /\ IsFiniteSet(Pids)
  /\ Cardinality(Pids) = MAX_DAEMONS + MaxCommands + MaxExits + MaxUnusual
  /\ MAX_DAEMONS + MaxCommands + MaxExits + MaxUnusual \in Nat
  /\ IsFiniteSet(Used)
  /\ Cardinality(Used) \in Nat
  /\ IsFiniteSet(Zombies)
  /\ Cardinality(Zombies) \in Nat
  <1>1. MaxCommands \in Nat /\ MaxExits \in Nat /\ MaxUnusual \in Nat
    OBVIOUS
  <1>2. MAX_DAEMONS + MaxCommands + MaxExits + MaxUnusual \in Nat
    BY <1>1
  <1>3. /\ IsFiniteSet(Pids)
        /\ Cardinality(Pids) = MAX_DAEMONS + MaxCommands + MaxExits + MaxUnusual
    <2>1. PICK n \in Nat : n = MAX_DAEMONS + MaxCommands + MaxExits + MaxUnusual
      BY <1>2
    <2>2. IsFiniteSet(1 .. n) /\ Cardinality(1 .. n) = IF 1 > n THEN 0 ELSE n - 1 + 1
      BY ONLY n \in Nat, FS_Interval
    <2> QED
      BY <2>1, <2>2 DEF Pids
  <1>4. Used \in SUBSET Pids /\ Zombies \in SUBSET Pids
    BY DEF Used, Zombies
  <1>5. IsFiniteSet(Used) /\ IsFiniteSet(Zombies)
    BY ONLY <1>3, <1>4, FS_Subset
  <1> QED
    BY <1>2, <1>3, <1>5, FS_CardinalityType

LEMMA NewPidIsFresh ==
  ASSUME Cardinality(Used) < MAX_DAEMONS + MaxCommands + MaxExits + MaxUnusual
  PROVE  NewPid \in Pids /\ proc[NewPid] = "none"
  <1> DEFINE S == {p \in Pids : proc[p] = "none"}
  <1>1. S # {}
    <2>1. Used # Pids
      BY UsedFinite
    <2> QED
      BY <2>1 DEF Used
  <1>2. S \subseteq Nat
    BY DEF Pids
  <1>3. \A p \in S : p \in Pids /\ proc[p] = "none"
    OBVIOUS
  <1>4. \A p \in Pids : proc[p] = "none" => p \in S
    OBVIOUS
  <1> HIDE DEF S
  <1>5. PICK p \in S : \A q \in S : p <= q
    BY <1>1, <1>2, LeastExists
  <1>6. p \in Pids /\ proc[p] = "none" /\ \A q \in Pids : q < p => proc[q] # "none"
    <2>1. ASSUME NEW q \in Pids, q < p, proc[q] = "none" PROVE FALSE
      <3>1. q \in S /\ p \in Nat /\ q \in Nat
        BY <1>2, <1>4, <2>1
      <3> QED
        BY <1>5, <2>1, <3>1
    <2> QED
      BY <1>3, <2>1
  <1> QED
    BY <1>6 DEF NewPid

-----------------------------------------------------------------------------
(***************************************************************************)
(* What a step leaves alone it cannot break.                               *)
(***************************************************************************)
LEMMA Frame ==
  ASSUME LaunchdInv
  PROVE  /\ UNCHANGED <<jobs, owner>> => JobsOK'
         /\ UNCHANGED <<lock, pc, slot, got, command>> => ThreadsOK'
         /\ UNCHANGED <<signals, procs, escaped>> => WorldOK'
         /\ UNCHANGED <<lock, pc>> => LockInv'
         /\ UNCHANGED <<jobs, pc, slot, got, proc, owner>> => SlotInv'
         /\ UNCHANGED <<jobs, proc, owner>> => PidInv'
         /\ UNCHANGED <<lock, pc, slot, proc, counts>> => SupplyInv'
         /\ UNCHANGED <<jobs, lock, pc, slot, got, proc>> => MainInv'
  <1>1. UNCHANGED <<jobs, owner>> => JobsOK'
    BY DEF LaunchdInv, JobsOK
  <1>2. UNCHANGED <<lock, pc, slot, got, command>> => ThreadsOK'
    BY DEF LaunchdInv, ThreadsOK
  <1>3. UNCHANGED <<signals, procs, escaped>> => WorldOK'
    BY DEF LaunchdInv, WorldOK, procs, signals, alarms
  <1>4. UNCHANGED <<lock, pc>> => LockInv'
    BY DEF LaunchdInv, LockInv
  <1>5. UNCHANGED <<jobs, pc, slot, got, proc, owner>> => SlotInv'
    BY DEF LaunchdInv, SlotInv
  <1>6. UNCHANGED <<jobs, proc, owner>> => PidInv'
    BY DEF LaunchdInv, PidInv
  <1>7. UNCHANGED <<lock, pc, slot, proc, counts>> => SupplyInv'
    BY DEF LaunchdInv, SupplyInv, Used, Zombies, BootLeft, Respawning, Requested, counts
  <1>8. UNCHANGED <<jobs, lock, pc, slot, got, proc>> => MainInv'
    BY DEF LaunchdInv, MainInv
  <1> QED
    BY <1>1, <1>2, <1>3, <1>4, <1>5, <1>6, <1>7, <1>8

(***************************************************************************)
(* What a step must not do to an entry: forget its process, start one more *)
(* process for it, let a spawner begin, pass it by, or take it for exited. *)
(***************************************************************************)
Unaffected(i) ==
    /\ jobs'[i].pid = jobs[i].pid
    /\ Alive(i)' \subseteq Alive(i)
    /\ signalled \subseteq signalled'
    /\ \A t \in Thread : \A p \in Pids : Stores(t, p) => Stores(t, p)' /\ UNCHANGED slot[t]
    /\ \A t \in Thread : Spawns(t, i)' => Spawns(t, i)
    /\ PassedBy(i)' => PassedBy(i)
    /\ pc'["main"] = "found" /\ slot'["main"] = i =>
         pc["main"] = "found" /\ slot["main"] = i /\ got'["main"] = got["main"]

LEMMA EntryKept ==
  ASSUME NEW i, EntryOK(i), Unaffected(i)
  PROVE  EntryOK(i)'
  <1>1. Alive(i) \subseteq Pids
    BY DEF Alive
  <1>2. \A p \in Alive(i)' : p = jobs'[i].pid \/ \E t \in Thread : Stores(t, p)' /\ slot'[t] = i
    BY <1>1 DEF EntryOK, Unaffected
  <1>3. \A t \in Thread : Spawns(t, i)' => jobs'[i].pid = 0
    BY DEF EntryOK, Unaffected
  <1>4. ~(Spawns("main", i)' /\ Spawns("control", i)')
    BY DEF EntryOK, Unaffected, Thread
  <1>5. PassedBy(i)' => \A p \in Alive(i)' : p \in signalled' \/ Stores("control", p)'
    BY <1>1 DEF EntryOK, Unaffected, Thread
  <1>6. pc'["main"] = "found" /\ slot'["main"] = i => jobs'[i].pid = got'["main"]
    BY DEF EntryOK, Unaffected
  <1> QED
    BY <1>2, <1>3, <1>4, <1>5, <1>6 DEF EntryOK

\* A step that affects no entry there was, and adds none.
LEMMA EntriesKept ==
  ASSUME LaunchdInv, DOMAIN jobs' = DOMAIN jobs, escaped \subseteq escaped',
         pc["main"] = "killed" => pc'["main"] = "killed",
         pc'["main"] # "killed" => \A i \in DOMAIN jobs : Unaffected(i)
  PROVE  EntryInv'
  <1> SUFFICES ASSUME pc'["main"] # "killed", NEW i \in DOMAIN jobs', i \notin escaped'
               PROVE  EntryOK(i)'
    BY DEF EntryInv
  <1>1. EntryOK(i)
    BY DEF LaunchdInv, EntryInv
  <1> QED
    BY <1>1, EntryKept

\* What there is still to fork is a natural number.
LEMMA DemandIsNat ==
  ASSUME ThreadsOK
  PROVE  BootLeft \in Nat /\ Respawning \in {0, 1} /\ Requested \in {0, 1}
  <1>1. slot["main"] \in Nat /\ slot["main"] <= MAX_DAEMONS
    BY DEF ThreadsOK, Slots, Thread
  <1> QED
    BY <1>1 DEF BootLeft, Respawning, Requested

\* A step that forks nothing, and adds nothing to fork, needs no more pids.
LEMMA SupplyKept ==
  ASSUME LaunchdInv, ThreadsOK', UNCHANGED <<proc, commands, exits, orphans>>,
         \/ UNCHANGED forkfails
         \/ (forkfails' = forkfails + 1 /\ orphans + forkfails < MaxUnusual),
         BootLeft' <= BootLeft, Respawning' <= Respawning, Requested' <= Requested
  PROVE  SupplyInv'
  <1>1. UNCHANGED <<Used, Zombies>>
    BY DEF Used, Zombies
  <1>2. /\ BootLeft \in Nat /\ Respawning \in Nat /\ Requested \in Nat
        /\ BootLeft' \in Nat /\ Respawning' \in Nat /\ Requested' \in Nat
    <2>1. slot'["main"] \in Nat /\ slot'["main"] <= MAX_DAEMONS
      BY DEF ThreadsOK, Slots, Thread
    <2> QED
      BY <2>1, DemandIsNat DEF LaunchdInv, BootLeft, Respawning, Requested
  <1>3. Cardinality(Used) \in Nat /\ Cardinality(Zombies) \in Nat
    BY UsedFinite
  <1>4. /\ commands \in 0 .. MaxCommands /\ exits \in 0 .. MaxExits
        /\ orphans \in Nat /\ forkfails \in Nat /\ orphans + forkfails <= MaxUnusual
        /\ Cardinality(Used) + Cardinality(Zombies) + BootLeft + Respawning + Requested
             <= MAX_DAEMONS + commands + exits + orphans
    BY DEF LaunchdInv, SupplyInv
  <1>5. Cardinality(Used') = Cardinality(Used) /\ Cardinality(Zombies') = Cardinality(Zombies)
    BY <1>1
  <1>6. Cardinality(Used') + Cardinality(Zombies') + BootLeft' + Respawning' + Requested'
             <= MAX_DAEMONS + commands + exits + orphans
    <2> DEFINE u == Cardinality(Used)
               z == Cardinality(Zombies)
               b == BootLeft
               b1 == BootLeft'
               r == Respawning
               r1 == Respawning'
               q == Requested
               q1 == Requested'
               n == MAX_DAEMONS + commands + exits + orphans
    <2>1. /\ u \in Nat /\ z \in Nat /\ b \in Nat /\ b1 \in Nat /\ r \in Nat /\ r1 \in Nat
          /\ q \in Nat /\ q1 \in Nat /\ n \in Nat
          /\ b1 <= b /\ r1 <= r /\ q1 <= q /\ u + z + b + r + q <= n
      <3>1. n \in Nat
        BY <1>4
      <3> QED
        BY <1>2, <1>3, <1>4, <3>1
    <2>2. Cardinality(Used') = u /\ Cardinality(Zombies') = z
      BY <1>5
    <2> HIDE DEF u, z, b, b1, r, r1, q, q1, n
    <2>3. u + z + b1 + r1 + q1 <= n
      BY <2>1
    <2> QED
      BY <2>2, <2>3 DEF b1, r1, q1, n
  <1>7. forkfails' \in Nat /\ orphans + forkfails' <= MaxUnusual
    BY <1>4
  <1> QED
    BY <1>4, <1>6, <1>7 DEF SupplyInv

\* d->pid = x changes that field of that entry.
LEMMA SetPid ==
  ASSUME JobsOK, NEW i \in DOMAIN jobs, NEW x \in Pids \cup {0},
         \/ jobs' = [jobs EXCEPT ![i].pid = x]
         \/ jobs' = [jobs EXCEPT ![i].pid = x, ![i].spawned = TRUE]
  PROVE  /\ jobs' \in Seq(Job)
         /\ Len(jobs') = Len(jobs) /\ DOMAIN jobs' = DOMAIN jobs
         /\ jobs'[i].pid = x
         /\ \A j \in DOMAIN jobs : j # i => jobs'[j] = jobs[j]
  <1>1. jobs \in Seq(Job) /\ jobs[i] \in Job
    BY DEF JobsOK
  <1>2. PICK e : /\ jobs' = [jobs EXCEPT ![i] = e]
                 /\ \/ e = [jobs[i] EXCEPT !.pid = x]
                    \/ e = [jobs[i] EXCEPT !.pid = x, !.spawned = TRUE]
    <2>1. CASE jobs' = [jobs EXCEPT ![i].pid = x]
      BY <2>1
    <2>2. CASE jobs' = [jobs EXCEPT ![i].pid = x, ![i].spawned = TRUE]
      <3>1. jobs' = [jobs EXCEPT ![i] = [jobs[i] EXCEPT !.pid = x, !.spawned = TRUE]]
        BY <1>1, <2>2
      <3> QED
        BY <3>1
    <2> QED
      BY <2>1, <2>2
  <1>3. e \in Job /\ e.pid = x
    BY <1>1, <1>2 DEF Job
  <1>4. jobs' \in Seq(Job) /\ Len(jobs') = Len(jobs) /\ DOMAIN jobs' = DOMAIN jobs
    <2>1. jobs \in [1 .. Len(jobs) -> Job] /\ Len(jobs) \in Nat /\ DOMAIN jobs = 1 .. Len(jobs)
      BY <1>1
    <2>2. jobs' \in [1 .. Len(jobs) -> Job]
      BY <1>2, <1>3, <2>1
    <2> QED
      BY <2>1, <2>2
  <1>5. jobs'[i] = e /\ \A j \in DOMAIN jobs : j # i => jobs'[j] = jobs[j]
    BY <1>2
  <1> QED
    BY <1>3, <1>4, <1>5

LEMMA Goes ==
  ASSUME ThreadsOK, NEW t \in Thread, NEW p \in PC, Go(t, p)
  PROVE  /\ pc' \in [Thread -> PC]
         /\ pc'[t] = p
         /\ \A u \in Thread : u # t => pc'[u] = pc[u]
  BY DEF ThreadsOK, Go

\* Only main works on the table at boot, and nothing has been forked.
LEMMA InitLaunchd == Init => LaunchdInv
  <1> SUFFICES ASSUME Init PROVE LaunchdInv
    OBVIOUS
  <1>1. /\ jobs \in Seq(Job) /\ Len(jobs) = Len(Boot)
        /\ \A i \in DOMAIN jobs : jobs[i].pid = 0
    <2>1. Boot \in [1 .. Len(Boot) -> Configs] /\ Len(Boot) \in Nat /\ DOMAIN Boot = 1 .. Len(Boot)
      OBVIOUS
    <2>2. \A c \in Configs : Entry(c) \in Job /\ Entry(c).pid = 0
      BY DEF Entry, Job
    <2>3. jobs = [i \in 1 .. Len(Boot) |-> Entry(Boot[i])]
      BY <2>1 DEF Init
    <2>4. jobs \in [1 .. Len(Boot) -> Job]
      BY <2>1, <2>2, <2>3
    <2> QED
      BY <2>1, <2>2, <2>3, <2>4
  <1>2. /\ lock = "main" /\ pc \in [Thread -> PC] /\ pc["main"] = "boot" /\ pc["control"] = "receive"
        /\ slot \in [Thread -> Slots \cup {0}] /\ slot["main"] = 0
        /\ got \in [Thread -> Pids \cup {0}]
        /\ command = NoCommand
    BY DEF Init, Thread, PC
  <1>3. /\ proc \in [Pids -> {"none", "alive", "zombie", "reaped"}]
        /\ owner \in [Pids -> Slots \cup {0}]
        /\ \A p \in Pids : proc[p] = "none" /\ owner[p] = 0
        /\ signalled = {} /\ escaped = {} /\ shutdown_requested = FALSE /\ alarm_fired = FALSE
        /\ itimer = "off" /\ handler = "default" /\ old_sa \in [Thread -> {"default"}]
    BY DEF Init
  <1>4. commands = 0 /\ exits = 0 /\ orphans = 0 /\ forkfails = 0
    BY DEF Init
  <1>5. JobsOK
    BY <1>1 DEF JobsOK
  <1>6. ThreadsOK
    BY <1>2 DEF ThreadsOK, Thread
  <1>7. WorldOK
    BY <1>3 DEF WorldOK
  <1>8. LockInv
    BY <1>2 DEF LockInv, InSpawn, ToFork, Napping
  <1>9. SlotInv
    BY <1>2 DEF SlotInv, Thread, InSpawn, ToFork, Napping
  <1>10. PidInv
    BY <1>1, <1>3 DEF PidInv
  <1>11. SupplyInv
    <2>1. Used = {} /\ Zombies = {}
      BY <1>3 DEF Used, Zombies
    <2>2. Cardinality(Used) = 0 /\ Cardinality(Zombies) = 0
      BY <2>1, FS_EmptySet
    <2>3. BootLeft = MAX_DAEMONS /\ Respawning = 0 /\ Requested = 0
      BY <1>2 DEF BootLeft, Respawning, Requested, ToFork, Napping
    <2>4. Cardinality(Used) + Cardinality(Zombies) + BootLeft + Respawning + Requested = MAX_DAEMONS
      BY <2>2, <2>3
    <2> QED
      BY <1>4, <2>4 DEF SupplyInv
  <1>12. MainInv
    BY <1>1, <1>2, <1>3 DEF MainInv
  <1>13. EntryInv
    <2>1. \A i \in DOMAIN jobs : Alive(i) = {}
      BY <1>3 DEF Alive
    <2>2. \A i \in DOMAIN jobs, t \in Thread : ~Spawns(t, i)
      BY <1>2 DEF Spawns, Thread, InSpawn, ToFork, Napping
    <2>3. \A i \in DOMAIN jobs : ~Spawns("main", i)
      BY <2>2 DEF Thread
    <2> QED
      BY <1>2, <2>1, <2>2, <2>3 DEF EntryInv, EntryOK
  <1> QED
    BY <1>5, <1>6, <1>7, <1>8, <1>9, <1>10, <1>11, <1>12, <1>13 DEF LaunchdInv

-----------------------------------------------------------------------------
(***************************************************************************)
(* One lemma per action.  First the steps of main that only move it on.    *)
(***************************************************************************)
Idle == {"check", "enter", "wait", "shutdown"} \cup AfterKills

\* Where main neither forks nor has a pid to look up, at both ends.
LEMMA MoveStep ==
  ASSUME LaunchdInv, WorldOK',
         UNCHANGED <<jobs, got, lock, command, procs, escaped, counts>>,
         NEW p \in Idle \ {"drained"}, pc["main"] \in Idle, Go("main", p),
         \/ p # "shutdown" /\ UNCHANGED slot
         \/ p = "shutdown" /\ slot' = [slot EXCEPT !["main"] = 0],
         p \in AfterKills => pc["main"] \in AfterKills
  PROVE  LaunchdInv'
  <1> USE DEF Idle, AfterKills, Draining, InSpawn, ToFork, Napping
  <1>1. pc' \in [Thread -> PC] /\ pc'["main"] = p /\ pc'["control"] = pc["control"]
    BY Goes DEF LaunchdInv, Thread, PC, InSpawn, ToFork, Napping
  <1>2. /\ slot' \in [Thread -> Slots \cup {0}] /\ slot'["control"] = slot["control"]
        /\ p = "shutdown" => slot'["main"] = 0
    BY DEF LaunchdInv, ThreadsOK, Thread
  <1>3. JobsOK' /\ PidInv'
    BY Frame DEF procs
  <1>4. ThreadsOK'
    BY <1>1, <1>2 DEF LaunchdInv, ThreadsOK
  <1>5. LockInv'
    BY <1>1 DEF LaunchdInv, LockInv
  <1>6. SlotInv'
    BY <1>1, <1>2 DEF LaunchdInv, SlotInv, procs, Thread
  <1>7. SupplyInv'
    <2>1. BootLeft' = BootLeft /\ Requested' = Requested /\ Respawning' = Respawning
      BY <1>1 DEF LaunchdInv, LockInv, BootLeft, Requested, Respawning
    <2>2. BootLeft' <= BootLeft /\ Requested' <= Requested /\ Respawning' <= Respawning
      BY <2>1, DemandIsNat DEF LaunchdInv
    <2> QED
      BY <1>4, <2>2, SupplyKept DEF procs, counts
  <1>8. MainInv'
    BY <1>1 DEF LaunchdInv, MainInv, LockInv, procs
  <1>9. EntryInv'
    <2>1. \A i \in DOMAIN jobs : i \in Nat /\ ~(i <= 0)
      BY DEF LaunchdInv, JobsOK
    <2>2. \A i \in DOMAIN jobs : PassedBy(i)' => PassedBy(i)
      BY <1>1, <1>2, <2>1 DEF PassedBy
    <2>3. \A i \in DOMAIN jobs : \A t \in Thread : Spawns(t, i)' => Spawns(t, i)
      BY <1>1, <1>2 DEF Spawns, Thread
    <2>4. \A t \in Thread : \A q \in Pids : Stores(t, q) => Stores(t, q)' /\ UNCHANGED slot[t]
      BY <1>1, <1>2 DEF Stores, Thread
    <2>5. \A i \in DOMAIN jobs : Unaffected(i)
      BY <1>1, <2>2, <2>3, <2>4 DEF Unaffected, Alive, procs
    <2> QED
      BY <1>1, <2>5, EntriesKept
  <1> QED
    BY <1>3, <1>4, <1>5, <1>6, <1>7, <1>8, <1>9 DEF LaunchdInv

LEMMA MovingStep ==
  ASSUME LaunchdInv,
         \/ CheckShutdown \/ EnterWait4 \/ WaitNoChild
         \/ CatchAlarm \/ ResetAlarm \/ SetAlarm \/ DrainTest \/ DrainNoChild
  PROVE  LaunchdInv'
  <1>1. WorldOK'
    <2>1. CASE UNCHANGED <<signals, procs, escaped>>
      BY <2>1, Frame
    <2>2. CASE CatchAlarm \/ ResetAlarm \/ SetAlarm
      BY <2>2 DEF LaunchdInv, WorldOK, CatchAlarm, ResetAlarm, SetAlarm, procs
    <2> QED
      BY <2>1, <2>2 DEF CheckShutdown, EnterWait4, WaitNoChild, DrainTest, DrainNoChild
  <1>2. PICK p \in Idle \ {"drained"} :
          /\ pc["main"] \in Idle /\ Go("main", p)
          /\ \/ p # "shutdown" /\ UNCHANGED slot
             \/ p = "shutdown" /\ slot' = [slot EXCEPT !["main"] = 0]
          /\ p \in AfterKills => pc["main"] \in AfterKills
    BY DEF CheckShutdown, EnterWait4, WaitNoChild, CatchAlarm, ResetAlarm, SetAlarm,
           DrainTest, DrainNoChild, Idle, AfterKills, Draining
  <1>3. UNCHANGED <<jobs, got, lock, command, procs, escaped, counts>>
    BY DEF CheckShutdown, EnterWait4, WaitNoChild, CatchAlarm, ResetAlarm, SetAlarm,
           DrainTest, DrainNoChild
  <1> QED
    BY <1>1, <1>2, <1>3, MoveStep

\* boot: the next RunAtLoad entry is beyond those already started.
LEMMA BootNextStep ==
  ASSUME LaunchdInv, BootNext
  PROVE  LaunchdInv'
  <1> DEFINE S == {j \in DOMAIN jobs : j > slot["main"] /\ jobs[j].cfg.run_at_load}
  <1>1. /\ UNCHANGED <<jobs, got, command, signals, procs, escaped, counts>>
        /\ pc["main"] = "boot" /\ lock = "main"
    BY DEF BootNext, LaunchdInv, LockInv
  <1>2. PICK i : i = First(S)
    OBVIOUS
  <1>3. i = 0 \/ (i \in DOMAIN jobs /\ i > slot["main"])
    <2>1. S \subseteq Nat
      BY DEF LaunchdInv, JobsOK
    <2> QED
      BY <1>2, <2>1, FirstIsIn
  <1>4. /\ i # 0 => Go("main", "spawn") /\ slot' = [slot EXCEPT !["main"] = i] /\ UNCHANGED lock
        /\ i = 0 => Go("main", "check") /\ lock' = "none" /\ UNCHANGED slot
    BY <1>2 DEF BootNext
  <1>5. /\ pc' \in [Thread -> PC] /\ pc'["control"] = pc["control"]
        /\ pc'["main"] = IF i = 0 THEN "check" ELSE "spawn"
    BY <1>4, Goes DEF LaunchdInv, Thread, PC, InSpawn, ToFork, Napping
  <1>6. slot["main"] \in 0 .. MAX_DAEMONS /\ DOMAIN jobs \subseteq 1 .. MAX_DAEMONS /\ MAX_DAEMONS \in Nat
    <2>1. DOMAIN jobs = 1 .. Len(jobs) /\ Len(jobs) \in Nat /\ Len(jobs) <= MAX_DAEMONS
      BY DEF LaunchdInv, JobsOK
    <2> QED
      BY <2>1 DEF LaunchdInv, ThreadsOK, Slots, Thread
  <1>7. /\ slot' \in [Thread -> Slots \cup {0}] /\ slot'["control"] = slot["control"]
        /\ slot'["main"] = IF i = 0 THEN slot["main"] ELSE i
    BY <1>3, <1>4, <1>6 DEF LaunchdInv, ThreadsOK, Slots, Thread
  <1>8. JobsOK' /\ WorldOK' /\ PidInv'
    BY <1>1, Frame DEF procs
  <1>9. ThreadsOK'
    BY <1>1, <1>4, <1>5, <1>7 DEF LaunchdInv, ThreadsOK
  <1>10. LockInv'
    BY <1>1, <1>4, <1>5 DEF LaunchdInv, LockInv, InSpawn, ToFork, Napping
  <1>11. SlotInv'
    BY <1>1, <1>3, <1>5, <1>7 DEF LaunchdInv, SlotInv, procs, Thread, InSpawn, ToFork, Napping
  <1>12. SupplyInv'
    <2>1. Requested' = Requested /\ Respawning' = 0 /\ Respawning = 0
      BY <1>1, <1>4, <1>5 DEF Requested, Respawning, ToFork, Napping
    <2>2. BootLeft = MAX_DAEMONS - slot["main"]
      BY <1>1, <1>6 DEF BootLeft, ToFork, Napping
    <2>3. CASE i = 0
      <3>1. BootLeft' = 0
        BY <1>4, <2>3 DEF BootLeft, ToFork, Napping
      <3>2. BootLeft' <= BootLeft
        BY <1>6, <2>2, <3>1
      <3> QED
        BY <1>1, <1>9, <2>1, <3>2, SupplyKept, DemandIsNat DEF procs, counts, LaunchdInv
    <2>4. CASE i # 0
      <3>1. BootLeft' = MAX_DAEMONS - i + 1
        BY <1>1, <1>4, <1>5, <1>7, <2>4 DEF BootLeft, ToFork, Napping
      <3>2. i \in 1 .. MAX_DAEMONS /\ i > slot["main"]
        BY <1>3, <1>6, <2>4
      <3>3. BootLeft' <= BootLeft
        BY <1>6, <2>2, <3>1, <3>2
      <3> QED
        BY <1>1, <1>9, <2>1, <3>3, SupplyKept, DemandIsNat DEF procs, counts, LaunchdInv
    <2> QED
      BY <2>3, <2>4
  <1>13. MainInv'
    <2>1. i # 0 => \A j \in DOMAIN jobs : j > i => j > slot["main"]
      BY <1>3, <1>6
    <2> QED
      BY <1>1, <1>4, <1>5, <1>7, <2>1 DEF LaunchdInv, MainInv
  <1>14. EntryInv'
    <2> SUFFICES ASSUME NEW j \in DOMAIN jobs, j \notin escaped PROVE EntryOK(j)'
      BY <1>1 DEF EntryInv
    <2>1. EntryOK(j)
      BY <1>1 DEF LaunchdInv, EntryInv
    <2>2. ~PassedBy(j)'
      BY <1>5 DEF PassedBy, AfterKills, Draining
    <2>3. /\ \A t \in Thread : \A p : Stores(t, p)' <=> Stores(t, p)
          /\ \A t \in Thread : \A p : Stores(t, p) => slot'[t] = slot[t]
      BY <1>1, <1>5, <1>7 DEF Stores, Thread
    <2>4. /\ ~Spawns("control", j) /\ ~Spawns("control", j)'
          /\ Spawns("main", j)' => j = i
      BY <1>1, <1>5, <1>7 DEF LaunchdInv, LockInv, Spawns, InSpawn, ToFork, Napping
    <2>5. j = i => jobs[j].pid = 0
      BY <1>1, <1>3 DEF LaunchdInv, MainInv, JobsOK
    <2> QED
      BY <1>1, <1>5, <2>1, <2>2, <2>3, <2>4, <2>5 DEF EntryOK, Alive, procs, Thread
  <1> QED
    BY <1>8, <1>9, <1>10, <1>11, <1>12, <1>13, <1>14 DEF LaunchdInv

\* wait4's pid is looked up: one more read of the table.
LEMMA FindExitedStep ==
  ASSUME LaunchdInv, FindExited
  PROVE  LaunchdInv'
  <1>1. PICK i : i = find_by_pid(got["main"])
    OBVIOUS
  <1>2. /\ UNCHANGED <<jobs, got, lock, command, signals, procs, escaped, counts>>
        /\ pc["main"] = "reaped" /\ lock # "main"
        /\ slot' = [slot EXCEPT !["main"] = i]
        /\ Go("main", IF i = 0 THEN "check" ELSE "found")
    BY <1>1 DEF FindExited, LaunchdInv, LockInv, InSpawn, ToFork, Napping
  <1>3. i = 0 \/ (i \in DOMAIN jobs /\ jobs[i].pid = got["main"])
    BY <1>1, FoundByPid DEF LaunchdInv
  <1>4. /\ pc' \in [Thread -> PC] /\ pc'["control"] = pc["control"]
        /\ pc'["main"] = IF i = 0 THEN "check" ELSE "found"
    BY <1>2, Goes DEF LaunchdInv, Thread, PC, InSpawn, ToFork, Napping
  <1>5. DOMAIN jobs \subseteq Slots
    BY DEF LaunchdInv, JobsOK, Slots
  <1>6. /\ slot' \in [Thread -> Slots \cup {0}] /\ slot'["control"] = slot["control"]
        /\ slot'["main"] = i
    BY <1>2, <1>3, <1>5 DEF LaunchdInv, ThreadsOK, Thread
  <1>7. JobsOK' /\ WorldOK' /\ PidInv'
    BY <1>2, Frame DEF procs
  <1>8. ThreadsOK'
    BY <1>2, <1>4, <1>6 DEF LaunchdInv, ThreadsOK
  <1>9. LockInv'
    BY <1>2, <1>4 DEF LaunchdInv, LockInv, InSpawn, ToFork, Napping
  <1>10. SlotInv'
    BY <1>2, <1>3, <1>4, <1>6 DEF LaunchdInv, SlotInv, procs, Thread, InSpawn, ToFork, Napping
  <1>11. SupplyInv'
    <2>1. BootLeft' = 0 /\ BootLeft = 0 /\ Requested' = Requested /\ Respawning = 1
          /\ Respawning' \in {0, 1}
      BY <1>2, <1>4 DEF BootLeft, Requested, Respawning, ToFork, Napping
    <2> QED
      BY <1>2, <1>8, <2>1, SupplyKept, DemandIsNat DEF procs, counts, LaunchdInv
  <1>12. MainInv'
    BY <1>2, <1>4 DEF LaunchdInv, MainInv, procs
  <1>13. EntryInv'
    <2> SUFFICES ASSUME NEW j \in DOMAIN jobs, j \notin escaped PROVE EntryOK(j)'
      BY <1>2 DEF EntryInv
    <2>1. EntryOK(j)
      BY <1>2 DEF LaunchdInv, EntryInv
    <2>2. ~PassedBy(j)'
      BY <1>4 DEF PassedBy, AfterKills, Draining
    <2>3. /\ \A t \in Thread : \A p : Stores(t, p)' <=> Stores(t, p)
          /\ \A t \in Thread : \A p : Stores(t, p) => slot'[t] = slot[t]
      BY <1>2, <1>4, <1>6 DEF Stores, Thread
    <2>4. \A t \in Thread : Spawns(t, j)' => Spawns(t, j)
      BY <1>2, <1>4, <1>6 DEF Spawns, InSpawn, ToFork, Napping, Thread
    <2>5. j = i => jobs[j].pid = got["main"]
      BY <1>3 DEF LaunchdInv, JobsOK
    <2> QED
      BY <1>2, <1>4, <1>6, <2>1, <2>2, <2>3, <2>4, <2>5 DEF EntryOK, Alive, procs, Thread
  <1> QED
    BY <1>7, <1>8, <1>9, <1>10, <1>11, <1>12, <1>13 DEF LaunchdInv

\* d->pid = 0: the table forgets a process that has been reaped.
LEMMA HandleExitStep ==
  ASSUME LaunchdInv, HandleExit
  PROVE  LaunchdInv'
  <1>1. PICK i : i = slot["main"]
    OBVIOUS
  <1>2. PICK p \in {"spawn", "check"} : Go("main", p)
    BY DEF HandleExit
  <1>3. /\ UNCHANGED <<slot, got, lock, command, signals, procs, escaped, counts>>
        /\ pc["main"] = "found" /\ lock # "main"
        /\ i \in DOMAIN jobs
        /\ jobs' = [jobs EXCEPT ![i].pid = 0]
    BY <1>1 DEF HandleExit, LaunchdInv, LockInv, SlotInv, Thread, InSpawn, ToFork, Napping
  <1>4. /\ jobs' \in Seq(Job)
        /\ Len(jobs') = Len(jobs) /\ DOMAIN jobs' = DOMAIN jobs
        /\ jobs'[i].pid = 0
        /\ \A j \in DOMAIN jobs : j # i => jobs'[j] = jobs[j]
    <2>1. /\ JobsOK /\ i \in DOMAIN jobs /\ 0 \in Pids \cup {0}
          /\ jobs' = [jobs EXCEPT ![i].pid = 0]
      BY <1>3 DEF LaunchdInv
    <2> QED
      BY ONLY <2>1, SetPid
  <1>5. /\ pc' \in [Thread -> PC] /\ pc'["control"] = pc["control"] /\ pc'["main"] = p
    BY <1>2, Goes DEF LaunchdInv, Thread, PC, InSpawn, ToFork, Napping
  <1>6. WorldOK'
    BY <1>3, Frame DEF procs
  <1>7. JobsOK'
    BY <1>3, <1>4 DEF LaunchdInv, JobsOK, procs
  <1>8. ThreadsOK'
    BY <1>3, <1>5 DEF LaunchdInv, ThreadsOK
  <1>9. LockInv'
    BY <1>3, <1>5 DEF LaunchdInv, LockInv, InSpawn, ToFork, Napping
  <1>10. SlotInv'
    BY <1>3, <1>4, <1>5 DEF LaunchdInv, SlotInv, procs, Thread, InSpawn, ToFork, Napping
  <1>11. PidInv'
    BY <1>3, <1>4 DEF LaunchdInv, PidInv, procs
  <1>12. SupplyInv'
    <2>1. BootLeft' = 0 /\ BootLeft = 0 /\ Requested' = Requested /\ Respawning = 1
          /\ Respawning' \in {0, 1}
      BY <1>3, <1>5 DEF BootLeft, Requested, Respawning, ToFork, Napping
    <2> QED
      BY <1>3, <1>8, <2>1, SupplyKept, DemandIsNat DEF procs, counts, LaunchdInv
  <1>13. MainInv'
    BY <1>2, <1>3, <1>5 DEF MainInv
  <1>14. EntryInv'
    <2> SUFFICES ASSUME NEW j \in DOMAIN jobs, j \notin escaped PROVE EntryOK(j)'
      BY <1>3, <1>4 DEF EntryInv
    <2>1. EntryOK(j)
      BY <1>3 DEF LaunchdInv, EntryInv
    <2>2. ~PassedBy(j)' /\ pc'["main"] # "found"
      BY <1>2, <1>5 DEF PassedBy, AfterKills, Draining
    <2>3. Alive(j)' = Alive(j)
      BY <1>3 DEF Alive, procs
    <2>4. \A t \in Thread : \A q : Stores(t, q) => Stores(t, q)' /\ slot'[t] = slot[t]
      BY <1>3, <1>5 DEF Stores, Thread
    <2>5. /\ \A t \in Thread : Spawns(t, j)' => Spawns(t, j) \/ (t = "main" /\ j = i)
          /\ Spawns("control", j)' => Spawns("control", j)
      BY <1>1, <1>3, <1>5 DEF Spawns, Thread
    <2>6. CASE j # i
      <3>1. Unaffected(j)
        BY <1>3, <1>4, <2>2, <2>3, <2>4, <2>5, <2>6 DEF Unaffected, procs
      <3> QED
        BY <2>1, <3>1, EntryKept
    <2>7. CASE j = i
      <3>1. /\ jobs[j].pid = got["main"] /\ got["main"] \in Pids /\ proc[got["main"]] = "reaped"
            /\ got["main"] # 0
        BY <1>1, <1>3, <2>1, <2>7 DEF EntryOK, LaunchdInv, MainInv, Pids
      <3>2. got["main"] \notin Alive(j)
        BY <3>1 DEF Alive
      <3>3. \A q \in Alive(j) : \E t \in Thread : Stores(t, q) /\ slot[t] = j
        BY <2>1, <3>1, <3>2 DEF EntryOK
      <3>4. ~Spawns("control", j)'
        BY <2>1, <2>5, <3>1 DEF EntryOK, Thread
      <3> QED
        BY <1>4, <2>2, <2>3, <2>4, <2>7, <3>3, <3>4 DEF EntryOK
    <2> QED
      BY <2>6, <2>7
  <1> QED
    BY <1>6, <1>7, <1>8, <1>9, <1>10, <1>11, <1>12, <1>13, <1>14 DEF LaunchdInv

-----------------------------------------------------------------------------
\* Whoever forks was counted among those who may still fork.
LEMMA ForkIsAwaited ==
  ASSUME LaunchdInv, NEW t \in Thread, pc[t] \in ToFork
  PROVE  /\ Cardinality(Used) < MAX_DAEMONS + MaxCommands + MaxExits + MaxUnusual
         /\ BootLeft + Respawning + Requested >= 1
  <1>1. BootLeft \in Nat /\ Respawning \in {0, 1} /\ Requested \in {0, 1}
    BY DemandIsNat DEF LaunchdInv
  <1>2. BootLeft >= 1 \/ Respawning = 1 \/ Requested = 1
    <2>1. slot["main"] \in Nat /\ slot["main"] <= MAX_DAEMONS
      BY DEF LaunchdInv, ThreadsOK, Slots, Thread
    <2>2. CASE t = "control"
      BY <2>2 DEF Requested
    <2>3. CASE t = "main" /\ lock # "main"
      BY <2>3 DEF Respawning
    <2>4. CASE t = "main" /\ lock = "main"
      <3>1. BootLeft = MAX_DAEMONS - slot["main"] + 1
        BY <2>4 DEF BootLeft
      <3> QED
        BY <2>1, <3>1
    <2> QED
      BY <2>2, <2>3, <2>4 DEF Thread
  <1>3. PICK d \in Nat : d = BootLeft + Respawning + Requested /\ d >= 1
    BY <1>1, <1>2
  <1>4. Cardinality(Used) \in Nat /\ Cardinality(Zombies) \in Nat
    BY UsedFinite
  <1>5. /\ commands \in Nat /\ commands <= MaxCommands /\ exits \in Nat /\ exits <= MaxExits
        /\ orphans \in Nat /\ orphans <= MaxUnusual
        /\ Cardinality(Used) + Cardinality(Zombies) + d <= MAX_DAEMONS + commands + exits + orphans
    <2>1. /\ commands \in 0 .. MaxCommands /\ exits \in 0 .. MaxExits
          /\ orphans \in Nat /\ forkfails \in Nat /\ orphans + forkfails <= MaxUnusual
          /\ Cardinality(Used) + Cardinality(Zombies) + BootLeft + Respawning + Requested
               <= MAX_DAEMONS + commands + exits + orphans
      BY DEF LaunchdInv, SupplyInv
    <2>2. PICK u, z, b, r, q : /\ u = Cardinality(Used) /\ z = Cardinality(Zombies)
                               /\ b = BootLeft /\ r = Respawning /\ q = Requested
      OBVIOUS
    <2>3. u \in Nat /\ z \in Nat /\ b \in Nat /\ r \in Nat /\ q \in Nat /\ d = b + r + q
      BY <1>1, <1>3, <1>4, <2>2
    <2>4. u + z + b + r + q <= MAX_DAEMONS + commands + exits + orphans
      BY <2>1, <2>2
    <2>5. commands \in Nat /\ exits \in Nat /\ orphans \in Nat
      BY <2>1
    <2>6. u + z + d <= MAX_DAEMONS + commands + exits + orphans
      BY <2>3, <2>4, <2>5
    <2> QED
      BY <2>1, <2>2, <2>5, <2>6
  <1>6. Cardinality(Used) < MAX_DAEMONS + MaxCommands + MaxExits + MaxUnusual
    <2>1. MAX_DAEMONS \in Nat /\ MaxCommands \in Nat /\ MaxExits \in Nat /\ MaxUnusual \in Nat
      OBVIOUS
    <2>2. Cardinality(Used) + d <= MAX_DAEMONS + commands + exits + orphans
      BY ONLY <1>3, <1>4, <1>5, <2>1
    <2>3. MAX_DAEMONS + commands + exits + orphans <= MAX_DAEMONS + MaxCommands + MaxExits + MaxUnusual
      BY ONLY <1>5, <2>1
    <2> QED
      BY ONLY <1>3, <1>4, <1>5, <2>1, <2>2, <2>3
  <1> QED
    BY <1>3, <1>6

\* The pid set is one larger, and one less is still to come.
LEMMA ForkSupply ==
  ASSUME LaunchdInv, NEW t \in Thread, Fork(t), ThreadsOK'
  PROVE  SupplyInv'
  <1>1. NewPid \in Pids /\ proc[NewPid] = "none" /\ BootLeft + Respawning + Requested >= 1
    BY ForkIsAwaited, NewPidIsFresh DEF Fork, ToFork
  <1>2. proc' = [proc EXCEPT ![NewPid] = "alive"]
    BY DEF Fork
  <1>3. Used' = Used \cup {NewPid} /\ NewPid \notin Used /\ Zombies' = Zombies
    BY <1>1, <1>2 DEF Used, Zombies, LaunchdInv, WorldOK
  <1>4. Cardinality(Used \cup {NewPid}) = Cardinality(Used) + 1
    <2>1. PICK x, S : x = NewPid /\ S = Used
      OBVIOUS
    <2>2. IsFiniteSet(S) /\ x \notin S
      BY <1>3, <2>1, UsedFinite
    <2>3. Cardinality(S \cup {x}) = Cardinality(S) + 1
      BY ONLY <2>2, FS_AddElement
    <2> QED
      BY <2>1, <2>3
  <1>5. Cardinality(Used') = Cardinality(Used) + 1 /\ Cardinality(Zombies') = Cardinality(Zombies)
    BY <1>3, <1>4
  <1>6. /\ BootLeft \in Nat /\ Respawning \in {0, 1} /\ Requested \in {0, 1}
    BY DemandIsNat DEF LaunchdInv
  <1>7. BootLeft' + Respawning' + Requested' = BootLeft + Respawning + Requested - 1
    <2>1. /\ pc[t] \in ToFork /\ pc'[t] = "store" /\ UNCHANGED <<lock, slot>>
          /\ \A u \in Thread : u # t => pc'[u] = pc[u]
      BY Goes DEF Fork, LaunchdInv, PC, InSpawn, ToFork
    <2>2. slot["main"] \in Nat
      BY DEF LaunchdInv, ThreadsOK, Slots, Thread
    <2>3. CASE t = "control"
      <3>1. BootLeft' = BootLeft /\ Respawning' = Respawning /\ Requested = 1 /\ Requested' = 0
        BY <2>1, <2>3 DEF BootLeft, Respawning, Requested, Thread, ToFork, Napping
      <3> QED
        BY <1>6, <3>1
    <2>4. CASE t = "main" /\ lock # "main"
      <3>1. BootLeft' = 0 /\ BootLeft = 0 /\ Respawning' = 0 /\ Respawning = 1
            /\ Requested = Requested'
        BY <2>1, <2>4 DEF BootLeft, Respawning, Requested, Thread, ToFork, Napping
      <3> QED
        BY <1>6, <3>1
    <2>5. CASE t = "main" /\ lock = "main"
      <3>1. BootLeft = MAX_DAEMONS - slot["main"] + 1 /\ BootLeft' = MAX_DAEMONS - slot["main"] + 0
            /\ Respawning' = 0 /\ Respawning = 0 /\ Requested = Requested'
        BY <2>1, <2>5 DEF BootLeft, Respawning, Requested, Thread, ToFork, Napping
      <3>2. PICK q : q = Requested
        OBVIOUS
      <3>3. q \in Nat
        BY <1>6, <3>2
      <3>4. PICK n \in Int : n = MAX_DAEMONS - slot["main"]
        BY <2>2
      <3>5. (n + 0) + 0 + q = (n + 1) + 0 + q - 1
        BY ONLY <3>3, n \in Int
      <3> QED
        BY <3>1, <3>2, <3>4, <3>5
    <2> QED
      BY <2>3, <2>4, <2>5 DEF Thread
  <1>8. UNCHANGED <<commands, exits, orphans, forkfails>>
    BY DEF Fork, counts
  <1>9. BootLeft' \in Nat /\ Respawning' \in Nat /\ Requested' \in Nat
    <2>1. slot'["main"] \in Nat /\ slot'["main"] <= MAX_DAEMONS
      BY DEF ThreadsOK, Slots, Thread
    <2> QED
      BY <2>1 DEF BootLeft, Respawning, Requested
  <1>10. SupplyInv /\ Cardinality(Used) \in Nat /\ Cardinality(Zombies) \in Nat
    BY UsedFinite DEF LaunchdInv
  <1>11. PICK u, z, b, r, q, b1, r1, q1 :
           /\ u = Cardinality(Used) /\ z = Cardinality(Zombies)
           /\ b = BootLeft /\ r = Respawning /\ q = Requested
           /\ b1 = BootLeft' /\ r1 = Respawning' /\ q1 = Requested'
    OBVIOUS
  <1>12. u + z + b + r + q <= MAX_DAEMONS + commands + exits + orphans
    BY <1>10, <1>11 DEF SupplyInv
  <1>13. PICK n \in Nat : n = MAX_DAEMONS + commands + exits + orphans
    <2>1. commands \in Nat /\ exits \in Nat /\ orphans \in Nat
      BY <1>10 DEF SupplyInv
    <2> QED
      BY <2>1
  <1>14. u + 1 + z + b1 + r1 + q1 <= MAX_DAEMONS + commands + exits + orphans
    <2>1. u \in Nat /\ z \in Nat
      BY <1>10, <1>11
    <2>2. b \in Nat /\ r \in Nat /\ q \in Nat
      BY <1>6, <1>11
    <2>3. b1 \in Nat /\ r1 \in Nat /\ q1 \in Nat
      BY <1>9, <1>11
    <2>4. b1 + r1 + q1 = b + r + q - 1
      BY <1>7, <1>11
    <2>5. u + z + b + r + q <= n
      BY <1>12, <1>13
    <2>6. u + 1 + z + b1 + r1 + q1 <= n
      BY ONLY <2>1, <2>2, <2>3, <2>4, <2>5, n \in Nat
    <2> QED
      BY <1>13, <2>6
  <1>15. Cardinality(Used') + Cardinality(Zombies') + BootLeft' + Respawning' + Requested'
           <= MAX_DAEMONS + commands + exits + orphans
    BY <1>5, <1>11, <1>14
  <1> QED
    BY <1>8, <1>10, <1>15 DEF SupplyInv

\* fork: a process for the entry, its pid not yet in the table.
LEMMA ForkStep ==
  ASSUME LaunchdInv, NEW t \in Thread, Fork(t)
  PROVE  LaunchdInv'
  <1>1. PICK n \in Pids : n = NewPid /\ proc[n] = "none"
    BY ForkIsAwaited, NewPidIsFresh DEF Fork, ToFork
  <1>2. /\ proc' = [proc EXCEPT ![n] = "alive"]
        /\ owner' = [owner EXCEPT ![n] = slot[t]]
        /\ got' = [got EXCEPT ![t] = n]
        /\ UNCHANGED <<jobs, slot, lock, command, signals, escaped, signalled, counts>>
        /\ pc[t] \in ToFork /\ slot[t] \in DOMAIN jobs
    BY <1>1 DEF Fork, LaunchdInv, SlotInv, InSpawn, ToFork
  <1>3. /\ pc' \in [Thread -> PC] /\ pc'[t] = "store"
        /\ \A u \in Thread : u # t => pc'[u] = pc[u]
    BY Goes DEF Fork, LaunchdInv, PC, InSpawn
  <1>4. /\ got' \in [Thread -> Pids \cup {0}] /\ got'[t] = n
        /\ \A u \in Thread : u # t => got'[u] = got[u]
    BY <1>2 DEF LaunchdInv, ThreadsOK
  <1>5. /\ proc' \in [Pids -> {"none", "alive", "zombie", "reaped"}]
        /\ proc'[n] = "alive" /\ \A p \in Pids : p # n => proc'[p] = proc[p]
    BY <1>2 DEF LaunchdInv, WorldOK
  <1>6. /\ owner' \in [Pids -> Slots \cup {0}]
        /\ owner'[n] = slot[t] /\ \A p \in Pids : p # n => owner'[p] = owner[p]
    <2>1. slot[t] \in Slots \cup {0}
      BY DEF LaunchdInv, ThreadsOK
    <2> QED
      BY <1>2, <2>1 DEF LaunchdInv, WorldOK
  <1>7. \A i \in DOMAIN jobs : jobs[i].pid \in Pids \cup {0} /\ jobs[i].pid # n
    <2>1. 0 \notin Pids
      BY DEF Pids
    <2>2. \A i \in DOMAIN jobs : jobs[i] \in Job
      BY DEF LaunchdInv, JobsOK
    <2>3. \A i \in DOMAIN jobs : jobs[i].pid \in Pids \cup {0}
      BY <2>2 DEF Job
    <2> QED
      BY <1>1, <2>1, <2>3 DEF LaunchdInv, PidInv
  <1>8. JobsOK'
    BY <1>2, <1>6, <1>7 DEF LaunchdInv, JobsOK
  <1>9. ThreadsOK'
    BY <1>2, <1>3, <1>4 DEF LaunchdInv, ThreadsOK
  <1>10. WorldOK'
    BY <1>2, <1>5, <1>6 DEF LaunchdInv, WorldOK, signals, alarms
  <1>11. LockInv'
    BY <1>2, <1>3 DEF LaunchdInv, LockInv, Thread, InSpawn, ToFork, Napping
  <1>12. SlotInv'
    BY <1>1, <1>2, <1>3, <1>4, <1>5, <1>6 DEF LaunchdInv, SlotInv, InSpawn, ToFork, Napping
  <1>13. PidInv'
    BY <1>1, <1>2, <1>5, <1>6, <1>7 DEF LaunchdInv, PidInv
  <1>14. SupplyInv'
    BY <1>9, ForkSupply
  <1>15. MainInv'
    <2>1. pc'["main"] \in {"reaped", "found", "drained"} =>
            pc'["main"] = pc["main"] /\ got'["main"] = got["main"]
      BY <1>3, <1>4 DEF Thread
    <2>2. pc'["main"] \in {"reaped", "found", "drained"} =>
            got'["main"] \in Pids /\ proc'[got'["main"]] = "reaped"
      BY <1>1, <1>5, <2>1 DEF LaunchdInv, MainInv
    <2> QED
      BY <1>2, <2>2 DEF LaunchdInv, MainInv
  <1>16. EntryInv'
    <2> SUFFICES ASSUME pc'["main"] # "killed", NEW j \in DOMAIN jobs, j \notin escaped
                 PROVE  EntryOK(j)'
      BY <1>2 DEF EntryInv
    <2>1. pc["main"] # "killed" /\ EntryOK(j)
      <3>1. pc["main"] # "killed"
        BY <1>2, <1>3 DEF ToFork, Napping, Thread
      <3> QED
        BY <3>1 DEF LaunchdInv, EntryInv
    <2>2. PassedBy(j)' <=> PassedBy(j)
      BY <1>2, <1>3 DEF PassedBy, AfterKills, Draining, ToFork, Napping, Thread
    <2>3. PassedBy(j) => t = "control"
      BY <1>2 DEF PassedBy, AfterKills, Draining, ToFork, Napping, Thread
    <2>4. \A u \in Thread : \A p : Stores(u, p) => Stores(u, p)'
      BY <1>2, <1>3, <1>4 DEF Stores, ToFork, Napping
    <2>5. \A u \in Thread : Spawns(u, j)' <=> Spawns(u, j)
      BY <1>2, <1>3 DEF Spawns, InSpawn
    <2>6. Spawns("main", j)' <=> Spawns("main", j)
      BY <2>5 DEF Thread
    <2>7. Spawns("control", j)' <=> Spawns("control", j)
      BY <2>5 DEF Thread
    <2>8. pc'["main"] = "found" => pc["main"] = "found" /\ got'["main"] = got["main"]
      BY <1>3, <1>4 DEF Thread
    <2>9. Stores(t, n)'
      BY <1>3, <1>4 DEF Stores
    <2>10. CASE slot[t] # j
      <3>1. Alive(j)' = Alive(j)
        BY <1>5, <1>6, <2>10, <1>1 DEF Alive
      <3> QED
        BY <1>2, <2>1, <2>2, <2>4, <2>5, <2>6, <2>7, <2>8, <3>1 DEF EntryOK, Thread
    <2>11. CASE slot[t] = j
      <3>1. \A p \in Alive(j)' : p \in Alive(j) \/ p = n
        BY <1>5 , <1>6 DEF Alive
      <3>2. Stores(t, n)' /\ slot'[t] = j
        BY <1>2, <2>9, <2>11
      <3>3. PassedBy(j) => Stores("control", n)'
        BY <2>3, <2>9
      <3> QED
        BY <1>2, <2>1, <2>2, <2>4, <2>5, <2>6, <2>7, <2>8, <3>1, <3>2, <3>3 DEF EntryOK, Thread
    <2> QED
      BY <2>10, <2>11
  <1> QED
    BY <1>8, <1>9, <1>10, <1>11, <1>12, <1>13, <1>14, <1>15, <1>16 DEF LaunchdInv

\* Where a thread is after spawn_daemon, and what it still holds.
LEMMA Returns ==
  ASSUME LaunchdInv, NEW t \in Thread, pc[t] \in InSpawn, Return(t)
  PROVE  /\ pc' \in [Thread -> PC]
         /\ \A u \in Thread : u # t => pc'[u] = pc[u]
         /\ t = "main" => /\ pc'[t] = IF lock = "main" THEN "boot" ELSE "check"
                          /\ UNCHANGED <<lock, command>>
         /\ t = "control" => /\ pc'[t] = "receive"
                             /\ lock = "control" /\ lock' = "none" /\ command' = NoCommand
  <1>1. CASE t = "main"
    <2>1. /\ Go(t, IF lock = "main" THEN "boot" ELSE "check")
          /\ UNCHANGED <<lock, command>>
      BY <1>1 DEF Return
    <2> QED
      BY <1>1, <2>1, Goes DEF LaunchdInv, PC
  <1>2. CASE t = "control"
    <2>1. Go(t, "receive") /\ lock' = "none" /\ command' = NoCommand /\ lock = "control"
      BY <1>2 DEF Return, LaunchdInv, LockInv, InSpawn, ToFork, Napping
    <2> QED
      BY <1>2, <2>1, Goes DEF LaunchdInv, PC
  <1> QED
    BY <1>1, <1>2 DEF Thread

\* So it is where the lock says it should be, and there is no more to fork.
LEMMA ReturnStep ==
  ASSUME LaunchdInv, NEW t \in Thread, pc[t] \in InSpawn, Return(t),
         UNCHANGED <<slot, got>>
  PROVE  /\ ThreadsOK' /\ LockInv'
         /\ BootLeft' <= BootLeft /\ Respawning' <= Respawning /\ Requested' <= Requested
         /\ \A u \in Thread : pc'[u] \in InSpawn \cup {"found"} => u # t /\ pc'[u] = pc[u]
  <1>1. /\ pc' \in [Thread -> PC]
        /\ \A u \in Thread : u # t => pc'[u] = pc[u]
        /\ t = "main" => /\ pc'[t] = IF lock = "main" THEN "boot" ELSE "check"
                         /\ UNCHANGED <<lock, command>>
        /\ t = "control" => /\ pc'[t] = "receive"
                            /\ lock = "control" /\ lock' = "none" /\ command' = NoCommand
    BY Returns
  <1>2. t = "main" \/ t = "control"
    BY DEF Thread
  <1>3. ThreadsOK'
    BY <1>1, <1>2 DEF LaunchdInv, ThreadsOK, Thread
  <1>4. LockInv'
    BY <1>1, <1>2 DEF LaunchdInv, LockInv, Thread, InSpawn, ToFork, Napping
  <1>5. BootLeft' <= BootLeft
    <2>1. slot["main"] \in Nat
      BY DEF LaunchdInv, ThreadsOK, Slots, Thread
    <2>2. CASE t = "main" /\ lock = "main"
      <3>1. /\ BootLeft' = MAX_DAEMONS - slot["main"] + 0
            /\ BootLeft \in {MAX_DAEMONS - slot["main"] + 0, MAX_DAEMONS - slot["main"] + 1}
        BY <1>1, <2>2 DEF BootLeft, ToFork, Napping
      <3> QED
        BY <2>1, <3>1
    <2>3. CASE ~(t = "main" /\ lock = "main")
      <3>1. BootLeft' = BootLeft
        BY <1>1, <1>2, <2>3 DEF BootLeft, Thread
      <3> QED
        BY <3>1, DemandIsNat DEF LaunchdInv
    <2> QED
      BY <2>2, <2>3
  <1>6. Respawning' <= Respawning
    <2>1. t = "main" => Respawning' = 0
      BY <1>1 DEF Respawning, ToFork, Napping
    <2>2. t = "control" => Respawning' = Respawning
      BY <1>1 DEF Respawning, Thread
    <2> QED
      BY <1>2, <2>1, <2>2, DemandIsNat DEF LaunchdInv
  <1>7. Requested' <= Requested
    <2>1. t = "control" => Requested' = 0
      BY <1>1 DEF Requested, ToFork, Napping
    <2>2. t = "main" => Requested' = Requested
      BY <1>1 DEF Requested, Thread
    <2> QED
      BY <1>2, <2>1, <2>2, DemandIsNat DEF LaunchdInv
  <1> QED
    BY <1>1, <1>2, <1>3, <1>4, <1>5, <1>6, <1>7 DEF InSpawn, ToFork, Napping

\* A failed fork leaves the table as it was.
LEMMA ForkFailsStep ==
  ASSUME LaunchdInv, NEW t \in Thread, ForkFails(t)
  PROVE  LaunchdInv'
  <1>1. /\ UNCHANGED <<jobs, slot, got, signals, procs, escaped, commands, exits, orphans>>
        /\ forkfails' = forkfails + 1 /\ orphans + forkfails < MaxUnusual
        /\ pc[t] \in InSpawn /\ pc[t] # "store" /\ Return(t)
    BY DEF ForkFails, InSpawn, ToFork
  <1>2. /\ ThreadsOK' /\ LockInv'
        /\ BootLeft' <= BootLeft /\ Respawning' <= Respawning /\ Requested' <= Requested
        /\ \A u \in Thread : pc'[u] \in InSpawn \cup {"found"} => u # t /\ pc'[u] = pc[u]
    BY <1>1, ReturnStep
  <1>3. JobsOK' /\ WorldOK' /\ PidInv'
    BY <1>1, Frame DEF procs
  <1>4. SlotInv'
    BY <1>1, <1>2 DEF LaunchdInv, SlotInv, procs, InSpawn
  <1>5. SupplyInv'
    BY <1>1, <1>2, SupplyKept DEF procs
  <1>6. /\ \A u \in Thread : u # t => pc'[u] = pc[u]
        /\ pc'[t] \in {"boot", "check", "receive"}
        /\ lock' = "main" => lock = "main"
    BY <1>1, Returns DEF Thread
  <1>7. MainInv'
    BY <1>1, <1>6 DEF LaunchdInv, MainInv, procs, Thread
  <1>8. EntryInv'
    <2>1. pc["main"] = "killed" => pc'["main"] = "killed"
      BY <1>1, <1>6 DEF InSpawn, ToFork, Napping, Thread
    <2>2. \A i \in DOMAIN jobs : PassedBy(i)' => PassedBy(i)
      BY <1>1, <1>6 DEF PassedBy, AfterKills, Draining, Thread
    <2>3. \A i \in DOMAIN jobs : \A u \in Thread : Spawns(u, i)' => Spawns(u, i)
      BY <1>1, <1>6 DEF Spawns, InSpawn, ToFork, Napping
    <2>4. \A u \in Thread : \A q \in Pids : Stores(u, q) => Stores(u, q)' /\ UNCHANGED slot[u]
      BY <1>1, <1>6 DEF Stores
    <2>5. \A i \in DOMAIN jobs : Unaffected(i)
      BY <1>1, <1>6, <2>2, <2>3, <2>4 DEF Unaffected, Alive, procs, Thread
    <2> QED
      BY <1>1, <2>1, <2>5, EntriesKept
  <1> QED
    BY <1>2, <1>3, <1>4, <1>5, <1>7, <1>8 DEF LaunchdInv

\* d->pid = pid: the pid is that of a process forked for this entry.
LEMMA StoreStep ==
  ASSUME LaunchdInv, NEW t \in Thread, Store(t)
  PROVE  LaunchdInv'
  <1>1. PICK i, x : i = slot[t] /\ x = got[t]
    OBVIOUS
  <1>2. /\ UNCHANGED <<slot, got, signals, procs, counts>>
        /\ escaped' = escaped \cup Missed(t)
        /\ pc[t] = "store" /\ pc[t] \in InSpawn /\ Return(t)
        /\ i \in DOMAIN jobs /\ x \in Pids /\ proc[x] # "none" /\ owner[x] = i
        /\ jobs' = [jobs EXCEPT ![i].pid = x, ![i].spawned = TRUE]
    BY <1>1 DEF Store, LaunchdInv, SlotInv, InSpawn
  <1>3. /\ jobs' \in Seq(Job)
        /\ Len(jobs') = Len(jobs) /\ DOMAIN jobs' = DOMAIN jobs
        /\ jobs'[i].pid = x
        /\ \A j \in DOMAIN jobs : j # i => jobs'[j] = jobs[j]
    <2>1. /\ JobsOK /\ i \in DOMAIN jobs /\ x \in Pids \cup {0}
          /\ jobs' = [jobs EXCEPT ![i].pid = x, ![i].spawned = TRUE]
      BY <1>2 DEF LaunchdInv
    <2> QED
      BY ONLY <2>1, SetPid
  <1>4. /\ ThreadsOK' /\ LockInv'
        /\ BootLeft' <= BootLeft /\ Respawning' <= Respawning /\ Requested' <= Requested
        /\ \A u \in Thread : pc'[u] \in InSpawn \cup {"found"} => u # t /\ pc'[u] = pc[u]
    BY <1>2, ReturnStep
  <1>5. JobsOK'
    BY <1>2, <1>3 DEF LaunchdInv, JobsOK, procs
  <1>6. WorldOK'
    <2>1. slot[t] \in Slots
      BY <1>1, <1>2 DEF LaunchdInv, JobsOK, Slots
    <2>2. escaped' \subseteq Slots
      BY <1>2, <2>1 DEF LaunchdInv, WorldOK, Missed
    <2> QED
      BY <1>2, <2>2 DEF LaunchdInv, WorldOK, procs, signals, alarms
  <1>7. SlotInv'
    BY <1>2, <1>3, <1>4 DEF LaunchdInv, SlotInv, procs, InSpawn
  <1>8. PidInv'
    BY <1>2, <1>3 DEF LaunchdInv, PidInv, procs
  <1>9. SupplyInv'
    BY <1>2, <1>4, SupplyKept DEF procs, counts
  <1>10. /\ \A u \in Thread : u # t => pc'[u] = pc[u]
         /\ pc'[t] \in {"boot", "check", "receive"}
         /\ lock' = "main" => lock = "main" /\ t = "main"
    <2>1. /\ \A u \in Thread : u # t => pc'[u] = pc[u]
          /\ pc'[t] \in {"boot", "check", "receive"}
          /\ lock' = "main" => lock = "main"
      BY <1>2, Returns DEF Thread
    <2>2. t = "control" => lock = "control"
      BY <1>2 DEF LaunchdInv, LockInv
    <2> QED
      BY <2>1, <2>2 DEF Thread
  <1>11. MainInv'
    <2>1. lock' = "main" => \A j \in DOMAIN jobs' : j > slot'["main"] => jobs'[j].pid = 0
      <3> SUFFICES ASSUME lock' = "main", NEW j \in DOMAIN jobs, j > i PROVE jobs'[j].pid = 0
        BY <1>1, <1>2, <1>3, <1>10
      <3>1. j # i
        BY DEF LaunchdInv, JobsOK
      <3> QED
        BY <1>1, <1>3, <1>10, <3>1 DEF LaunchdInv, MainInv
    <2> QED
      BY <1>2, <1>10, <2>1 DEF LaunchdInv, MainInv, procs, Thread
  <1>12. EntryInv'
    <2> SUFFICES ASSUME pc'["main"] # "killed", NEW j \in DOMAIN jobs, j \notin escaped'
                 PROVE  EntryOK(j)'
      BY <1>3 DEF EntryInv
    <2>1. pc["main"] # "killed"
      BY <1>2, <1>10 DEF Thread
    <2>2. EntryOK(j)
      BY <1>2, <2>1 DEF LaunchdInv, EntryInv
    <2>3. /\ PassedBy(j)' => PassedBy(j)
          /\ pc'["main"] = "found" => pc["main"] = "found"
      BY <1>2, <1>10 DEF PassedBy, AfterKills, Draining, Thread
    <2>4. \A u \in Thread : \A p : u # t /\ Stores(u, p) => Stores(u, p)'
      BY <1>2, <1>10 DEF Stores
    <2>5. /\ \A u \in Thread : Spawns(u, j)' => u # t /\ Spawns(u, j)
      BY <1>2, <1>10 DEF Spawns, InSpawn, ToFork, Napping
    <2>6. Alive(j)' = Alive(j)
      BY <1>2 DEF Alive, procs
    <2>7. CASE j # i
      <3>1. jobs'[j].pid = jobs[j].pid
        BY <1>3, <2>7
      <3>2. \A p \in Alive(j)' : p = jobs'[j].pid \/ \E u \in Thread : Stores(u, p)' /\ slot'[u] = j
        BY <1>1, <1>2, <2>2, <2>4, <2>6, <2>7, <3>1 DEF EntryOK
      <3>3. x \notin Alive(j)
        BY <1>2, <2>7 DEF Alive
      <3>4. PassedBy(j)' => \A p \in Alive(j)' : p \in signalled' \/ Stores("control", p)'
        <4>1. \A p : Stores("control", p) => p = x \/ Stores("control", p)'
          BY <1>1, <2>4 DEF Stores, Thread
        <4> QED
          BY <1>2, <2>2, <2>3, <2>6, <3>3, <4>1 DEF EntryOK, procs
      <3> QED
        BY <1>2, <2>2, <2>3, <2>5, <3>1, <3>2, <3>4 DEF EntryOK, Thread
    <2>8. CASE j = i
      <3>1. jobs[j].pid = 0 /\ \A u \in Thread : u # t => ~Spawns(u, j)
        BY <1>1, <1>2, <2>2, <2>8 DEF EntryOK, Spawns, Thread
      <3>2. 0 \notin Alive(j)
        BY DEF Alive, Pids
      <3>3. \A u \in Thread : \A p : Stores(u, p) /\ slot[u] = j => Spawns(u, j)
        BY DEF Stores, Spawns, InSpawn
      <3>4. \A p \in Alive(j) : p = x
        BY <1>1, <2>2, <3>1, <3>2, <3>3 DEF EntryOK, Stores
      <3>5. ~PassedBy(j)'
        <4>1. t = "control" => ~PassedBy(j)
          BY <1>1, <1>2, <2>8 DEF Missed
        <4>2. t = "main" => ~PassedBy(j)
          BY <1>2 DEF PassedBy, AfterKills, Draining
        <4> QED
          BY <2>3, <4>1, <4>2 DEF Thread
      <3>6. ~(pc'["main"] = "found" /\ slot'["main"] = j)
        <4> SUFFICES ASSUME pc'["main"] = "found", slot'["main"] = j PROVE FALSE
          OBVIOUS
        <4>1. pc["main"] = "found" /\ slot["main"] = j
          BY <1>2, <2>3
        <4>2. jobs[j].pid = got["main"] /\ got["main"] \in Pids
          BY <2>2, <4>1 DEF EntryOK, LaunchdInv, MainInv
        <4> QED
          BY <3>1, <4>2 DEF Pids
      <3>7. \A u \in Thread : ~Spawns(u, j)'
        BY <2>5, <3>1
      <3> QED
        BY <1>3, <2>6, <2>8, <3>4, <3>5, <3>6, <3>7 DEF EntryOK, Thread
    <2> QED
      BY <2>7, <2>8
  <1> QED
    BY <1>4, <1>5, <1>6, <1>7, <1>8, <1>9, <1>11, <1>12 DEF LaunchdInv

\* The throttle's sleep moves a spawner on, and sets and clears the timer.
LEMMA NapStep ==
  ASSUME LaunchdInv, NEW t \in Thread, Nap(t)
  PROVE  LaunchdInv'
  <1>1. PICK p \in ToFork : Go(t, p)
    BY DEF Nap, Throttle, Arm, Suspend, Disarm, Restore, ToFork, Napping
  <1>2. /\ UNCHANGED <<jobs, slot, got, lock, command, procs, escaped, counts>>
        /\ pc[t] \in ToFork
    BY DEF Nap, Throttle, Arm, Suspend, Disarm, Restore, ToFork, Napping, signals, alarms
  <1>3. /\ pc' \in [Thread -> PC] /\ pc'[t] = p
        /\ \A u \in Thread : u # t => pc'[u] = pc[u]
    BY <1>1, Goes DEF LaunchdInv, PC, InSpawn
  <1>4. WorldOK'
    <2>1. handler \in {"default", "noop", "alarm"} /\ old_sa \in [Thread -> {"default", "noop", "alarm"}]
      BY DEF LaunchdInv, WorldOK
    <2>2. /\ itimer' \in {"off", "armed"} /\ UNCHANGED <<shutdown_requested, alarm_fired>>
          /\ handler' \in {"default", "noop", "alarm"}
          /\ old_sa' \in [Thread -> {"default", "noop", "alarm"}]
      BY <2>1 DEF LaunchdInv, WorldOK, Nap, Throttle, Arm, Suspend, Disarm, Restore, signals, alarms
    <2> QED
      BY <1>2, <2>2 DEF LaunchdInv, WorldOK, procs
  <1>5. JobsOK' /\ PidInv'
    BY <1>2, Frame DEF procs
  <1>6. ThreadsOK'
    BY <1>2, <1>3 DEF LaunchdInv, ThreadsOK
  <1>7. LockInv'
    BY <1>2, <1>3 DEF LaunchdInv, LockInv, Thread, InSpawn, ToFork, Napping
  <1>8. SlotInv'
    BY <1>2, <1>3 DEF LaunchdInv, SlotInv, procs, InSpawn, ToFork, Napping
  <1>9. SupplyInv'
    <2>1. BootLeft' = BootLeft /\ Requested' = Requested /\ Respawning' = Respawning
      BY <1>2, <1>3 DEF BootLeft, Requested, Respawning, Thread, ToFork, Napping
    <2>2. BootLeft' <= BootLeft /\ Requested' <= Requested /\ Respawning' <= Respawning
      BY <2>1, DemandIsNat DEF LaunchdInv
    <2> QED
      BY <1>2, <1>6, <2>2, SupplyKept DEF procs, counts
  <1>10. MainInv'
    BY <1>2, <1>3 DEF LaunchdInv, MainInv, procs, Thread, ToFork, Napping
  <1>11. EntryInv'
    <2>1. pc["main"] = "killed" => pc'["main"] = "killed"
      BY <1>2, <1>3 DEF ToFork, Napping, Thread
    <2>2. \A i \in DOMAIN jobs : PassedBy(i)' => PassedBy(i)
      BY <1>2, <1>3 DEF PassedBy, AfterKills, Draining, Thread, ToFork, Napping
    <2>3. \A i \in DOMAIN jobs : \A u \in Thread : Spawns(u, i)' => Spawns(u, i)
      BY <1>2, <1>3 DEF Spawns, InSpawn
    <2>4. \A u \in Thread : \A q \in Pids : Stores(u, q) => Stores(u, q)' /\ UNCHANGED slot[u]
      BY <1>2, <1>3 DEF Stores, ToFork, Napping
    <2>5. pc'["main"] = "found" => pc["main"] = "found"
      BY <1>3 DEF Thread, ToFork, Napping
    <2>6. \A i \in DOMAIN jobs : Unaffected(i)
      BY <1>2, <2>2, <2>3, <2>4, <2>5 DEF Unaffected, Alive, procs
    <2> QED
      BY <1>2, <2>1, <2>6, EntriesKept
  <1> QED
    BY <1>4, <1>5, <1>6, <1>7, <1>8, <1>9, <1>10, <1>11 DEF LaunchdInv

-----------------------------------------------------------------------------
\* wait4 returns: a zombie less, and a daemon that may be started again.
LEMMA ReapStep ==
  ASSUME LaunchdInv, WaitReturns \/ DrainReap
  PROVE  LaunchdInv'
  <1>1. PICK p \in Zombies, from \in {"wait", "drainwait"}, to \in {"reaped", "drained"} :
          /\ (from = "wait" /\ to = "reaped") \/ (from = "drainwait" /\ to = "drained")
          /\ pc["main"] = from /\ Go("main", to)
          /\ proc' = [proc EXCEPT ![p] = "reaped"]
          /\ got' = [got EXCEPT !["main"] = p]
          /\ UNCHANGED <<jobs, slot, lock, command, signals, escaped, owner, signalled, counts>>
    <2>1. CASE Reap("wait", "reaped")
      BY <2>1 DEF Reap
    <2>2. CASE Reap("drainwait", "drained")
      BY <2>2 DEF Reap
    <2> QED
      BY <2>1, <2>2 DEF WaitReturns, DrainReap
  <1>2. p \in Pids /\ proc[p] = "zombie"
    BY <1>1 DEF Zombies
  <1>3. /\ pc' \in [Thread -> PC] /\ pc'["control"] = pc["control"] /\ pc'["main"] = to
    BY <1>1, Goes DEF LaunchdInv, Thread, PC, AfterKills, Draining
  <1>4. /\ got' \in [Thread -> Pids \cup {0}] /\ got'["main"] = p /\ got'["control"] = got["control"]
    BY <1>1, <1>2 DEF LaunchdInv, ThreadsOK, Thread
  <1>5. /\ proc' \in [Pids -> {"none", "alive", "zombie", "reaped"}]
        /\ proc'[p] = "reaped" /\ \A q \in Pids : q # p => proc'[q] = proc[q]
    BY <1>1, <1>2 DEF LaunchdInv, WorldOK
  <1>6. JobsOK'
    BY <1>1, Frame
  <1>7. ThreadsOK'
    BY <1>1, <1>3, <1>4 DEF LaunchdInv, ThreadsOK
  <1>8. WorldOK'
    BY <1>1, <1>5 DEF LaunchdInv, WorldOK, signals, alarms
  <1>9. LockInv'
    BY <1>1, <1>3 DEF LaunchdInv, LockInv, InSpawn, ToFork, Napping
  <1>10. SlotInv'
    BY <1>1, <1>2, <1>3, <1>4, <1>5 DEF LaunchdInv, SlotInv, Thread, InSpawn, ToFork, Napping
  <1>11. PidInv'
    <2>1. \A q \in Pids : proc'[q] = "none" <=> proc[q] = "none"
      BY <1>2, <1>5
    <2>2. 0 \notin Pids /\ \A i \in DOMAIN jobs : jobs[i].pid \in Pids \cup {0}
      <3>1. \A i \in DOMAIN jobs : jobs[i] \in Job
        BY DEF LaunchdInv, JobsOK
      <3> QED
        BY <3>1 DEF Pids, Job
    <2> QED
      BY <1>1, <2>1, <2>2 DEF LaunchdInv, PidInv
  <1>12. SupplyInv'
    <2>1. Used' = Used /\ Zombies' = Zombies \ {p}
      BY <1>2, <1>5 DEF Used, Zombies
    <2>2. Cardinality(Zombies \ {p}) = Cardinality(Zombies) - 1
      <3>1. PICK S : S = Zombies
        OBVIOUS
      <3>2. IsFiniteSet(S) /\ p \in S
        BY <1>1, <3>1, UsedFinite
      <3>3. Cardinality(S \ {p}) = Cardinality(S) - 1
        BY ONLY <3>2, FS_RemoveElement
      <3> QED
        BY <3>1, <3>3
    <2>3. BootLeft' = 0 /\ BootLeft = 0 /\ Requested' = Requested /\ Respawning = 0
          /\ Respawning' \in {0, 1}
      BY <1>1, <1>3 DEF BootLeft, Requested, Respawning, LaunchdInv, LockInv, InSpawn, ToFork, Napping
    <2>4. PICK u, z, q, r1 : /\ u = Cardinality(Used) /\ z = Cardinality(Zombies)
                             /\ q = Requested /\ r1 = Respawning'
      OBVIOUS
    <2>5. u \in Nat /\ z \in Nat /\ q \in Nat /\ r1 \in {0, 1}
      BY <2>3, <2>4, UsedFinite, DemandIsNat DEF LaunchdInv
    <2>6. PICK n \in Nat : n = MAX_DAEMONS + commands + exits + orphans
      <3>1. commands \in Nat /\ exits \in Nat /\ orphans \in Nat
        BY DEF LaunchdInv, SupplyInv
      <3> QED
        BY <3>1
    <2>7. u + z + 0 + 0 + q <= n
      BY <2>3, <2>4, <2>6 DEF LaunchdInv, SupplyInv
    <2>8. u + (z - 1) + 0 + r1 + q <= n
      BY ONLY <2>5, <2>7, n \in Nat
    <2>9. Cardinality(Used') + Cardinality(Zombies') + BootLeft' + Respawning' + Requested'
            <= MAX_DAEMONS + commands + exits + orphans
      BY <2>1, <2>2, <2>3, <2>4, <2>6, <2>8
    <2> QED
      BY <1>1, <2>9 DEF LaunchdInv, SupplyInv, counts
  <1>13. MainInv'
    BY <1>1, <1>2, <1>3, <1>4, <1>5 DEF LaunchdInv, MainInv, LockInv, InSpawn, ToFork, Napping
  <1>14. EntryInv'
    <2>1. pc["main"] # "killed"
      BY <1>1
    <2>2. \A j \in DOMAIN jobs : PassedBy(j)' => PassedBy(j)
      BY <1>1, <1>3 DEF PassedBy, AfterKills, Draining
    <2>3. \A j \in DOMAIN jobs : \A t \in Thread : Spawns(t, j)' => Spawns(t, j)
      BY <1>1, <1>3 DEF Spawns, Thread, InSpawn, ToFork, Napping
    <2>4. \A t \in Thread : \A q \in Pids : Stores(t, q) => Stores(t, q)' /\ UNCHANGED slot[t]
      BY <1>1, <1>3, <1>4 DEF Stores, Thread
    <2>5. \A j \in DOMAIN jobs : Alive(j)' \subseteq Alive(j)
      BY <1>1, <1>2, <1>5 DEF Alive
    <2>6. \A j \in DOMAIN jobs : Unaffected(j)
      BY <1>1, <1>3, <2>2, <2>3, <2>4, <2>5 DEF Unaffected
    <2> QED
      BY <1>1, <2>1, <2>6, EntriesKept
  <1> QED
    BY <1>6, <1>7, <1>8, <1>9, <1>10, <1>11, <1>12, <1>13, <1>14 DEF LaunchdInv

-----------------------------------------------------------------------------
\* do_shutdown: the pid of one entry is signalled, or there are no more.
LEMMA SignalNextStep ==
  ASSUME LaunchdInv, SignalNext
  PROVE  LaunchdInv'
  <1>1. PICK i : i = slot["main"] + 1
    OBVIOUS
  <1>2. /\ UNCHANGED <<jobs, got, lock, command, signals, proc, owner, escaped, counts>>
        /\ pc["main"] = "shutdown"
        /\ i \in DOMAIN jobs => /\ signalled' = signalled \cup Target(i)
                               /\ slot' = [slot EXCEPT !["main"] = i] /\ UNCHANGED pc
        /\ i \notin DOMAIN jobs => Go("main", "catch") /\ UNCHANGED <<signalled, slot>>
    BY <1>1 DEF SignalNext, Kill
  <1>3. slot["main"] \in Nat /\ DOMAIN jobs = 1 .. Len(jobs) /\ Len(jobs) \in Nat /\ DOMAIN jobs \subseteq Slots
    BY DEF LaunchdInv, JobsOK, ThreadsOK, Slots, Thread
  <1>4. \A j \in DOMAIN jobs : jobs[j].pid \in Pids \cup {0}
    <2>1. \A j \in DOMAIN jobs : jobs[j] \in Job
      BY DEF LaunchdInv, JobsOK
    <2> QED
      BY <2>1 DEF Job
  <1>5. /\ pc' \in [Thread -> PC] /\ pc'["control"] = pc["control"]
        /\ pc'["main"] = IF i \in DOMAIN jobs THEN "shutdown" ELSE "catch"
    <2>1. CASE i \in DOMAIN jobs
      BY <1>2, <2>1 DEF LaunchdInv, ThreadsOK
    <2>2. CASE i \notin DOMAIN jobs
      BY <1>2, <2>2, Goes DEF LaunchdInv, Thread, PC, AfterKills
    <2> QED
      BY <2>1, <2>2
  <1>6. /\ slot' \in [Thread -> Slots \cup {0}] /\ slot'["control"] = slot["control"]
        /\ slot'["main"] = IF i \in DOMAIN jobs THEN i ELSE slot["main"]
    BY <1>2, <1>3 DEF LaunchdInv, ThreadsOK, Thread
  <1>7. signalled \subseteq signalled' /\ signalled' \subseteq Pids
    BY <1>2, <1>4 DEF LaunchdInv, WorldOK, Target
  <1>8. JobsOK' /\ PidInv'
    BY <1>2, Frame
  <1>9. ThreadsOK'
    BY <1>2, <1>5, <1>6 DEF LaunchdInv, ThreadsOK
  <1>10. WorldOK'
    BY <1>2, <1>7 DEF LaunchdInv, WorldOK, signals, alarms
  <1>11. LockInv'
    BY <1>2, <1>5 DEF LaunchdInv, LockInv, InSpawn, ToFork, Napping
  <1>12. SlotInv'
    BY <1>2, <1>5, <1>6 DEF LaunchdInv, SlotInv, Thread, InSpawn, ToFork, Napping
  <1>13. SupplyInv'
    <2>1. BootLeft' = 0 /\ BootLeft = 0 /\ Requested' = Requested /\ Respawning' = 0 /\ Respawning = 0
      BY <1>2, <1>5 DEF BootLeft, Requested, Respawning, LaunchdInv, LockInv, InSpawn, ToFork, Napping
    <2> QED
      BY <1>2, <1>9, <2>1, SupplyKept, DemandIsNat DEF counts, LaunchdInv
  <1>14. MainInv'
    BY <1>2, <1>5 DEF LaunchdInv, MainInv, LockInv, InSpawn, ToFork, Napping
  <1>15. EntryInv'
    <2> SUFFICES ASSUME NEW j \in DOMAIN jobs, j \notin escaped PROVE EntryOK(j)'
      BY <1>2 DEF EntryInv
    <2>1. EntryOK(j)
      BY <1>2 DEF LaunchdInv, EntryInv
    <2>2. Alive(j)' = Alive(j)
      BY <1>2 DEF Alive
    <2>3. \A t \in Thread : \A p : /\ Stores(t, p)' <=> Stores(t, p)
                                   /\ Stores(t, p) => t = "control" /\ slot'[t] = slot[t]
      BY <1>2, <1>5, <1>6 DEF Stores, Thread
    <2>4. \A t \in Thread : Spawns(t, j)' => Spawns(t, j)
      BY <1>2, <1>5, <1>6 DEF Spawns, Thread, InSpawn, ToFork, Napping
    <2>5. Spawns("main", j)' => Spawns("main", j)
      BY <2>4 DEF Thread
    <2>6. Spawns("control", j)' => Spawns("control", j)
      BY <2>4 DEF Thread
    <2>7. PassedBy(j)' => PassedBy(j) \/ (j = i /\ i \in DOMAIN jobs)
      <3>1. j \in Nat /\ (i \notin DOMAIN jobs => j <= slot["main"])
        BY <1>1, <1>3
      <3>2. j <= i => j = i \/ j <= slot["main"]
        BY <1>1, <1>3
      <3> QED
        BY <1>2, <1>5, <1>6, <3>1, <3>2 DEF PassedBy, AfterKills, Draining
    <2>8. j = i /\ i \in DOMAIN jobs => \A p \in Alive(j) : p \in signalled' \/ Stores("control", p)
      <3>1. 0 \notin Alive(j)
        BY DEF Alive, Pids
      <3>2. \A p \in Alive(j) : p = jobs[j].pid \/ \E t \in Thread : Stores(t, p)
        BY <2>1 DEF EntryOK
      <3>3. \A p \in Alive(j) : p = jobs[j].pid \/ Stores("control", p)
        BY <2>3, <3>2
      <3>4. j = i /\ i \in DOMAIN jobs => signalled' = signalled \cup ({jobs[j].pid} \ {0})
        BY <1>2 DEF Target
      <3> QED
        BY <3>1, <3>3, <3>4
    <2>9. \A p : Stores("control", p)' <=> Stores("control", p)
      BY <1>2, <1>5 DEF Stores
    <2>10. \A p \in Alive(j)' : p = jobs'[j].pid \/ \E t \in Thread : Stores(t, p)' /\ slot'[t] = j
      <3>1. \A p \in Alive(j) : p = jobs[j].pid \/ \E t \in Thread : Stores(t, p) /\ slot[t] = j
        BY <2>1 DEF EntryOK
      <3>2. \A t \in Thread : \A p : Stores(t, p) => Stores(t, p)' /\ slot'[t] = slot[t]
        BY <2>3
      <3> QED
        BY <1>2, <2>2, <3>1, <3>2
    <2>11. \A t \in Thread : Spawns(t, j)' => jobs'[j].pid = 0
      BY <1>2, <2>1, <2>4 DEF EntryOK
    <2>12. ~(Spawns("main", j)' /\ Spawns("control", j)')
      BY <2>1, <2>5, <2>6 DEF EntryOK
    <2>13. PassedBy(j)' => \A p \in Alive(j)' : p \in signalled' \/ Stores("control", p)'
      BY <1>7, <2>1, <2>2, <2>7, <2>8, <2>9 DEF EntryOK
    <2> QED
      BY <1>5, <2>10, <2>11, <2>12, <2>13 DEF EntryOK
  <1> QED
    BY <1>8, <1>9, <1>10, <1>11, <1>12, <1>13, <1>14, <1>15 DEF LaunchdInv

\* d->pid = 0 for the child the drain loop reaped.
LEMMA DrainExitedStep ==
  ASSUME LaunchdInv, DrainExited
  PROVE  LaunchdInv'
  <1>1. PICK i : i = find_by_pid(got["main"])
    OBVIOUS
  <1>2. /\ UNCHANGED <<slot, got, lock, command, signals, procs, escaped, counts>>
        /\ pc["main"] = "drained" /\ Go("main", "drain")
        /\ jobs' = IF i = 0 THEN jobs ELSE [jobs EXCEPT ![i].pid = 0]
    BY <1>1 DEF DrainExited
  <1>3. i # 0 => i \in DOMAIN jobs /\ jobs[i].pid = got["main"]
    BY <1>1, FoundByPid DEF LaunchdInv
  <1>4. /\ jobs' \in Seq(Job)
        /\ Len(jobs') = Len(jobs) /\ DOMAIN jobs' = DOMAIN jobs
        /\ i # 0 => jobs'[i].pid = 0
        /\ \A j \in DOMAIN jobs : j # i => jobs'[j] = jobs[j]
    <2>1. CASE i = 0
      BY <1>2, <2>1 DEF LaunchdInv, JobsOK
    <2>2. CASE i # 0
      <3>1. /\ JobsOK /\ i \in DOMAIN jobs /\ 0 \in Pids \cup {0}
            /\ jobs' = [jobs EXCEPT ![i].pid = 0]
        BY <1>2, <1>3, <2>2 DEF LaunchdInv
      <3> QED
        BY ONLY <3>1, SetPid
    <2> QED
      BY <2>1, <2>2
  <1>5. /\ pc' \in [Thread -> PC] /\ pc'["main"] = "drain" /\ pc'["control"] = pc["control"]
    BY <1>2, Goes DEF LaunchdInv, Thread, PC, AfterKills, Draining
  <1>6. \A j \in DOMAIN jobs' : jobs'[j].pid # 0 => j # i /\ jobs'[j] = jobs[j]
    <2>1. 0 \notin DOMAIN jobs
      BY DEF LaunchdInv, JobsOK
    <2> QED
      BY <1>4, <2>1
  <1>7. WorldOK'
    BY <1>2, Frame DEF procs
  <1>8. JobsOK'
    BY <1>2, <1>4, <1>6 DEF LaunchdInv, JobsOK, procs
  <1>9. ThreadsOK'
    BY <1>2, <1>5 DEF LaunchdInv, ThreadsOK
  <1>10. LockInv'
    BY <1>2, <1>5 DEF LaunchdInv, LockInv, InSpawn, ToFork, Napping
  <1>11. SlotInv'
    BY <1>2, <1>4, <1>5 DEF LaunchdInv, SlotInv, procs, Thread, InSpawn, ToFork, Napping
  <1>12. PidInv'
    BY <1>2, <1>4, <1>6 DEF LaunchdInv, PidInv, procs
  <1>13. SupplyInv'
    <2>1. BootLeft' = 0 /\ BootLeft = 0 /\ Requested' = Requested /\ Respawning' = 0 /\ Respawning = 0
      BY <1>2, <1>5 DEF BootLeft, Requested, Respawning, LaunchdInv, LockInv, InSpawn, ToFork, Napping
    <2> QED
      BY <1>2, <1>9, <2>1, SupplyKept, DemandIsNat DEF procs, counts, LaunchdInv
  <1>14. MainInv'
    BY <1>2, <1>5 DEF LaunchdInv, MainInv, LockInv, InSpawn, ToFork, Napping
  <1>15. EntryInv'
    <2> SUFFICES ASSUME NEW j \in DOMAIN jobs, j \notin escaped PROVE EntryOK(j)'
      BY <1>2, <1>4 DEF EntryInv
    <2>1. EntryOK(j)
      BY <1>2 DEF LaunchdInv, EntryInv
    <2>2. Alive(j)' = Alive(j)
      BY <1>2 DEF Alive, procs
    <2>3. \A t \in Thread : \A p : /\ Stores(t, p)' <=> Stores(t, p)
                                   /\ slot'[t] = slot[t]
      BY <1>2, <1>5 DEF Stores, Thread
    <2>4. \A t \in Thread : Spawns(t, j)' => Spawns(t, j)
      BY <1>2, <1>5 DEF Spawns, Thread, InSpawn, ToFork, Napping
    <2>5. Spawns("main", j)' => Spawns("main", j)
      BY <2>4 DEF Thread
    <2>6. Spawns("control", j)' => Spawns("control", j)
      BY <2>4 DEF Thread
    <2>7. PassedBy(j)
      BY <1>2 DEF PassedBy, AfterKills, Draining
    <2>8. jobs'[j].pid = jobs[j].pid \/ (jobs'[j].pid = 0 /\ jobs[j].pid \notin Alive(j))
      <3>1. proc[got["main"]] = "reaped"
        BY <1>2 DEF LaunchdInv, MainInv
      <3>2. j # 0
        BY DEF LaunchdInv, JobsOK
      <3> QED
        BY <1>3, <1>4, <3>1, <3>2 DEF Alive
    <2>9. \A p : Stores("control", p)' <=> Stores("control", p)
      BY <2>3 DEF Thread
    <2> QED
      BY <1>2, <1>5, <2>1, <2>2, <2>3, <2>4, <2>5, <2>6, <2>7, <2>8, <2>9 DEF EntryOK, procs
  <1> QED
    BY <1>7, <1>8, <1>9, <1>10, <1>11, <1>12, <1>13, <1>14, <1>15 DEF LaunchdInv

-----------------------------------------------------------------------------
\* A request comes in: something may now be forked for it.
LEMMA ReceiveStep ==
  ASSUME LaunchdInv, Receive
  PROVE  LaunchdInv'
  <1>1. /\ UNCHANGED <<jobs, slot, got, lock, signals, procs, escaped, exits, orphans, forkfails>>
        /\ commands' = commands + 1 /\ commands < MaxCommands /\ command' \in Commands
        /\ pc["control"] = "receive" /\ Go("control", "locking")
    BY DEF Receive
  <1>2. /\ pc' \in [Thread -> PC] /\ pc'["control"] = "locking" /\ pc'["main"] = pc["main"]
    BY <1>1, Goes DEF LaunchdInv, Thread, PC, InSpawn, ToFork, Napping
  <1>3. JobsOK' /\ WorldOK' /\ PidInv'
    BY <1>1, Frame DEF procs
  <1>4. ThreadsOK'
    BY <1>1, <1>2 DEF LaunchdInv, ThreadsOK
  <1>5. LockInv'
    BY <1>1, <1>2 DEF LaunchdInv, LockInv, InSpawn, ToFork, Napping
  <1>6. SlotInv'
    BY <1>1, <1>2 DEF LaunchdInv, SlotInv, procs, Thread, InSpawn, ToFork, Napping
  <1>7. commands \in Nat /\ exits \in Nat /\ orphans \in Nat /\ commands' \in 1 .. MaxCommands
    <2>1. commands \in 0 .. MaxCommands /\ exits \in Nat /\ orphans \in Nat
      BY DEF LaunchdInv, SupplyInv
    <2> QED
      BY <1>1, <2>1
  <1>8. SupplyInv'
    <2>1. BootLeft' = BootLeft /\ Respawning' = Respawning /\ Requested' = 1 /\ Requested = 0
      BY <1>1, <1>2 DEF BootLeft, Requested, Respawning, ToFork, Napping
    <2>2. Used' = Used /\ Zombies' = Zombies
      BY <1>1 DEF Used, Zombies, procs
    <2>3. PICK u, z, b, r : /\ u = Cardinality(Used) /\ z = Cardinality(Zombies)
                            /\ b = BootLeft /\ r = Respawning
      OBVIOUS
    <2>4. u \in Nat /\ z \in Nat /\ b \in Nat /\ r \in Nat
      BY <2>3, UsedFinite, DemandIsNat DEF LaunchdInv
    <2>5. u + z + b + r + 0 <= MAX_DAEMONS + commands + exits + orphans
      BY <2>1, <2>3 DEF LaunchdInv, SupplyInv
    <2>6. u + z + b + r + 1 <= MAX_DAEMONS + (commands + 1) + exits + orphans
      BY <1>7, <2>4, <2>5
    <2>7. Cardinality(Used') + Cardinality(Zombies') + BootLeft' + Respawning' + Requested'
            <= MAX_DAEMONS + commands' + exits' + orphans'
      BY <1>1, <2>1, <2>2, <2>3, <2>6
    <2> QED
      BY <1>1, <1>7, <2>7 DEF LaunchdInv, SupplyInv
  <1>9. MainInv'
    BY <1>1, <1>2 DEF LaunchdInv, MainInv, procs
  <1>10. EntryInv'
    <2>1. \A i \in DOMAIN jobs : PassedBy(i)' => PassedBy(i)
      BY <1>1, <1>2 DEF PassedBy
    <2>2. \A i \in DOMAIN jobs : \A t \in Thread : Spawns(t, i)' => Spawns(t, i)
      BY <1>1, <1>2 DEF Spawns, Thread, InSpawn, ToFork, Napping
    <2>3. \A t \in Thread : \A q \in Pids : Stores(t, q) => Stores(t, q)' /\ UNCHANGED slot[t]
      BY <1>1, <1>2 DEF Stores, Thread
    <2>4. \A i \in DOMAIN jobs : Unaffected(i)
      BY <1>1, <1>2, <2>1, <2>2, <2>3 DEF Unaffected, Alive, procs
    <2> QED
      BY <1>1, <1>2, <2>4, EntriesKept
  <1> QED
    BY <1>3, <1>4, <1>5, <1>6, <1>8, <1>9, <1>10 DEF LaunchdInv

LEMMA TakeLockStep ==
  ASSUME LaunchdInv, TakeLock
  PROVE  LaunchdInv'
  <1>1. /\ UNCHANGED <<jobs, slot, got, command, signals, procs, escaped, counts>>
        /\ lock = "none" /\ lock' = "control"
        /\ pc["control"] = "locking" /\ Go("control", "run")
    BY DEF TakeLock
  <1>2. /\ pc' \in [Thread -> PC] /\ pc'["control"] = "run" /\ pc'["main"] = pc["main"]
    BY <1>1, Goes DEF LaunchdInv, Thread, PC, InSpawn, ToFork, Napping
  <1>3. JobsOK' /\ WorldOK' /\ PidInv'
    BY <1>1, Frame DEF procs
  <1>4. ThreadsOK'
    BY <1>1, <1>2 DEF LaunchdInv, ThreadsOK, Thread
  <1>5. LockInv'
    BY <1>1, <1>2 DEF LaunchdInv, LockInv, InSpawn, ToFork, Napping
  <1>6. SlotInv'
    BY <1>1, <1>2 DEF LaunchdInv, SlotInv, procs, Thread, InSpawn, ToFork, Napping
  <1>7. SupplyInv'
    <2>1. BootLeft' = 0 /\ BootLeft = 0 /\ Respawning' = Respawning /\ Requested' = Requested
      BY <1>1, <1>2 DEF BootLeft, Requested, Respawning, ToFork, Napping
    <2> QED
      BY <1>1, <1>4, <2>1, SupplyKept, DemandIsNat DEF procs, counts, LaunchdInv
  <1>8. MainInv'
    BY <1>1, <1>2 DEF LaunchdInv, MainInv, procs
  <1>9. EntryInv'
    <2>1. \A i \in DOMAIN jobs : PassedBy(i)' => PassedBy(i)
      BY <1>1, <1>2 DEF PassedBy
    <2>2. \A i \in DOMAIN jobs : \A t \in Thread : Spawns(t, i)' => Spawns(t, i)
      BY <1>1, <1>2 DEF Spawns, Thread, InSpawn, ToFork, Napping
    <2>3. \A t \in Thread : \A q \in Pids : Stores(t, q) => Stores(t, q)' /\ UNCHANGED slot[t]
      BY <1>1, <1>2 DEF Stores, Thread
    <2>4. \A i \in DOMAIN jobs : Unaffected(i)
      BY <1>1, <1>2, <2>1, <2>2, <2>3 DEF Unaffected, Alive, procs
    <2> QED
      BY <1>1, <1>2, <2>4, EntriesKept
  <1> QED
    BY <1>3, <1>4, <1>5, <1>6, <1>7, <1>8, <1>9 DEF LaunchdInv

\* A command replies and unlocks, or goes on to spawn an entry of the table.
LEMMA ServedStep ==
  ASSUME LaunchdInv, pc["control"] = "run", NEW i,
         \/ (Reply /\ UNCHANGED slot)
         \/ /\ i \in DOMAIN jobs' /\ jobs'[i].pid = 0 /\ Spawning(i)
            /\ Spawns("main", i) => i \in escaped',
         Rest, DOMAIN jobs \subseteq DOMAIN jobs', JobsOK', PidInv',
         \A j \in DOMAIN jobs' : jobs'[j].pid = IF j \in DOMAIN jobs THEN jobs[j].pid ELSE 0,
         signalled \subseteq signalled', signalled' \subseteq Pids,
         escaped \subseteq escaped', escaped' \subseteq Slots
  PROVE  LaunchdInv'
  <1>1. UNCHANGED <<got, signals, proc, owner, counts>>
    BY DEF Rest
  <1>2. lock = "control"
    BY DEF LaunchdInv, LockInv, InSpawn, ToFork, Napping
  <1>3. i \in DOMAIN jobs' => i \in Slots
    BY DEF JobsOK, Slots
  <1>4. /\ pc' \in [Thread -> PC] /\ pc'["main"] = pc["main"]
        /\ slot' \in [Thread -> Slots \cup {0}] /\ slot'["main"] = slot["main"]
        /\ \/ pc'["control"] = "receive" /\ lock' = "none" /\ command' = NoCommand
           \/ /\ pc'["control"] = "spawn" /\ UNCHANGED <<lock, command>>
              /\ slot'["control"] = i /\ i \in DOMAIN jobs' /\ jobs'[i].pid = 0
              /\ Spawns("main", i) => i \in escaped'
    <2>1. CASE Reply /\ UNCHANGED slot
      <3>1. Go("control", "receive") /\ lock' = "none" /\ command' = NoCommand /\ slot' = slot
        BY <2>1 DEF Reply
      <3> QED
        BY <3>1, Goes DEF LaunchdInv, ThreadsOK, Thread, PC
    <2>2. CASE /\ i \in DOMAIN jobs' /\ jobs'[i].pid = 0 /\ Spawning(i)
               /\ Spawns("main", i) => i \in escaped'
      <3>1. /\ Go("control", "spawn") /\ UNCHANGED <<lock, command>>
            /\ slot' = [slot EXCEPT !["control"] = i]
        BY <2>2 DEF Spawning
      <3> QED
        BY <1>3, <2>2, <3>1, Goes DEF LaunchdInv, ThreadsOK, Thread, PC, InSpawn, ToFork
    <2> QED
      BY <2>1, <2>2
  <1>5. ThreadsOK'
    BY <1>1, <1>4 DEF LaunchdInv, ThreadsOK
  <1>6. WorldOK'
    BY <1>1 DEF LaunchdInv, WorldOK, signals, alarms
  <1>7. LockInv'
    BY <1>2, <1>4 DEF LaunchdInv, LockInv, InSpawn, ToFork, Napping
  <1>8. SlotInv'
    BY <1>1, <1>4 DEF LaunchdInv, SlotInv, Thread, InSpawn, ToFork, Napping
  <1>9. SupplyInv'
    <2>1. BootLeft' = 0 /\ BootLeft = 0 /\ Respawning' = Respawning
          /\ Requested = 1 /\ Requested' \in {0, 1}
      BY <1>2, <1>4 DEF BootLeft, Requested, Respawning, ToFork, Napping
    <2> QED
      BY <1>1, <1>5, <2>1, SupplyKept, DemandIsNat DEF counts, LaunchdInv
  <1>10. MainInv'
    BY <1>1, <1>2, <1>4 DEF LaunchdInv, MainInv
  <1>11. EntryInv'
    <2> SUFFICES ASSUME pc["main"] # "killed", NEW j \in DOMAIN jobs', j \notin escaped'
                 PROVE  EntryOK(j)'
      BY <1>4 DEF EntryInv
    <2>1. Alive(j)' = Alive(j)
      BY <1>1 DEF Alive
    <2>2. Spawns("control", j)' => jobs'[j].pid = 0 /\ ~Spawns("main", j)
      BY <1>4 DEF Spawns, InSpawn, ToFork, Napping
    <2>3. /\ Spawns("main", j)' <=> Spawns("main", j)
          /\ PassedBy(j)' <=> PassedBy(j)
          /\ \A p : Stores("main", p)' <=> Stores("main", p)
          /\ \A p : ~Stores("control", p) /\ ~Stores("control", p)'
      BY <1>1, <1>4 DEF Spawns, PassedBy, Stores
    <2>4. CASE j \in DOMAIN jobs
      <3>1. EntryOK(j) /\ jobs'[j].pid = jobs[j].pid
        BY <2>4 DEF LaunchdInv, EntryInv
      <3>2. \A p \in Alive(j)' : p = jobs'[j].pid \/ \E t \in Thread : Stores(t, p)' /\ slot'[t] = j
        BY <1>4, <2>1, <2>3, <3>1 DEF EntryOK, Thread
      <3>3. \A t \in Thread : Spawns(t, j)' => jobs'[j].pid = 0
        BY <2>2, <2>3, <3>1 DEF EntryOK, Thread
      <3> QED
        BY <1>1, <1>4, <2>1, <2>2, <2>3, <3>1, <3>2, <3>3 DEF EntryOK
    <2>5. CASE j \notin DOMAIN jobs
      <3>1. Alive(j) = {}
        <4>1. j # 0
          BY DEF JobsOK
        <4> QED
          BY <2>5, <4>1 DEF Alive, LaunchdInv, PidInv
      <3>2. ~Spawns("main", j) /\ ~(pc["main"] = "found" /\ slot["main"] = j)
        BY <2>5 DEF Spawns, LaunchdInv, SlotInv, Thread
      <3>3. \A t \in Thread : Spawns(t, j)' => jobs'[j].pid = 0
        BY <2>2, <2>3, <3>2 DEF Thread
      <3> QED
        BY <1>4, <2>1, <2>3, <3>1, <3>2, <3>3 DEF EntryOK
    <2> QED
      BY <2>4, <2>5
  <1> QED
    BY <1>5, <1>6, <1>7, <1>8, <1>9, <1>10, <1>11 DEF LaunchdInv

\* list, start and stop only read the table.
LEMMA ReadingStep ==
  ASSUME LaunchdInv, lc_list \/ lc_start \/ lc_stop
  PROVE  LaunchdInv'
  <1>1. Rest /\ pc["control"] = "run" /\ UNCHANGED jobs
    BY DEF lc_list, lc_start, lc_stop, Running
  <1>2. JobsOK' /\ PidInv'
    BY <1>1, Frame DEF Rest
  <1>3. PICK i : i = find_by_label(command.label)
    OBVIOUS
  <1>4. /\ i \in DOMAIN jobs \cup {0} /\ DOMAIN jobs \subseteq Slots
        /\ signalled \subseteq Pids /\ escaped \subseteq Slots
    BY <1>3, FoundByLabel DEF LaunchdInv, WorldOK, JobsOK, Slots
  <1>5. signalled \subseteq signalled' /\ signalled' \subseteq Pids
    <2>1. i # 0 => jobs[i].pid \in Pids \cup {0}
      <3>1. i # 0 => jobs[i] \in Job
        BY <1>4 DEF LaunchdInv, JobsOK
      <3> QED
        BY <3>1 DEF Job
    <2>2. UNCHANGED signalled \/ (i # 0 /\ jobs[i].pid > 0 /\ signalled' = signalled \cup {jobs[i].pid})
      BY <1>3 DEF lc_list, lc_start, lc_stop, Kill
    <2> QED
      BY <1>4, <2>1, <2>2
  <1>6. \/ Reply /\ UNCHANGED <<slot, escaped>>
        \/ /\ i \in DOMAIN jobs /\ jobs[i].pid = 0 /\ Spawning(i)
           /\ escaped' = escaped \cup Raced(i)
    BY <1>3, <1>4 DEF lc_list, lc_start, lc_stop
  <1>7. /\ escaped \subseteq escaped' /\ escaped' \subseteq Slots
        /\ \/ Reply /\ UNCHANGED slot
           \/ /\ i \in DOMAIN jobs' /\ jobs'[i].pid = 0 /\ Spawning(i)
              /\ Spawns("main", i) => i \in escaped'
    BY <1>1, <1>4, <1>6 DEF Raced, Spawns
  <1>8. \A j \in DOMAIN jobs' : jobs'[j].pid = IF j \in DOMAIN jobs THEN jobs[j].pid ELSE 0
    BY <1>1
  <1> QED
    BY <1>1, <1>2, <1>5, <1>7, <1>8, ServedStep

\* load appends an entry without a process.
LEMMA LoadStep ==
  ASSUME LaunchdInv, lc_load
  PROVE  LaunchdInv'
  <1>1. Rest /\ pc["control"] = "run" /\ UNCHANGED <<signalled, escaped>> /\ command.op = "load"
    BY DEF lc_load, Running
  <1>2. CASE ~MayLoad(command.cfg)
    <2>1. Reply /\ UNCHANGED <<jobs, slot>>
      BY <1>2 DEF lc_load
    <2>2. JobsOK' /\ PidInv' /\ signalled' \subseteq Pids /\ escaped' \subseteq Slots
      BY <1>1, <2>1, Frame DEF Rest, LaunchdInv, WorldOK
    <2> QED
      BY <1>1, <2>1, <2>2, ServedStep
  <1>3. CASE MayLoad(command.cfg)
    <2>1. PICK e : e = Entry(command.cfg)
      OBVIOUS
    <2>2. e \in Job /\ e.pid = 0
      <3>1. command \in [op : {"load"}, cfg : Loadable]
        BY <1>1 DEF LaunchdInv, ThreadsOK, Commands, NoCommand
      <3>2. command.cfg \in Configs
        BY <3>1 DEF Configs
      <3> QED
        BY <2>1, <3>2 DEF Entry, Job
    <2>3. /\ jobs' = Append(jobs, e) /\ Len(jobs) < MAX_DAEMONS
          /\ (Reply /\ UNCHANGED slot) \/ Spawning(Len(jobs) + 1)
      BY <1>3, <2>1 DEF lc_load, MayLoad
    <2>4. /\ jobs' \in Seq(Job) /\ Len(jobs') = Len(jobs) + 1 /\ jobs'[Len(jobs) + 1] = e
          /\ \A j \in DOMAIN jobs : jobs'[j] = jobs[j]
          /\ DOMAIN jobs' = DOMAIN jobs \cup {Len(jobs) + 1}
      BY <2>2, <2>3 DEF LaunchdInv, JobsOK
    <2>5. JobsOK'
      <3>1. Len(jobs') <= MAX_DAEMONS
        BY <2>3, <2>4 DEF LaunchdInv, JobsOK
      <3> QED
        BY <1>1, <2>2, <2>4, <3>1 DEF LaunchdInv, JobsOK, Rest
    <2>6. PidInv'
      BY <1>1, <2>2, <2>4 DEF LaunchdInv, PidInv, Rest
    <2>7. signalled' \subseteq Pids /\ escaped' \subseteq Slots
      BY <1>1 DEF LaunchdInv, WorldOK
    <2>8. \A j \in DOMAIN jobs' : jobs'[j].pid = IF j \in DOMAIN jobs THEN jobs[j].pid ELSE 0
      <3>1. Len(jobs) + 1 \notin DOMAIN jobs
        BY DEF LaunchdInv, JobsOK
      <3> QED
        BY <2>2, <2>4, <3>1
    <2>9. ~Spawns("main", Len(jobs) + 1)
      <3>1. Len(jobs) + 1 \notin DOMAIN jobs
        BY DEF LaunchdInv, JobsOK
      <3> QED
        BY <3>1 DEF Spawns, LaunchdInv, SlotInv, Thread
    <2>10. \/ Reply /\ UNCHANGED slot
           \/ /\ Len(jobs) + 1 \in DOMAIN jobs' /\ jobs'[Len(jobs) + 1].pid = 0
              /\ Spawning(Len(jobs) + 1)
              /\ Spawns("main", Len(jobs) + 1) => Len(jobs) + 1 \in escaped'
      BY <2>2, <2>3, <2>4, <2>9
    <2> QED
      BY <1>1, <2>4, <2>5, <2>6, <2>7, <2>8, <2>10, ServedStep
  <1> QED
    BY <1>2, <1>3

\* unload marks the entry and signals its process; the entry stays.
LEMMA UnloadStep ==
  ASSUME LaunchdInv, lc_unload
  PROVE  LaunchdInv'
  <1>1. PICK i : i = find_by_label(command.label)
    OBVIOUS
  <1>2. Rest /\ pc["control"] = "run" /\ Reply /\ UNCHANGED <<slot, escaped>>
    BY DEF lc_unload, Running
  <1>3. i \in DOMAIN jobs \cup {0} /\ jobs \in Seq(Job) /\ signalled \subseteq Pids /\ escaped \subseteq Slots
    BY <1>1, FoundByLabel DEF LaunchdInv, JobsOK, WorldOK
  <1>4. CASE i = 0
    <2>1. UNCHANGED <<jobs, signalled>>
      BY <1>1, <1>4 DEF lc_unload
    <2>2. JobsOK' /\ PidInv' /\ signalled' \subseteq Pids
      BY <1>2, <1>3, <2>1, Frame DEF Rest
    <2> QED
      BY <1>2, <1>3, <2>1, <2>2, ServedStep
  <1>5. CASE i # 0
    <2>1. PICK e : e = [jobs[i] EXCEPT !.unloaded = TRUE]
      OBVIOUS
    <2>2. e \in Job /\ e.pid = jobs[i].pid /\ jobs[i].pid \in Pids \cup {0}
      <3>1. jobs[i] \in Job
        BY <1>3, <1>5
      <3> QED
        BY <2>1, <3>1 DEF Job
    <2>3. jobs' = [jobs EXCEPT ![i] = e] /\ signalled' = signalled \cup ({jobs[i].pid} \ {0})
      BY <1>1, <1>5, <2>1 DEF lc_unload, Kill
    <2>4. jobs' \in Seq(Job) /\ Len(jobs') = Len(jobs) /\ DOMAIN jobs' = DOMAIN jobs
      <3>1. jobs \in [1 .. Len(jobs) -> Job] /\ Len(jobs) \in Nat /\ DOMAIN jobs = 1 .. Len(jobs)
        BY <1>3
      <3>2. jobs' \in [1 .. Len(jobs) -> Job]
        BY <2>2, <2>3, <3>1
      <3> QED
        BY <3>1, <3>2
    <2>5. \A j \in DOMAIN jobs : jobs'[j].pid = jobs[j].pid
      BY <1>3, <1>5, <2>2, <2>3
    <2>6. JobsOK'
      BY <1>2, <2>4, <2>5 DEF LaunchdInv, JobsOK, Rest
    <2>7. PidInv'
      BY <1>2, <2>4, <2>5 DEF LaunchdInv, PidInv, Rest
    <2>8. signalled \subseteq signalled' /\ signalled' \subseteq Pids
      BY <1>3, <2>2, <2>3
    <2> QED
      BY <1>2, <1>3, <2>4, <2>5, <2>6, <2>7, <2>8, ServedStep
  <1> QED
    BY <1>4, <1>5

-----------------------------------------------------------------------------
\* A process exits: a zombie more, which may have main fork once more.
LEMMA ExitStep ==
  ASSUME LaunchdInv, NEW p \in Pids, Exit(p)
  PROVE  LaunchdInv'
  <1>1. /\ UNCHANGED <<jobs, lock, pc, slot, got, command, signals, escaped, owner,
                       signalled, commands, orphans, forkfails>>
        /\ proc[p] = "alive" /\ exits < MaxExits /\ exits' = exits + 1
        /\ proc' = [proc EXCEPT ![p] = "zombie"]
    BY DEF Exit, threads
  <1>2. /\ proc' \in [Pids -> {"none", "alive", "zombie", "reaped"}]
        /\ proc'[p] = "zombie" /\ \A q \in Pids : q # p => proc'[q] = proc[q]
    BY <1>1 DEF LaunchdInv, WorldOK
  <1>3. JobsOK' /\ ThreadsOK' /\ LockInv'
    BY <1>1, Frame
  <1>4. WorldOK'
    BY <1>1, <1>2 DEF LaunchdInv, WorldOK, signals, alarms
  <1>5. SlotInv'
    BY <1>1, <1>2 DEF LaunchdInv, SlotInv
  <1>6. PidInv'
    <2>1. \A q \in Pids : proc'[q] = "none" <=> proc[q] = "none"
      BY <1>1, <1>2
    <2>2. 0 \notin Pids /\ \A i \in DOMAIN jobs : jobs[i].pid \in Pids \cup {0}
      <3>1. \A i \in DOMAIN jobs : jobs[i] \in Job
        BY DEF LaunchdInv, JobsOK
      <3> QED
        BY <3>1 DEF Pids, Job
    <2> QED
      BY <1>1, <2>1, <2>2 DEF LaunchdInv, PidInv
  <1>7. commands \in Nat /\ exits \in Nat /\ orphans \in Nat /\ exits' \in 0 .. MaxExits
    <2>1. commands \in Nat /\ exits \in 0 .. MaxExits /\ orphans \in Nat
      BY DEF LaunchdInv, SupplyInv
    <2> QED
      BY <1>1, <2>1
  <1>8. SupplyInv'
    <2>1. Used' = Used /\ Zombies' = Zombies \cup {p} /\ p \notin Zombies
      BY <1>1, <1>2 DEF Used, Zombies
    <2>2. Cardinality(Zombies \cup {p}) = Cardinality(Zombies) + 1
      <3>1. PICK S : S = Zombies
        OBVIOUS
      <3>2. IsFiniteSet(S) /\ p \notin S
        BY <2>1, <3>1, UsedFinite
      <3>3. Cardinality(S \cup {p}) = Cardinality(S) + 1
        BY ONLY <3>2, FS_AddElement
      <3> QED
        BY <3>1, <3>3
    <2>3. BootLeft' = BootLeft /\ Requested' = Requested /\ Respawning' = Respawning
      BY <1>1 DEF BootLeft, Requested, Respawning
    <2>4. PICK u, z, b, r, q : /\ u = Cardinality(Used) /\ z = Cardinality(Zombies)
                               /\ b = BootLeft /\ r = Respawning /\ q = Requested
      OBVIOUS
    <2>5. u \in Nat /\ z \in Nat /\ b \in Nat /\ r \in Nat /\ q \in Nat
      BY <2>4, UsedFinite, DemandIsNat DEF LaunchdInv
    <2>6. u + z + b + r + q <= MAX_DAEMONS + commands + exits + orphans
      BY <2>4 DEF LaunchdInv, SupplyInv
    <2>7. u + (z + 1) + b + r + q <= MAX_DAEMONS + commands + (exits + 1) + orphans
      BY <1>7, <2>5, <2>6
    <2>8. Cardinality(Used') + Cardinality(Zombies') + BootLeft' + Respawning' + Requested'
            <= MAX_DAEMONS + commands' + exits' + orphans'
      BY <1>1, <2>1, <2>2, <2>3, <2>4, <2>7
    <2> QED
      BY <1>1, <1>7, <2>8 DEF LaunchdInv, SupplyInv
  <1>9. MainInv'
    BY <1>1, <1>2 DEF LaunchdInv, MainInv
  <1>10. EntryInv'
    <2>1. \A i \in DOMAIN jobs : Alive(i)' \subseteq Alive(i)
      BY <1>1, <1>2 DEF Alive
    <2>2. \A i \in DOMAIN jobs : Unaffected(i)
      BY <1>1, <2>1 DEF Unaffected, Stores, Spawns, PassedBy
    <2> QED
      BY <1>1, <2>2, EntriesKept
  <1> QED
    BY <1>3, <1>4, <1>5, <1>6, <1>8, <1>9, <1>10 DEF LaunchdInv

\* An orphan arrives: a process that is no entry's.
LEMMA ReparentStep ==
  ASSUME LaunchdInv, Reparent
  PROVE  LaunchdInv'
  <1>1. commands \in Nat /\ commands <= MaxCommands /\ exits \in Nat /\ exits <= MaxExits
        /\ orphans \in Nat /\ forkfails \in Nat /\ orphans + forkfails < MaxUnusual
    BY DEF LaunchdInv, SupplyInv, Reparent
  <1>2. PICK u, z, b, r, q : /\ u = Cardinality(Used) /\ z = Cardinality(Zombies)
                             /\ b = BootLeft /\ r = Respawning /\ q = Requested
    OBVIOUS
  <1>3. u \in Nat /\ z \in Nat /\ b \in Nat /\ r \in Nat /\ q \in Nat
    BY <1>2, UsedFinite, DemandIsNat DEF LaunchdInv
  <1>4. u + z + b + r + q <= MAX_DAEMONS + commands + exits + orphans
    BY <1>2 DEF LaunchdInv, SupplyInv
  <1>5. u < MAX_DAEMONS + MaxCommands + MaxExits + MaxUnusual
    BY <1>1, <1>3, <1>4
  <1>6. PICK n \in Pids : n = NewPid /\ proc[n] = "none"
    BY <1>2, <1>5, NewPidIsFresh
  <1>7. /\ UNCHANGED <<jobs, lock, pc, slot, got, command, signals, escaped, owner,
                       signalled, commands, exits, forkfails>>
        /\ orphans' = orphans + 1
        /\ proc' = [proc EXCEPT ![n] = "alive"]
    BY <1>6 DEF Reparent, threads
  <1>8. /\ proc' \in [Pids -> {"none", "alive", "zombie", "reaped"}]
        /\ proc'[n] = "alive" /\ \A p \in Pids : p # n => proc'[p] = proc[p]
    BY <1>7 DEF LaunchdInv, WorldOK
  <1>9. owner[n] = 0 /\ 0 \notin DOMAIN jobs
    BY <1>6 DEF LaunchdInv, PidInv, JobsOK
  <1>10. JobsOK' /\ ThreadsOK' /\ LockInv'
    BY <1>7, Frame
  <1>11. WorldOK'
    BY <1>7, <1>8 DEF LaunchdInv, WorldOK, signals, alarms
  <1>12. SlotInv'
    BY <1>7, <1>8 DEF LaunchdInv, SlotInv
  <1>13. PidInv'
    <2>1. \A p \in Pids : proc'[p] = "none" => proc[p] = "none"
      BY <1>6, <1>8
    <2>2. \A p \in Pids : proc[p] # "none" => proc'[p] # "none"
      BY <1>6, <1>8
    <2>3. \A i \in DOMAIN jobs : jobs[i].pid \in Pids \cup {0}
      <3>1. \A i \in DOMAIN jobs : jobs[i] \in Job
        BY DEF LaunchdInv, JobsOK
      <3> QED
        BY <3>1 DEF Job
    <2> QED
      BY <1>7, <2>1, <2>2, <2>3 DEF LaunchdInv, PidInv
  <1>14. SupplyInv'
    <2>1. Used' = Used \cup {n} /\ n \notin Used /\ Zombies' = Zombies
      BY <1>6, <1>8 DEF Used, Zombies
    <2>2. Cardinality(Used \cup {n}) = Cardinality(Used) + 1
      <3>1. PICK S : S = Used
        OBVIOUS
      <3>2. IsFiniteSet(S) /\ n \notin S
        BY <2>1, <3>1, UsedFinite
      <3>3. Cardinality(S \cup {n}) = Cardinality(S) + 1
        BY ONLY <3>2, FS_AddElement
      <3> QED
        BY <3>1, <3>3
    <2>3. BootLeft' = BootLeft /\ Requested' = Requested /\ Respawning' = Respawning
      BY <1>7 DEF BootLeft, Requested, Respawning
    <2>4. (u + 1) + z + b + r + q <= MAX_DAEMONS + commands + exits + (orphans + 1)
      BY <1>1, <1>3, <1>4
    <2>5. Cardinality(Used') + Cardinality(Zombies') + BootLeft' + Respawning' + Requested'
            <= MAX_DAEMONS + commands' + exits' + orphans'
      BY <1>2, <1>7, <2>1, <2>2, <2>3, <2>4
    <2>6. orphans' \in Nat /\ orphans' + forkfails <= MaxUnusual
      BY <1>1, <1>7
    <2> QED
      BY <1>7, <2>5, <2>6 DEF LaunchdInv, SupplyInv
  <1>15. MainInv'
    BY <1>6, <1>7, <1>8 DEF LaunchdInv, MainInv
  <1>16. EntryInv'
    <2>1. \A i \in DOMAIN jobs : Alive(i)' \subseteq Alive(i)
      BY <1>7, <1>8, <1>9 DEF Alive
    <2>2. \A i \in DOMAIN jobs : Unaffected(i)
      BY <1>7, <2>1 DEF Unaffected, Stores, Spawns, PassedBy
    <2> QED
      BY <1>7, <2>2, EntriesKept
  <1> QED
    BY <1>10, <1>11, <1>12, <1>13, <1>14, <1>15, <1>16 DEF LaunchdInv

\* A signal ends the wait4 or the sigsuspend of the thread that handles it.
LEMMA HandledMoves ==
  ASSUME ThreadsOK, Handled
  PROVE  /\ pc' \in [Thread -> PC]
         /\ \A t \in Thread : \/ pc'[t] = pc[t]
                              \/ pc[t] = "wait" /\ pc'[t] = "check"
                              \/ pc[t] = "drainwait" /\ pc'[t] = "done"
                              \/ pc[t] = "asleep" /\ pc'[t] = "disarm"
  <1>1. pc \in [Thread -> PC]
    BY DEF ThreadsOK
  <1>2. CASE UNCHANGED pc
    BY <1>1, <1>2
  <1>3. CASE \E u \in Thread : pc' = [pc EXCEPT ![u] = Interrupted(@)]
    <2>1. PICK u \in Thread : pc' = [pc EXCEPT ![u] = Interrupted(pc[u])]
      BY <1>1, <1>3
    <2>2. PICK p : p = Interrupted(pc[u])
      OBVIOUS
    <2>3. \/ p = pc[u]
          \/ pc[u] = "wait" /\ p = "check"
          \/ pc[u] = "drainwait" /\ p = "done"
          \/ pc[u] = "asleep" /\ p = "disarm"
      BY <2>2 DEF Interrupted
    <2>4. p \in PC
      BY <1>1, <2>3 DEF PC, AfterKills, InSpawn, ToFork, Napping
    <2>5. pc' = [pc EXCEPT ![u] = p]
      BY <2>1, <2>2
    <2> QED
      BY <1>1, <2>3, <2>4, <2>5
  <1> QED
    BY <1>2, <1>3 DEF Handled, Thread

\* A signal sets its flag, and is handled or is the end of PID 1.
LEMMA SignalStep ==
  ASSUME LaunchdInv, Sigterm \/ Sigalrm
  PROVE  LaunchdInv'
  <1>1. /\ UNCHANGED <<jobs, slot, got, lock, command, handler, old_sa, procs, escaped, counts>>
        /\ shutdown_requested' \in BOOLEAN
        /\ itimer' \in {"off", "armed"} /\ alarm_fired' \in BOOLEAN
    BY DEF Sigterm, Sigalrm, LaunchdInv, WorldOK, alarms
  <1>2. Handled \/ Go("main", "killed")
    BY DEF Sigterm, Sigalrm
  <1>3. /\ pc' \in [Thread -> PC]
        /\ \A t \in Thread : \/ pc'[t] = pc[t]
                             \/ t = "main" /\ pc'[t] = "killed"
                             \/ pc[t] = "wait" /\ pc'[t] = "check"
                             \/ pc[t] = "drainwait" /\ pc'[t] = "done"
                             \/ pc[t] = "asleep" /\ pc'[t] = "disarm"
    <2>1. CASE Handled
      BY <2>1, HandledMoves DEF LaunchdInv
    <2>2. CASE Go("main", "killed")
      BY <2>2, Goes DEF LaunchdInv, Thread, PC
    <2> QED
      BY <1>2, <2>1, <2>2
  <1>4. \/ pc'["main"] \in {pc["main"], "killed"}
        \/ pc["main"] = "wait" /\ pc'["main"] = "check"
        \/ pc["main"] = "drainwait" /\ pc'["main"] = "done"
        \/ pc["main"] = "asleep" /\ pc'["main"] = "disarm"
    BY <1>3 DEF Thread
  <1>5. \/ pc'["control"] = pc["control"]
        \/ pc["control"] = "asleep" /\ pc'["control"] = "disarm"
    BY <1>3 DEF LaunchdInv, LockInv, Thread, InSpawn, ToFork, Napping
  <1>6. JobsOK' /\ PidInv'
    BY <1>1, Frame DEF procs
  <1>7. ThreadsOK'
    BY <1>1, <1>3 DEF LaunchdInv, ThreadsOK
  <1>8. WorldOK'
    BY <1>1 DEF LaunchdInv, WorldOK, procs
  <1>9. LockInv'
    BY <1>1, <1>4, <1>5 DEF LaunchdInv, LockInv, InSpawn, ToFork, Napping
  <1>10. SlotInv'
    BY <1>1, <1>3 DEF LaunchdInv, SlotInv, procs, InSpawn, ToFork, Napping
  <1>11. SupplyInv'
    <2>1. Requested' = Requested /\ Respawning' <= Respawning
      BY <1>1, <1>4, <1>5 DEF LaunchdInv, LockInv, Requested, Respawning, ToFork, Napping
    <2>2. BootLeft' <= BootLeft
      <3>1. lock = "main" /\ pc'["main"] \in ToFork => pc["main"] \in ToFork
        BY <1>4 DEF ToFork, Napping
      <3>2. slot["main"] \in Nat
        BY DEF LaunchdInv, ThreadsOK, Slots, Thread
      <3> QED
        BY <1>1, <3>1, <3>2 DEF BootLeft
    <2>3. Requested' <= Requested
      BY <2>1, DemandIsNat DEF LaunchdInv
    <2> QED
      BY <1>1, <1>7, <2>1, <2>2, <2>3, SupplyKept DEF procs, counts
  <1>12. MainInv'
    BY <1>1, <1>4 DEF LaunchdInv, MainInv, procs
  <1>13. EntryInv'
    <2>1. pc["main"] = "killed" => pc'["main"] = "killed"
      BY <1>4
    <2> SUFFICES ASSUME pc'["main"] # "killed", NEW i \in DOMAIN jobs PROVE Unaffected(i)
      BY <1>1, <2>1, EntriesKept
    <2>2. PassedBy(i)' => PassedBy(i)
      BY <1>1, <1>4 DEF PassedBy, AfterKills, Draining
    <2>3. \A t \in Thread : Spawns(t, i)' => Spawns(t, i)
      BY <1>1, <1>3 DEF Spawns, InSpawn, ToFork, Napping
    <2>4. \A t \in Thread : \A q \in Pids : Stores(t, q) => Stores(t, q)' /\ UNCHANGED slot[t]
      BY <1>1, <1>3 DEF Stores
    <2> QED
      BY <1>1, <1>4, <2>2, <2>3, <2>4 DEF Unaffected, Alive, procs
  <1> QED
    BY <1>6, <1>7, <1>8, <1>9, <1>10, <1>11, <1>12, <1>13 DEF LaunchdInv

-----------------------------------------------------------------------------
\* Every step of launchd, and a stuttering one, keeps the invariant.
LEMMA NextLaunchd == LaunchdInv /\ [Next]_vars => LaunchdInv'
  <1> SUFFICES ASSUME LaunchdInv, [Next]_vars PROVE LaunchdInv'
    OBVIOUS
  <1>1. ASSUME NEW t \in Thread, Spawner(t) PROVE LaunchdInv'
    BY <1>1, NapStep, ForkStep, ForkFailsStep, StoreStep DEF Spawner
  <1>2. CASE MainStep
    BY <1>1, <1>2, BootNextStep, MovingStep, ReapStep, FindExitedStep, HandleExitStep,
       SignalNextStep, DrainExitedStep DEF MainStep, Thread
  <1>3. CASE ControlStep
    BY <1>1, <1>3, TakeLockStep, ReadingStep, LoadStep, UnloadStep DEF ControlStep, Thread
  <1>4. CASE Receive
    BY <1>4, ReceiveStep
  <1>5. CASE \E p \in Pids : Exit(p)
    BY <1>5, ExitStep
  <1>6. CASE Reparent
    BY <1>6, ReparentStep
  <1>7. CASE Sigterm \/ Sigalrm
    BY <1>7, SignalStep
  <1>8. CASE UNCHANGED vars
    <2>1. UNCHANGED <<jobs, lock, pc, slot, got, command, signals, procs, escaped, counts,
                      proc, owner>>
      BY <1>8 DEF vars, threads, procs
    <2>2. \A i \in DOMAIN jobs : Unaffected(i)
      BY <2>1 DEF Unaffected, Alive, Stores, Spawns, PassedBy, procs
    <2>3. EntryInv'
      BY <2>1, <2>2, EntriesKept
    <2> QED
      BY <2>1, <2>3, Frame DEF LaunchdInv
  <1> QED
    BY <1>2, <1>3, <1>4, <1>5, <1>6, <1>7, <1>8 DEF Next

(***************************************************************************)
(* The inductive invariant: the lock is where the two threads are, a pid   *)
(* about to be stored was forked for its entry, and the table knows each   *)
(* supervised process of an entry that has not escaped.                    *)
(***************************************************************************)
THEOREM LaunchdInvariance == Spec => []LaunchdInv
  BY InitLaunchd, NextLaunchd, PTL DEF Spec

(***************************************************************************)
(* do_shutdown's promise, "signal every supervised child", with any number *)
(* of launchctl commands beside it: when the system halts, each supervised *)
(* process still alive was sent SIGTERM, but for those of an entry started *)
(* while main respawned it, the one stored in an entry that the loop of    *)
(* kills had passed, and the one forked by a command and not yet stored.   *)
(***************************************************************************)
THEOREM HaltedMeansSignalledHolds == Spec => []HaltedMeansSignalled
  <1>1. LaunchdInv => HaltedMeansSignalled
    <2> SUFFICES ASSUME LaunchdInv, pc["main"] = "halt", NEW i \in DOMAIN jobs \ escaped
                 PROVE  Alive(i) \subseteq signalled
                          \cup (IF pc["control"] = "store" THEN {got["control"]} ELSE {})
      BY DEF HaltedMeansSignalled
    <2>1. EntryOK(i) /\ PassedBy(i)
      BY DEF LaunchdInv, EntryInv, PassedBy, AfterKills
    <2> QED
      BY <2>1 DEF EntryOK, Stores
  <1> QED
    BY <1>1, LaunchdInvariance, PTL

-----------------------------------------------------------------------------
(***************************************************************************)
(* Only lc_load gives an entry a label, and no step makes an unloaded one  *)
(* loaded again.                                                           *)
(***************************************************************************)
SameLabels ==
    /\ DOMAIN jobs' = DOMAIN jobs
    /\ \A i \in DOMAIN jobs :
         jobs'[i].cfg = jobs[i].cfg /\ (jobs[i].unloaded => jobs'[i].unloaded)

LEMMA RelabelStep ==
  ASSUME LaunchdInv, [Next]_vars
  PROVE  SameLabels \/ lc_load
  <1>1. jobs \in Seq(Job) /\ \A i \in DOMAIN jobs : jobs[i] \in Job
    BY DEF LaunchdInv, JobsOK
  <1>2. ASSUME UNCHANGED jobs PROVE SameLabels
    BY <1>2 DEF SameLabels
  <1>3. ASSUME NEW i, NEW x,
               \/ jobs' = [jobs EXCEPT ![i].pid = x]
               \/ jobs' = [jobs EXCEPT ![i].pid = x, ![i].spawned = TRUE]
               \/ jobs' = [jobs EXCEPT ![i].unloaded = TRUE]
        PROVE  SameLabels
    <2>1. \A j \in DOMAIN jobs :
             /\ j \in DOMAIN jobs'
             /\ \/ jobs'[j] = jobs[j]
                \/ jobs'[j] = [jobs[j] EXCEPT !.pid = x]
                \/ jobs'[j] = [jobs[j] EXCEPT !.pid = x, !.spawned = TRUE]
                \/ jobs'[j] = [jobs[j] EXCEPT !.unloaded = TRUE]
      BY <1>1, <1>3
    <2>2. DOMAIN jobs' = DOMAIN jobs
      BY <1>1, <1>3
    <2> QED
      BY <1>1, <2>1, <2>2 DEF SameLabels, Job
  <1>4. ASSUME NEW t, Store(t) PROVE SameLabels
    BY <1>3, <1>4 DEF Store
  <1>5. CASE HandleExit \/ DrainExited \/ lc_unload
    BY <1>2, <1>3, <1>5 DEF HandleExit, DrainExited, lc_unload
  <1>6. ASSUME NEW t, Spawner(t) PROVE SameLabels
    <2>1. CASE Nap(t)
      <3>1. UNCHANGED jobs
        BY <2>1 DEF Nap, Throttle, Arm, Suspend, Disarm, Restore
      <3> QED
        BY <1>2, <3>1
    <2>2. CASE Fork(t) \/ ForkFails(t)
      <3>1. UNCHANGED jobs
        BY <2>2 DEF Fork, ForkFails
      <3> QED
        BY <1>2, <3>1
    <2>3. CASE Store(t)
      BY <1>4, <2>3
    <2> QED
      BY <1>6, <2>1, <2>2, <2>3 DEF Spawner
  <1>7. CASE MainStep
    BY <1>2, <1>5, <1>6, <1>7
       DEF MainStep, BootNext, CheckShutdown, EnterWait4, WaitReturns, Reap, WaitNoChild,
           FindExited, SignalNext, CatchAlarm, ResetAlarm, SetAlarm, DrainTest, DrainReap,
           DrainNoChild
  <1>8. CASE ControlStep
    BY <1>2, <1>5, <1>6, <1>8 DEF ControlStep, TakeLock, lc_list, lc_start, lc_stop
  <1>9. CASE UNCHANGED vars
    BY <1>2, <1>9 DEF vars
  <1> QED
    BY <1>2, <1>7, <1>8, <1>9 DEF Next, Receive, Exit, Reparent, Sigterm, Sigalrm

LEMMA LabelsStep ==
  ASSUME LaunchdInv, LabelsUnique, [Next]_vars
  PROVE  LabelsUnique'
  <1>1. CASE SameLabels
    BY <1>1 DEF SameLabels, LabelsUnique, Loaded
  <1>2. CASE lc_load /\ ~MayLoad(command.cfg)
    BY <1>2 DEF lc_load, LabelsUnique, Loaded
  <1>3. CASE lc_load /\ MayLoad(command.cfg)
    <2>1. PICK e : e = Entry(command.cfg) /\ jobs' = Append(jobs, e)
      BY <1>3 DEF lc_load
    <2>2. e.cfg.label = command.cfg.label
      BY <2>1 DEF Entry
    <2>3. /\ DOMAIN jobs' = DOMAIN jobs \cup {Len(jobs) + 1}
          /\ Len(jobs) + 1 \notin DOMAIN jobs
          /\ jobs'[Len(jobs) + 1] = e /\ \A j \in DOMAIN jobs : jobs'[j] = jobs[j]
      BY <2>1 DEF LaunchdInv, JobsOK
    <2>4. \A j \in DOMAIN jobs : Loaded(j) => jobs[j].cfg.label # e.cfg.label
      <3> DEFINE S == {j \in DOMAIN jobs : Loaded(j) /\ jobs[j].cfg.label = command.cfg.label}
      <3>1. First(S) = 0 /\ S \subseteq Nat \ {0}
        BY <1>3 DEF MayLoad, find_by_label, LaunchdInv, JobsOK
      <3>2. S = {}
        BY <3>1, FirstIsIn
      <3> QED
        BY <2>2, <3>2
    <2> QED
      BY <2>3, <2>4 DEF LabelsUnique, Loaded
  <1> QED
    BY <1>1, <1>2, <1>3, RelabelStep

(***************************************************************************)
(* lc_load refuses a label that is loaded: a label names one loaded entry, *)
(* however often it was unloaded and loaded again.                         *)
(***************************************************************************)
THEOREM LabelsUniqueHolds == Spec => []LabelsUnique
  <1>1. Init => LabelsUnique
    BY DEF Init, LabelsUnique, Entry
  <1>2. LaunchdInv /\ LabelsUnique /\ [Next]_vars => LabelsUnique'
    BY LabelsStep
  <1> QED
    BY <1>1, <1>2, LaunchdInvariance, PTL DEF Spec

(***************************************************************************)
(* g_daemons never holds the pid of a process forked for another entry,    *)
(* though main and the control thread fork and store concurrently, nor one *)
(* label twice.                                                            *)
(***************************************************************************)
THEOREM LaunchdTypeCorrect == Spec => []TypeOK
  <1>1. LaunchdInv /\ LabelsUnique => TypeOK
    BY DEF LaunchdInv, JobsOK, ThreadsOK, WorldOK, TypeOK, Job
  <1> QED
    BY <1>1, LaunchdInvariance, LabelsUniqueHolds, PTL

-----------------------------------------------------------------------------
(***************************************************************************)
(* Without launchctl one thread at most sleeps or awaits an alarm: while   *)
(* the timer is armed SIGALRM has a handler.                               *)
(***************************************************************************)
NapInv ==
    commands = 0 =>
      /\ pc["main"] # "killed" /\ pc["control"] = "receive"
      /\ pc["main"] \in Napping => handler = "noop"
      /\ pc["main"] \in {"reset", "alarm", "done"} \cup Draining => handler = "alarm"
      /\ itimer = "armed" => pc["main"] \in {"suspend", "asleep", "disarm", "done"} \cup Draining

\* The steps that neither touch the timer nor its handler.
LEMMA QuietStep ==
  ASSUME LaunchdInv, NapInv, UNCHANGED <<commands, itimer, handler>>, NEW p \in PC, Go("main", p),
         p \notin Napping \cup {"killed"},
         p \in {"reset", "alarm", "done"} \cup Draining <=>
           pc["main"] \in {"reset", "alarm", "done"} \cup Draining,
         pc["main"] \notin {"suspend", "asleep", "disarm"},
         pc["main"] \in {"done"} \cup Draining => p \in {"done"} \cup Draining
  PROVE  NapInv'
  <1>1. pc'["main"] = p /\ pc'["control"] = pc["control"]
    BY Goes DEF LaunchdInv, Thread
  <1> QED
    BY <1>1 DEF NapInv

LEMMA NapInvStep ==
  ASSUME LaunchdInv, NapInv, [Next]_vars
  PROVE  NapInv'
  <1> SUFFICES ASSUME commands' = 0 PROVE NapInv'
    BY DEF NapInv
  <1> USE DEF Napping, Draining
  <1>1. commands \in Nat /\ pc \in [Thread -> PC]
    BY DEF LaunchdInv, SupplyInv, ThreadsOK
  <1>2. ASSUME UNCHANGED <<commands, itimer, handler, pc>> PROVE NapInv'
    BY <1>2 DEF NapInv
  <1>3. CASE Nap("main")
    <2>1. PICK p \in PC : Go("main", p)
      BY <1>3 DEF Nap, Throttle, Arm, Suspend, Disarm, Restore, PC, InSpawn, ToFork
    <2>2. pc'["main"] = p /\ pc'["control"] = pc["control"]
      BY <2>1, Goes DEF LaunchdInv, Thread
    <2>3. /\ UNCHANGED commands
          /\ pc["main"] \in {"arm", "suspend", "disarm", "restore"} => handler = "noop"
          /\ pc["control"] = "receive" /\ itimer \in {"off", "armed"}
          /\ itimer = "armed" => pc["main"] \in {"suspend", "asleep", "disarm", "done"} \cup Draining
      BY <1>3 DEF NapInv, Nap, Throttle, Arm, Suspend, Disarm, Restore, counts, LaunchdInv, WorldOK
    <2>4. \/ pc["main"] = "spawn" /\ p = "arm" /\ handler' = "noop" /\ itimer' = itimer
          \/ pc["main"] = "arm" /\ p = "suspend" /\ handler' = handler
          \/ pc["main"] = "suspend" /\ p = "asleep" /\ handler' = handler /\ itimer' = itimer
          \/ pc["main"] = "disarm" /\ p = "restore" /\ handler' = handler /\ itimer' = "off"
          \/ pc["main"] = "restore" /\ p = "fork" /\ itimer' = itimer
      <3>1. pc' = [pc EXCEPT !["main"] = p] /\ p = pc'["main"]
        BY <2>1, <2>2 DEF Go
      <3>2. \A q : Go("main", q) => q = p
        BY <1>1, <2>2 DEF Go, Thread
      <3> QED
        BY <1>3, <3>2 DEF Nap, Throttle, Arm, Suspend, Disarm, Restore, signals, alarms
    <2> QED
      BY <2>2, <2>3, <2>4 DEF NapInv
  <1>4. CASE CatchAlarm \/ ResetAlarm \/ SetAlarm
    <2>1. PICK p \in PC :
            /\ Go("main", p) /\ UNCHANGED commands
            /\ \/ pc["main"] = "catch" /\ p = "reset" /\ handler' = "alarm" /\ itimer' = itimer
               \/ pc["main"] = "reset" /\ p = "alarm" /\ handler' = handler /\ itimer' = itimer
               \/ pc["main"] = "alarm" /\ p = "drain" /\ handler' = handler
               \/ pc["main"] = "done" /\ p = "halt" /\ handler' = handler /\ itimer' = "off"
      BY <1>4 DEF CatchAlarm, ResetAlarm, SetAlarm, counts, PC, AfterKills
    <2>2. pc'["main"] = p /\ pc'["control"] = pc["control"]
      BY <2>1, Goes DEF LaunchdInv, Thread
    <2> QED
      BY <2>1, <2>2 DEF NapInv
  <1>5. ASSUME NEW p \in PC, Go("main", p), UNCHANGED <<commands, signals>>,
               \/ /\ pc["main"] \in {"spawn", "fork", "store", "boot", "check", "enter", "wait",
                                     "reaped", "found", "shutdown"}
                  /\ p \in {"boot", "check", "spawn", "store", "shutdown", "enter", "wait",
                            "reaped", "found", "catch"}
               \/ pc["main"] \in Draining /\ p \in {"done"} \cup Draining
        PROVE  NapInv'
    BY <1>5, QuietStep DEF signals, alarms
  <1>6. CASE Fork("main") \/ ForkFails("main") \/ Store("main")
    <2>1. PICK p \in {"boot", "check", "store"} : Go("main", p)
      BY <1>6 DEF Fork, ForkFails, Store, Return
    <2> QED
      BY <1>5, <1>6, <2>1 DEF Fork, ForkFails, Store, counts, PC, InSpawn
  <1>7. CASE BootNext \/ CheckShutdown \/ EnterWait4 \/ WaitNoChild \/ FindExited \/ HandleExit
    <2>1. PICK p \in PC :
            /\ Go("main", p) /\ UNCHANGED <<commands, signals>>
            /\ \/ /\ pc["main"] \in {"boot", "check", "enter", "wait", "reaped", "found"}
                  /\ p \in {"spawn", "check", "shutdown", "enter", "wait", "found"}
               \/ pc["main"] = "drainenter" /\ p = "drainwait"
      BY <1>7 DEF BootNext, CheckShutdown, EnterWait4, WaitNoChild, FindExited, HandleExit,
                  counts, PC, InSpawn, ToFork, AfterKills
    <2> QED
      BY <1>5, <2>1
  <1>8. CASE WaitReturns \/ DrainReap \/ DrainTest \/ DrainNoChild \/ DrainExited
    <2>1. PICK p \in PC :
            /\ Go("main", p) /\ UNCHANGED <<commands, signals>>
            /\ \/ pc["main"] = "wait" /\ p = "reaped"
               \/ pc["main"] \in Draining /\ p \in {"done"} \cup Draining
      BY <1>8 DEF WaitReturns, DrainReap, Reap, DrainTest, DrainNoChild, DrainExited,
                  counts, PC, AfterKills
    <2> QED
      BY <1>5, <2>1
  <1>9. CASE SignalNext
    <2>1. UNCHANGED <<commands, signals>> /\ pc["main"] = "shutdown" /\ (UNCHANGED pc \/ Go("main", "catch"))
      BY <1>9 DEF SignalNext, counts
    <2>2. CASE UNCHANGED pc
      BY <1>2, <2>1, <2>2 DEF signals, alarms
    <2>3. CASE Go("main", "catch")
      BY <1>5, <2>1, <2>3 DEF PC, AfterKills
    <2> QED
      BY <2>1, <2>2, <2>3
  <1>10. CASE MainStep
    BY <1>3, <1>4, <1>6, <1>7, <1>8, <1>9, <1>10 DEF MainStep, Spawner
  <1>11. CASE ControlStep
    <2>1. pc["control"] # "receive"
      BY <1>11 DEF ControlStep, Spawner, Nap, Throttle, Arm, Suspend, Disarm, Restore, Fork,
                   ForkFails, Store, TakeLock, lc_list, lc_start, lc_stop, lc_load, lc_unload, Running
    <2>2. UNCHANGED commands
      BY <1>11 DEF ControlStep, Spawner, Nap, Throttle, Arm, Suspend, Disarm, Restore, Fork,
                   ForkFails, Store, TakeLock, lc_list, lc_start, lc_stop, lc_load, lc_unload,
                   Rest, counts
    <2> QED
      BY <2>1, <2>2 DEF NapInv
  <1>12. CASE Receive
    BY <1>1, <1>12 DEF Receive
  <1>13. CASE (\E p \in Pids : Exit(p)) \/ Reparent \/ UNCHANGED vars
    BY <1>2, <1>13 DEF Exit, Reparent, vars, threads, signals, alarms, counts
  <1>14. CASE Sigterm \/ Sigalrm
    <2>1. /\ UNCHANGED commands /\ handler' = handler
          /\ itimer' = itimer \/ itimer' = "off"
      BY <1>14 DEF Sigterm, Sigalrm, alarms, counts
    <2>2. Handled
      BY <1>14, <2>1 DEF Sigterm, Sigalrm, NapInv
    <2>3. \A t \in Thread : \/ pc'[t] = pc[t]
                            \/ pc[t] = "wait" /\ pc'[t] = "check"
                            \/ pc[t] = "drainwait" /\ pc'[t] = "done"
                            \/ pc[t] = "asleep" /\ pc'[t] = "disarm"
      BY <2>2, HandledMoves DEF LaunchdInv
    <2>4. \/ pc'["main"] = pc["main"]
          \/ pc["main"] = "wait" /\ pc'["main"] = "check"
          \/ pc["main"] = "drainwait" /\ pc'["main"] = "done"
          \/ pc["main"] = "asleep" /\ pc'["main"] = "disarm"
      BY <2>3 DEF Thread
    <2>5. pc["control"] = "receive" => pc'["control"] = "receive"
      BY <2>3 DEF Thread
    <2> QED
      BY <2>1, <2>4, <2>5 DEF NapInv
  <1> QED
    BY <1>10, <1>11, <1>12, <1>13, <1>14 DEF Next

(***************************************************************************)
(* nanosleep's fix, "disarming unconditionally": as long as launchctl does *)
(* not have the control thread sleep too, no SIGALRM finds PID 1 without a *)
(* handler, in the throttle, after it or in do_shutdown.                   *)
(***************************************************************************)
THEOREM KilledByOverlapOnlyHolds == Spec => []KilledByOverlapOnly
  <1>1. Init => NapInv
    BY DEF Init, NapInv, Thread, Napping, Draining
  <1>2. LaunchdInv /\ NapInv /\ [Next]_vars => NapInv'
    BY NapInvStep
  <1>3. LaunchdInv /\ NapInv => KilledByOverlapOnly
    <2>1. LaunchdInv => commands \in Nat
      BY DEF LaunchdInv, SupplyInv
    <2> QED
      BY <2>1 DEF NapInv, KilledByOverlapOnly
  <1> QED
    BY <1>1, <1>2, <1>3, LaunchdInvariance, PTL DEF Spec
=============================================================================
