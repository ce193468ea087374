------------------------- MODULE DispatchGroupProofs -------------------------
(***************************************************************************)
(* Proofs about DispatchGroup, for any finite set of tasks and any notes   *)
(* and waiters.  The argument: the count is the number of tasks that are   *)
(* in, so a leave that finds it at one, or a notify or a wait that finds   *)
(* it at zero, knows that nobody is in; and a task that was in when a note *)
(* or a waiter called is never "out" again, so it has then left.           *)
(***************************************************************************)
EXTENDS DispatchGroup, FiniteSetTheorems, TLAPS

\* What a note or a waiter is owed, and where the notes are.
OwedInv == \A c \in Notes \cup Waiters : \A t \in owed[c] : task[t] # "out"
ListInv == \A k \in 1 .. Len(notify) : note[notify[k]] = "listed"
PendingInv ==
    \A t \in Tasks : \A k \in 1 .. Len(pending[t]) :
        note[pending[t][k]] \in {"detached", "pushed"}

GroupInv ==
    /\ TypeOK
    /\ OwedInv
    /\ ListInv
    /\ PendingInv
    /\ NotifyAfterLeave
    /\ NoNoteStranded
    /\ WaitMeansLeft

\* The set counted is finite, and nobody is in exactly when the count is zero.
LEMMA InFinite == IsFiniteSet(In)
  BY GroupAssumption, FS_Subset DEF In

LEMMA NobodyIn == ASSUME TypeOK, count = 0 PROVE In = {}
  BY InFinite, FS_EmptySet DEF TypeOK

LEMMA InitGroup == Init => GroupInv
  <1> SUFFICES ASSUME Init PROVE GroupInv
    OBVIOUS
  <1>1. count = Cardinality(In)
    <2>1. In = {}
      BY DEF Init, In
    <2> QED
      BY <2>1, FS_EmptySet DEF Init
  <1>2. TypeOK
    <2>1. pending \in [Tasks -> Seq(Notes)] /\ notify \in Seq(Notes) /\ pushed \in Seq(Notes)
      BY DEF Init
    <2> QED
      BY <1>1, <2>1 DEF Init, TypeOK
  <1>3. OwedInv /\ ListInv /\ PendingInv
    BY DEF Init, OwedInv, ListInv, PendingInv
  <1>4. NotifyAfterLeave /\ NoNoteStranded /\ WaitMeansLeft
    BY DEF Init, NotifyAfterLeave, NoNoteStranded, WaitMeansLeft
  <1> QED
    BY <1>2, <1>3, <1>4 DEF GroupInv

-----------------------------------------------------------------------------
(***************************************************************************)
(* The count, and what the two actions that change it do to In.            *)
(***************************************************************************)
LEMMA EnterCounts ==
  ASSUME TypeOK, NEW t \in Tasks, Enter(t)
  PROVE count' = Cardinality(In)' /\ count' \in Nat
  <1>1. In' = In \cup {t} /\ t \notin In
    BY DEF Enter, In, TypeOK
  <1>2. Cardinality(In') = Cardinality(In) + 1
    BY <1>1, InFinite, FS_AddElement
  <1> QED
    BY <1>2 DEF Enter, TypeOK

LEMMA LeaveCounts ==
  ASSUME TypeOK, NEW t \in Tasks, Leave(t)
  PROVE /\ count' = Cardinality(In)'
        /\ count' \in Nat
        /\ count = 1 => In = {t}
  <1>1. In' = In \ {t} /\ t \in In
    BY DEF Leave, In, TypeOK
  <1>2. IsFiniteSet(In \ {t}) /\ Cardinality(In \ {t}) = Cardinality(In) - 1
    BY <1>1, InFinite, FS_RemoveElement
  <1>3. Cardinality(In \ {t}) \in Nat
    BY <1>2, FS_CardinalityType
  <1>4. count' = count - 1 /\ count = Cardinality(In) /\ count \in Nat
    BY DEF Leave, TypeOK
  <1>5. ASSUME count = 1 PROVE In = {t}
    <2>1. Cardinality(In \ {t}) = 0
      BY <1>2, <1>4, <1>5
    <2>2. In \ {t} = {}
      BY <2>1, <1>2, FS_EmptySet
    <2> QED
      BY <2>2, <1>1
  <1> QED
    BY <1>1, <1>2, <1>3, <1>4, <1>5

LEMMA OthersCount ==
  ASSUME TypeOK, UNCHANGED <<count, task>>
  PROVE count' = Cardinality(In)' /\ count' \in Nat
  <1>1. In' = In
    BY DEF In
  <1> QED
    BY <1>1 DEF TypeOK

-----------------------------------------------------------------------------
(***************************************************************************)
(* Each action of a task keeps the invariant.                              *)
(***************************************************************************)
LEMMA EnterStep ==
  ASSUME GroupInv, NEW t \in Tasks, Enter(t) PROVE GroupInv'
  <1> USE DEF Enter, nvars, wvars
  <1>1. TypeOK /\ task' \in [Tasks -> {"out", "in", "left"}]
    BY DEF GroupInv, TypeOK
  <1>2. TypeOK'
    BY <1>1, EnterCounts DEF TypeOK
  <1>3. \A s \in Tasks : task[s] # "out" => task'[s] = task[s]
    BY <1>1 DEF TypeOK
  <1>4. OwedInv' /\ NotifyAfterLeave' /\ WaitMeansLeft'
    BY <1>1, <1>3 DEF GroupInv, TypeOK, OwedInv, NotifyAfterLeave, WaitMeansLeft
  <1>5. ListInv' /\ PendingInv'
    BY DEF GroupInv, ListInv, PendingInv
  <1>6. NoNoteStranded'
    BY <1>1 DEF GroupInv, NoNoteStranded, TypeOK
  <1> QED
    BY <1>2, <1>4, <1>5, <1>6 DEF GroupInv

LEMMA LeaveStep ==
  ASSUME GroupInv, NEW t \in Tasks, Leave(t) PROVE GroupInv'
  <1>1. TypeOK /\ task' = [task EXCEPT ![t] = "left"] /\ UNCHANGED <<pushed, wvars, owed>>
    BY DEF GroupInv, Leave
  <1>2. \A s \in Tasks : /\ task[s] = "left" => task'[s] = "left"
                         /\ task[s] # "out" => task'[s] # "out"
    BY <1>1 DEF TypeOK
  <1>3. CASE count = 1
    <2>1. /\ pending' = [pending EXCEPT ![t] = notify]
          /\ note' = [n \in Notes |-> IF note[n] = "listed" THEN "detached" ELSE note[n]]
          /\ notify' = <<>>
          /\ gen' = gen + 1
      BY <1>3 DEF Leave, LastLeave, Detach
    <2>2. notify' \in Seq(Notes) /\ pending' \in [Tasks -> Seq(Notes)]
      BY <2>1, <1>1 DEF TypeOK
    <2>3. TypeOK'
      BY <1>1, <2>1, <2>2, LeaveCounts DEF TypeOK, wvars
    <2>4. \A s \in Tasks : task[s] # "out" => task'[s] = "left"
      <3>1. In = {t}
        BY <1>1, <1>3, LeaveCounts
      <3>2. \A s \in Tasks : s # t => task[s] # "in"
        BY <3>1 DEF In
      <3> QED
        BY <1>1, <3>2 DEF TypeOK
    <2>5. NotifyAfterLeave' /\ OwedInv'
      BY <1>1, <2>4, <1>2 DEF GroupInv, TypeOK, OwedInv, NotifyAfterLeave
    <2>6. WaitMeansLeft'
      BY <1>1, <1>2 DEF GroupInv, TypeOK, WaitMeansLeft, wvars
    <2>7. ListInv' /\ NoNoteStranded'
      BY <2>1 DEF ListInv, NoNoteStranded
    <2>8. PendingInv'
      <3> SUFFICES ASSUME NEW s \in Tasks, NEW k \in 1 .. Len(pending'[s])
                   PROVE note'[pending'[s][k]] \in {"detached", "pushed"}
        BY DEF PendingInv
      <3>1. CASE s = t
        <4>1. pending'[s] = notify
          BY <3>1, <2>1, <1>1 DEF TypeOK
        <4>2. notify[k] \in Notes /\ note[notify[k]] = "listed"
          BY <4>1, <1>1 DEF GroupInv, ListInv, TypeOK
        <4> QED
          BY <4>1, <4>2, <2>1
      <3>2. CASE s # t
        <4>1. pending'[s] = pending[s]
          BY <3>2, <2>1, <1>1 DEF TypeOK
        <4>2. pending[s][k] \in Notes /\ note[pending[s][k]] \in {"detached", "pushed"}
          BY <4>1, <1>1 DEF GroupInv, PendingInv, TypeOK
        <4> QED
          BY <4>1, <4>2, <2>1
      <3> QED
        BY <3>1, <3>2
    <2> QED
      BY <2>3, <2>5, <2>6, <2>7, <2>8 DEF GroupInv
  <1>4. CASE count # 1
    <2>1. UNCHANGED <<gen, notify, pending, note>> /\ count' = count - 1
      BY <1>4 DEF Leave, LastLeave
    <2>2. TypeOK'
      BY <1>1, <2>1, LeaveCounts DEF TypeOK, wvars
    <2>3. OwedInv' /\ NotifyAfterLeave' /\ WaitMeansLeft'
      BY <1>1, <2>1, <1>2 DEF GroupInv, TypeOK, OwedInv, NotifyAfterLeave, WaitMeansLeft, wvars
    <2>4. ListInv' /\ PendingInv'
      BY <2>1 DEF GroupInv, ListInv, PendingInv
    <2>5. NoNoteStranded'
      BY <1>1, <2>1, <2>2, <1>4 DEF GroupInv, NoNoteStranded, TypeOK
    <2> QED
      BY <2>2, <2>3, <2>4, <2>5 DEF GroupInv
  <1> QED
    BY <1>3, <1>4

LEMMA PushPendingStep ==
  ASSUME GroupInv, NEW t \in Tasks, PushPending(t) PROVE GroupInv'
  <1> DEFINE n == Head(pending[t])
  <1>1. /\ TypeOK /\ pending[t] \in Seq(Notes) /\ pending[t] # <<>>
        /\ UNCHANGED <<count, gen, task, notify, wvars, owed>>
        /\ note' = [note EXCEPT ![n] = "pushed"] /\ pushed' = Append(pushed, n)
        /\ pending' = [pending EXCEPT ![t] = Tail(@)]
    BY DEF GroupInv, TypeOK, PushPending, Push
  <1>2. n \in Notes /\ n = pending[t][1] /\ 1 \in 1 .. Len(pending[t])
    BY <1>1
  <1>3. note[n] \in {"detached", "pushed"}
    BY <1>2 DEF GroupInv, PendingInv
  <1> HIDE DEF n
  <1>4. TypeOK'
    <2>1. pending' \in [Tasks -> Seq(Notes)] /\ pushed' \in Seq(Notes)
      BY <1>1, <1>2 DEF TypeOK
    <2> QED
      BY <1>1, <1>2, <2>1, OthersCount DEF TypeOK, wvars
  <1>5. OwedInv' /\ WaitMeansLeft' /\ NoNoteStranded'
    BY <1>1 DEF GroupInv, OwedInv, WaitMeansLeft, NoNoteStranded, wvars
  <1>6. NotifyAfterLeave'
    BY <1>1, <1>3 DEF GroupInv, TypeOK, NotifyAfterLeave
  <1>7. ListInv'
    BY <1>1, <1>2, <1>3 DEF GroupInv, TypeOK, ListInv
  <1>8. PendingInv'
    <2> SUFFICES ASSUME NEW s \in Tasks, NEW k \in 1 .. Len(pending'[s])
                 PROVE note'[pending'[s][k]] \in {"detached", "pushed"}
      BY DEF PendingInv
    <2>1. \E l \in 1 .. Len(pending[s]) : pending'[s][k] = pending[s][l]
      <3>1. CASE s = t
        <4>1. pending'[s] = Tail(pending[s])
          BY <1>1, <3>1 DEF TypeOK
        <4>2. k + 1 \in 1 .. Len(pending[s]) /\ pending'[s][k] = pending[s][k + 1]
          BY <4>1, <1>1, <3>1
        <4> QED
          BY <4>2
      <3>2. CASE s # t
        BY <3>2, <1>1 DEF TypeOK
      <3> QED
        BY <3>1, <3>2
    <2>2. PICK l \in 1 .. Len(pending[s]) : pending'[s][k] = pending[s][l]
      BY <2>1
    <2>3. pending[s][l] \in Notes /\ note[pending[s][l]] \in {"detached", "pushed"}
      BY <1>1 DEF GroupInv, PendingInv, TypeOK
    <2> QED
      BY <2>2, <2>3, <1>1 DEF TypeOK
  <1> QED
    BY <1>4, <1>5, <1>6, <1>7, <1>8 DEF GroupInv

-----------------------------------------------------------------------------
(***************************************************************************)
(* The two halves of dispatch_group_notify.                                *)
(***************************************************************************)
LEMMA NotifyStep ==
  ASSUME GroupInv, NEW n \in Notes, Notify(n) PROVE GroupInv'
  <1>1. /\ TypeOK /\ note[n] = "new" /\ owed' = [owed EXCEPT ![n] = In]
        /\ UNCHANGED <<count, gen, task, pending, pushed, wvars>>
    BY DEF GroupInv, Notify
  <1>2. /\ \A m \in Notes : m # n => note'[m] = note[m] /\ owed'[m] = owed[m]
        /\ \A w \in Waiters : owed'[w] = owed[w]
        /\ owed'[n] = In
        /\ owed' \in [Notes \cup Waiters -> SUBSET Tasks]
    BY <1>1, GroupAssumption DEF Notify, TypeOK, In
  <1>3. OwedInv'
    BY <1>1, <1>2 DEF GroupInv, OwedInv, In
  <1>4. WaitMeansLeft'
    BY <1>1, <1>2 DEF GroupInv, WaitMeansLeft, wvars
  <1>5. PendingInv'
    <2> SUFFICES ASSUME NEW s \in Tasks, NEW k \in 1 .. Len(pending[s])
                 PROVE note'[pending[s][k]] \in {"detached", "pushed"}
      BY <1>1 DEF PendingInv
    <2>1. note[pending[s][k]] \in {"detached", "pushed"}
      BY DEF GroupInv, PendingInv
    <2>2. pending[s] \in Seq(Notes)
      BY <1>1 DEF TypeOK
    <2>3. pending[s][k] \in Notes
      BY <2>2
    <2>4. pending[s][k] # n
      BY <2>1, <1>1
    <2> QED
      BY <2>1, <2>3, <2>4, <1>2
  <1>6. CASE count = 0
    <2>1. note' = [note EXCEPT ![n] = "fire"] /\ notify' = notify
      BY <1>6 DEF Notify
    <2>2. TypeOK'
      BY <1>1, <1>2, <2>1, OthersCount DEF TypeOK, wvars
    <2>3. In = {}
      BY <1>1, <1>6, NobodyIn
    <2>4. NotifyAfterLeave'
      BY <1>1, <1>2, <2>3 DEF GroupInv, NotifyAfterLeave
    <2>5. ListInv'
      BY <1>1, <2>1 DEF GroupInv, ListInv, TypeOK
    <2>6. NoNoteStranded'
      BY <1>1, <2>1 DEF GroupInv, NoNoteStranded
    <2> QED
      BY <1>3, <1>4, <1>5, <2>2, <2>4, <2>5, <2>6 DEF GroupInv
  <1>7. CASE count # 0
    <2>1. note' = [note EXCEPT ![n] = "listed"] /\ notify' = <<n>> \o notify
      BY <1>7 DEF Notify
    <2>2. TypeOK'
      <3>1. notify' \in Seq(Notes)
        BY <2>1, <1>1 DEF TypeOK
      <3> QED
        BY <1>1, <1>2, <2>1, <3>1, OthersCount DEF TypeOK, wvars
    <2>3. NotifyAfterLeave'
      BY <1>1, <1>2, <2>1 DEF GroupInv, NotifyAfterLeave, TypeOK
    <2>4. ListInv'
      <3> SUFFICES ASSUME NEW k \in 1 .. Len(notify') PROVE note'[notify'[k]] = "listed"
        BY DEF ListInv
      <3>1. notify \in Seq(Notes) /\ note' \in [Notes -> {"new", "listed", "detached", "fire", "pushed"}]
        BY <1>1, <2>2 DEF TypeOK
      <3>2. CASE k = 1
        BY <3>1, <3>2, <2>1, <1>1 DEF TypeOK
      <3>3. CASE k # 1
        <4>1. k - 1 \in 1 .. Len(notify) /\ notify'[k] = notify[k - 1]
          BY <3>1, <3>3, <2>1
        <4>2. notify[k - 1] \in Notes /\ note[notify[k - 1]] = "listed"
          BY <4>1, <3>1 DEF GroupInv, ListInv
        <4> QED
          BY <4>1, <4>2, <2>1, <1>1 DEF TypeOK
      <3> QED
        BY <3>2, <3>3
    <2>5. NoNoteStranded'
      BY <1>1, <1>7 DEF NoNoteStranded, TypeOK
    <2> QED
      BY <1>3, <1>4, <1>5, <2>2, <2>3, <2>4, <2>5 DEF GroupInv
  <1> QED
    BY <1>6, <1>7

LEMMA FireNowStep ==
  ASSUME GroupInv, NEW n \in Notes, FireNow(n) PROVE GroupInv'
  <1>1. /\ TypeOK /\ note[n] = "fire" /\ note' = [note EXCEPT ![n] = "pushed"]
        /\ pushed' = Append(pushed, n)
        /\ UNCHANGED <<count, gen, task, notify, pending, wvars, owed>>
    BY DEF GroupInv, FireNow, Push
  <1>2. TypeOK'
    <2>1. pushed' \in Seq(Notes)
      BY <1>1 DEF TypeOK
    <2> QED
      BY <1>1, <2>1, OthersCount DEF TypeOK, wvars
  <1>3. OwedInv' /\ WaitMeansLeft' /\ NoNoteStranded'
    BY <1>1 DEF GroupInv, OwedInv, WaitMeansLeft, NoNoteStranded, wvars
  <1>4. NotifyAfterLeave' /\ ListInv' /\ PendingInv'
    BY <1>1 DEF GroupInv, TypeOK, NotifyAfterLeave, ListInv, PendingInv
  <1> QED
    BY <1>2, <1>3, <1>4 DEF GroupInv

-----------------------------------------------------------------------------
(***************************************************************************)
(* The steps of a waiter leave everything but the waiter alone.            *)
(***************************************************************************)
LEMMA WaiterStep ==
  ASSUME GroupInv, NEW w \in Waiters,
         CallWait(w) \/ WaitStep(w) \/ DeadlinePasses(w)
  PROVE  GroupInv'
  <1> USE DEF WaitStep, CallWait, WaitZero, WaitSleep, WaitWake, WaitTimeout, DeadlinePasses
  <1>1. TypeOK /\ UNCHANGED <<count, gen, task, nvars>>
    BY DEF GroupInv
  <1>2. /\ \A n \in Notes : owed'[n] = owed[n]
        /\ \A v \in Waiters : v # w => owed'[v] = owed[v] /\ wpc'[v] = wpc[v]
        /\ owed'[w] = owed[w] \/ (owed'[w] = In /\ wpc'[w] = "test")
        /\ owed' \in [Notes \cup Waiters -> SUBSET Tasks]
    <2> w \notin Notes /\ owed \in [Notes \cup Waiters -> SUBSET Tasks]
        /\ wpc \in [Waiters -> {"new", "test", "poll", "zero", "timeout"}]
      BY <1>1, GroupAssumption DEF TypeOK
    <2>1. CASE CallWait(w)
      BY <2>1, <1>1 DEF In
    <2>2. CASE WaitStep(w) \/ DeadlinePasses(w)
      <3>1. owed' = owed
        BY <2>2
      <3>2. \A v \in Waiters : v # w => wpc'[v] = wpc[v]
        BY <2>2
      <3> QED
        BY <3>1, <3>2
    <2> QED
      BY <2>1, <2>2
  <1>3. TypeOK'
    <2>1. /\ wpc' \in [Waiters -> {"new", "test", "poll", "zero", "timeout"}]
          /\ mode' \in [Waiters -> {"now", "forever", "until"}]
      BY <1>1 DEF TypeOK
    <2>2. late' \in [Waiters -> BOOLEAN] /\ gen0' \in [Waiters -> Nat]
      BY <1>1 DEF TypeOK
    <2> QED
      BY <1>1, <1>2, <2>1, <2>2, OthersCount DEF TypeOK, nvars
  <1>4. OwedInv' /\ NotifyAfterLeave'
    BY <1>1, <1>2 DEF GroupInv, OwedInv, NotifyAfterLeave, In, nvars
  <1>5. ListInv' /\ PendingInv' /\ NoNoteStranded'
    BY <1>1 DEF GroupInv, ListInv, PendingInv, NoNoteStranded, nvars
  <1>6. WaitMeansLeft'
    <2> SUFFICES ASSUME NEW v \in Waiters, wpc'[v] = "zero", NEW t \in owed'[v]
                 PROVE task'[t] = "left"
      BY DEF WaitMeansLeft
    <2>1. CASE v # w \/ wpc[v] = "zero"
      BY <2>1, <1>1, <1>2 DEF GroupInv, WaitMeansLeft
    <2>2. CASE v = w /\ wpc[w] # "zero"
      <3>1. owed'[w] = owed[w] /\ count <= 0
        BY <2>2, <1>1, <1>2 DEF TypeOK
      <3>2. In = {}
        BY <3>1, <1>1, NobodyIn DEF TypeOK
      <3>3. t \in Tasks /\ task[t] # "out"
        BY <2>2, <3>1, <1>1 DEF GroupInv, TypeOK, OwedInv
      <3> QED
        BY <3>2, <3>3, <1>1 DEF In, TypeOK
    <2> QED
      BY <2>1, <2>2
  <1> QED
    BY <1>3, <1>4, <1>5, <1>6 DEF GroupInv

-----------------------------------------------------------------------------
(***************************************************************************)
(* The invariant holds of every behaviour of the code.                     *)
(***************************************************************************)
THEOREM GroupInvariance == Spec => []GroupInv
  <1>1. Init => GroupInv
    BY InitGroup
  <1>2. GroupInv /\ [Next]_vars => GroupInv'
    <2> SUFFICES ASSUME GroupInv, [Next]_vars PROVE GroupInv'
      OBVIOUS
    <2>1. CASE \E t \in Tasks : Enter(t) \/ Leave(t) \/ PushPending(t)
      BY <2>1, EnterStep, LeaveStep, PushPendingStep
    <2>2. CASE \E n \in Notes : Notify(n) \/ FireNow(n)
      BY <2>2, NotifyStep, FireNowStep
    <2>3. CASE \E w \in Waiters : CallWait(w) \/ WaitStep(w) \/ DeadlinePasses(w)
      BY <2>3, WaiterStep
    <2>4. CASE UNCHANGED vars
      <3>1. TypeOK'
        BY <2>4, OthersCount DEF GroupInv, TypeOK, vars, nvars, wvars
      <3>2. OwedInv' /\ ListInv' /\ PendingInv'
        BY <2>4 DEF GroupInv, OwedInv, ListInv, PendingInv, vars, nvars, wvars
      <3>3. NotifyAfterLeave' /\ NoNoteStranded' /\ WaitMeansLeft'
        BY <2>4 DEF GroupInv, NotifyAfterLeave, NoNoteStranded, WaitMeansLeft,
                    vars, nvars, wvars
      <3> QED
        BY <3>1, <3>2, <3>3 DEF GroupInv
    <2> QED
      BY <2>1, <2>2, <2>3, <2>4 DEF Next
  <1> QED
    BY <1>1, <1>2, PTL DEF Spec

(***************************************************************************)
(* No notify block is pushed before every task that was in the group when  *)
(* it was registered has left, and none is left on an empty group.         *)
(***************************************************************************)
THEOREM NotifyIsSound == Spec => [](NotifyAfterLeave /\ NoNoteStranded)
  <1>1. GroupInv => NotifyAfterLeave /\ NoNoteStranded
    BY DEF GroupInv
  <1> QED
    BY <1>1, GroupInvariance, PTL

(***************************************************************************)
(* dispatch_group_wait returns 0 only when every task that was in at the   *)
(* call has left.                                                          *)
(***************************************************************************)
THEOREM WaitIsSound == Spec => []WaitMeansLeft
  <1>1. GroupInv => WaitMeansLeft
    BY DEF GroupInv
  <1> QED
    BY <1>1, GroupInvariance, PTL

(***************************************************************************)
(* The group's count and its list of notifies agree with what the tasks    *)
(* and the notify blocks are doing: the balance dispatch_group_leave       *)
(* decrements is the number of tasks that are in, never an underflow.      *)
(***************************************************************************)
THEOREM GroupTypeCorrect == Spec => []TypeOK
  <1>1. GroupInv => TypeOK
    BY DEF GroupInv
  <1> QED
    BY <1>1, GroupInvariance, PTL
=============================================================================
