----------------------- MODULE PthreadLifecycleProofs -----------------------
(***************************************************************************)
(* Proofs about PthreadLifecycle, for any number of creates and any set of *)
(* stacks.  The argument: a thread whose struct and stack exist is kept in *)
(* one place, which is the list, the list of dead of one create, or the    *)
(* hands of the one thread that creates or joins it; no two kept threads   *)
(* have the same stack; and who frees a thread was the only one to keep    *)
(* it.  A thread that runs is on the list, because only a finished thread  *)
(* that was detached is taken off by a create and only a finished one that *)
(* was not by its joiner.                                                  *)
(***************************************************************************)
EXTENDS PthreadLifecycle, TLAPS

\* In a call of pthread_create or pthread_join, about the thread other[a].
Busy == {a \in Threads : pc[a] \in Creating \cup {"join"} \cup Releasing}

\* The struct and the stack exist, and this is where they are found.
Kept(t) ==
    \/ t \in g_list
    \/ \E a \in Threads : t \in dead[a]
    \/ \E a \in Threads : pc[a] \in {"register", "munmap"} /\ other[a] = t

\* No two calls are about the same thread, nor about one a client may join.
BusyInv ==
    \A a \in Busy :
        /\ other[a] \in Created
        /\ other[a] <= creates
        /\ other[a] \notin joinable
        /\ \A b \in Busy : other[a] = other[b] => a = b

\* What is known of other[a] at each step of a's call.
CallFacts(a) ==
    /\ pc[a] \in Creating => pc[other[a]] = "new" /\ freed[other[a]] = 0
    /\ pc[a] \in Creating \ {"register", "bsdcreate"} => ~Kept(other[a])
    /\ pc[a] \in {"bsdcreate", "join", "unregister"} => other[a] \in g_list
    /\ pc[a] \in {"register", "munmap"} => other[a] \notin g_list
    /\ pc[a] = "join" => ~detached[other[a]]
    /\ pc[a] \in Releasing =>
         pc[other[a]] = "new" \/ (finished[other[a]] /\ ~detached[other[a]])

CallInv == \A a \in Threads : CallFacts(a)

\* What is known of a thread by the point it has reached itself.
LifeFacts(t) ==
    /\ t \in joinable => t \in g_list /\ ~detached[t]
    /\ finished[t] <=> pc[t] \in {"terminate", "gone"}
    /\ Running(t) => t \in g_list
    /\ t > creates => pc[t] = "new" /\ freed[t] = 0 /\ ~Kept(t)

LifeInv == \A t \in Created : LifeFacts(t)

\* Those a create has taken off the list to free them.
DeadInv ==
    \A a \in Threads : \A t \in dead[a] :
        /\ Reapable(t)
        /\ t \notin g_list
        /\ \A b \in Threads : t \in dead[b] => a = b

FreedInv == \A t \in Created : freed[t] <= 1 /\ (freed[t] = 1 => ~Kept(t))

StackInv ==
    \A t \in Created : Kept(t) =>
        /\ stack[t] \in mapped
        /\ \A u \in Created : Kept(u) /\ stack[u] = stack[t] => u = t

LifecycleInv ==
    /\ TypeOK
    /\ BusyInv
    /\ CallInv
    /\ LifeInv
    /\ DeadInv
    /\ FreedInv
    /\ StackInv

USE LifecycleAssumption DEF LifecycleAssumption, Created, Threads, Main

LEMMA InitLifecycle == Init => LifecycleInv
  <1> SUFFICES ASSUME Init PROVE LifecycleInv
    OBVIOUS
  <1>1. TypeOK
    <2>1. (CHOOSE s \in Stacks : TRUE) \in Stacks
      OBVIOUS
    <2>2. stack \in [Created -> Stacks]
      BY <2>1 DEF Init
    <2>3. pc \in [Threads -> PC]
      BY DEF Init, PC
    <2>4. other \in [Threads -> Threads] /\ dead \in [Threads -> SUBSET Created]
      BY DEF Init
    <2>5. /\ detached \in [Created -> BOOLEAN]
          /\ finished \in [Created -> BOOLEAN]
          /\ freed \in [Created -> Nat]
      BY DEF Init
    <2>6. /\ g_reg_state \in 0 .. 3 /\ g_list \subseteq Created /\ mapped \subseteq Stacks
          /\ joinable \subseteq g_list /\ creates \in 0 .. MaxCreates
      BY DEF Init
    <2> QED
      BY <2>2, <2>3, <2>4, <2>5, <2>6 DEF TypeOK
  <1>2. \A t \in Created : ~Kept(t)
    BY DEF Init, Kept
  <1>3. Busy = {}
    BY DEF Init, Busy, Creating, Releasing
  <1>4. BusyInv /\ CallInv
    BY <1>3 DEF Init, BusyInv, CallInv, CallFacts, Creating, Releasing
  <1>5. LifeInv /\ DeadInv /\ FreedInv /\ StackInv
    BY <1>2 DEF Init, LifeInv, LifeFacts, DeadInv, FreedInv, StackInv, Running
  <1> QED
    BY <1>1, <1>4, <1>5 DEF LifecycleInv

-----------------------------------------------------------------------------
(***************************************************************************)
(* Most steps of a thread touch neither the struct nor the stack of        *)
(* another one, nor that of the thread their call is about.                *)
(***************************************************************************)
Undisturbed(u) ==
    /\ pc'[u] = "new" <=> pc[u] = "new"
    /\ Running(u)' <=> Running(u)
    /\ UNCHANGED <<freed[u], detached[u], finished[u]>>
    /\ u \in g_list' <=> u \in g_list
    /\ Kept(u)' <=> Kept(u)

LEMMA CallUndisturbed ==
  ASSUME CallInv, NEW b \in Threads, pc'[b] = pc[b], other'[b] = other[b],
         b \in Busy => Undisturbed(other[b])
  PROVE  CallFacts(b)'
  <1>1. CASE b \in Busy
    BY <1>1 DEF CallInv, CallFacts, Undisturbed
  <1>2. CASE b \notin Busy
    BY <1>2 DEF CallFacts, Busy, Creating, Releasing
  <1> QED
    BY <1>1, <1>2

LEMMA LifeUndisturbed ==
  ASSUME LifeInv, NEW t \in Created, Undisturbed(t),
         t \in joinable' => t \in joinable, t > creates' => t > creates
  PROVE  LifeFacts(t)'
  BY DEF LifeInv, LifeFacts, Undisturbed, Running

\* A step of a's that disturbs nobody keeps all that is not about a's call.
LEMMA QuietStep ==
  ASSUME LifecycleInv, TypeOK', NEW a \in Threads,
         \A u \in Created : Undisturbed(u),
         \A b \in Threads \ {a} : pc'[b] = pc[b] /\ other'[b] = other[b],
         CallFacts(a)',
         UNCHANGED <<stack, mapped, dead, creates>>, joinable' \subseteq joinable,
         BusyInv'
  PROVE  LifecycleInv'
  <1>1. CallInv'
    <2> SUFFICES ASSUME NEW b \in Threads \ {a} PROVE CallFacts(b)'
      BY DEF CallInv
    <2>1. b \in Busy => other[b] \in Created
      BY DEF LifecycleInv, BusyInv
    <2> QED
      BY <2>1, CallUndisturbed DEF LifecycleInv
  <1>2. LifeInv'
    <2> SUFFICES ASSUME NEW t \in Created PROVE LifeFacts(t)'
      BY DEF LifeInv
    <2> QED
      BY LifeUndisturbed DEF LifecycleInv
  <1>3. DeadInv' /\ FreedInv' /\ StackInv'
    <2>1. \A b \in Threads : dead[b] \subseteq Created
      BY DEF LifecycleInv, TypeOK
    <2> QED
      BY <2>1 DEF LifecycleInv, DeadInv, FreedInv, StackInv, Undisturbed, Reapable
  <1> QED
    BY <1>1, <1>2, <1>3 DEF LifecycleInv

-----------------------------------------------------------------------------
(***************************************************************************)
(* Each action keeps the invariant.                                        *)
(***************************************************************************)
LEMMA EnsureStep ==
  ASSUME LifecycleInv, NEW a \in Threads, Ensure(a) PROVE LifecycleInv'
  <1>1. TypeOK /\ CallFacts(a) /\ a \in Busy
    BY DEF LifecycleInv, CallInv, Ensure, Busy, Creating
  <1>2. PICK p \in {"bsdregister", "reap", "run"} : pc' = [pc EXCEPT ![a] = p]
    BY DEF Ensure, Go
  <1>3. /\ pc[a] = "ensure"
        /\ UNCHANGED <<g_list, stack, detached, finished, freed, mapped, other, dead,
                       joinable, creates>>
    BY DEF Ensure
  <1>4. TypeOK'
    BY <1>1, <1>2 DEF TypeOK, PC, Creating, Ensure, RegistrationEnded
  <1>5. \A u \in Created : Kept(u)' <=> Kept(u)
    BY <1>1, <1>2, <1>3 DEF TypeOK, Kept
  <1>6. \A u \in Created : Undisturbed(u)
    BY <1>1, <1>2, <1>3, <1>5 DEF TypeOK, Undisturbed, Running
  <1>7. CallFacts(a)'
    <2>1. other[a] \in Created
      BY <1>1 DEF LifecycleInv, BusyInv
    <2> QED
      BY <2>1, <1>1, <1>2, <1>3, <1>6 DEF TypeOK, CallFacts, Undisturbed, Creating, Releasing
  <1>8. BusyInv'
    BY <1>1, <1>2, <1>3 DEF LifecycleInv, TypeOK, BusyInv, Busy, Creating, Releasing
  <1>9. \A b \in Threads \ {a} : pc'[b] = pc[b] /\ other'[b] = other[b]
    BY <1>1, <1>2, <1>3 DEF TypeOK
  <1> QED
    BY <1>3, <1>4, <1>6, <1>7, <1>8, <1>9, QuietStep

LEMMA BsdRegisterStep ==
  ASSUME LifecycleInv, NEW a \in Threads, BsdRegister(a) PROVE LifecycleInv'
  <1>1. TypeOK /\ CallFacts(a) /\ a \in Busy
    BY DEF LifecycleInv, CallInv, BsdRegister, Busy, Creating
  <1>2. PICK p \in {"reap", "run"} : pc' = [pc EXCEPT ![a] = p]
    BY DEF BsdRegister, Go
  <1>3. /\ pc[a] = "bsdregister"
        /\ UNCHANGED <<g_list, stack, detached, finished, freed, mapped, other, dead,
                       joinable, creates>>
    BY DEF BsdRegister
  <1>4. TypeOK'
    BY <1>1, <1>2 DEF TypeOK, PC, Creating, BsdRegister
  <1>5. \A u \in Created : Kept(u)' <=> Kept(u)
    BY <1>1, <1>2, <1>3 DEF TypeOK, Kept
  <1>6. \A u \in Created : Undisturbed(u)
    BY <1>1, <1>2, <1>3, <1>5 DEF TypeOK, Undisturbed, Running
  <1>7. CallFacts(a)'
    <2>1. other[a] \in Created
      BY <1>1 DEF LifecycleInv, BusyInv
    <2> QED
      BY <2>1, <1>1, <1>2, <1>3, <1>6 DEF TypeOK, CallFacts, Undisturbed, Creating, Releasing
  <1>8. BusyInv'
    BY <1>1, <1>2, <1>3 DEF LifecycleInv, TypeOK, BusyInv, Busy, Creating, Releasing
  <1>9. \A b \in Threads \ {a} : pc'[b] = pc[b] /\ other'[b] = other[b]
    BY <1>1, <1>2, <1>3 DEF TypeOK
  <1> QED
    BY <1>3, <1>4, <1>6, <1>7, <1>8, <1>9, QuietStep

\* The thread joined is joinable no more, so nobody else can join it.
LEMMA CallJoinStep ==
  ASSUME LifecycleInv, NEW a \in Threads, CallJoin(a) PROVE LifecycleInv'
  <1>1. TypeOK /\ BusyInv /\ LifeInv
    BY DEF LifecycleInv
  <1>2. PICK t \in joinable : /\ joinable' = joinable \ {t}
                              /\ other' = [other EXCEPT ![a] = t]
    BY DEF CallJoin
  <1>3. /\ pc[a] = "run" /\ pc' = [pc EXCEPT ![a] = "join"]
        /\ UNCHANGED <<library, dead, creates>>
    BY DEF CallJoin, Go
  <1>4. t \in Created /\ t \in g_list /\ ~detached[t] /\ t <= creates
    <2>1. t \in Created /\ creates \in Nat
      BY <1>1 DEF TypeOK
    <2>2. t \in g_list /\ ~detached[t] /\ (t > creates => ~Kept(t))
      BY <1>1, <2>1 DEF LifeInv, LifeFacts
    <2> QED
      BY <2>1, <2>2 DEF Kept
  <1>5. TypeOK'
    BY <1>1, <1>2, <1>3, <1>4 DEF TypeOK, PC, library
  <1>6. \A u \in Created : Kept(u)' <=> Kept(u)
    BY <1>1, <1>2, <1>3 DEF TypeOK, Kept, library
  <1>7. \A u \in Created : Undisturbed(u)
    BY <1>1, <1>3, <1>6 DEF TypeOK, Undisturbed, Running, library
  <1>8. CallFacts(a)'
    BY <1>1, <1>2, <1>3, <1>4 DEF TypeOK, CallFacts, Creating, Releasing, library
  <1>9. BusyInv'
    <2>1. Busy' = Busy \cup {a} /\ a \notin Busy
      BY <1>1, <1>3 DEF TypeOK, Busy, Creating, Releasing
    <2>2. \A b \in Busy : other[b] # t /\ other'[b] = other[b]
      BY <1>1, <1>2, <2>1 DEF TypeOK, BusyInv, Busy
    <2>3. other'[a] = t /\ UNCHANGED creates
      BY <1>1, <1>2, <1>3 DEF TypeOK
    <2> QED
      BY <2>1, <2>2, <2>3, <1>1, <1>2, <1>4 DEF BusyInv
  <1>10. \A b \in Threads \ {a} : pc'[b] = pc[b] /\ other'[b] = other[b]
    BY <1>1, <1>2, <1>3 DEF TypeOK
  <1> QED
    BY <1>2, <1>3, <1>5, <1>7, <1>8, <1>9, <1>10, QuietStep DEF library

LEMMA JoinSeesEndStep ==
  ASSUME LifecycleInv, NEW a \in Threads, JoinSeesEnd(a) PROVE LifecycleInv'
  <1>1. TypeOK /\ CallFacts(a) /\ a \in Busy
    BY DEF LifecycleInv, CallInv, JoinSeesEnd, Busy
  <1>2. /\ pc[a] = "join" /\ pc' = [pc EXCEPT ![a] = "unregister"] /\ finished[other[a]]
        /\ UNCHANGED <<library, other, dead, joinable, creates>>
    BY DEF JoinSeesEnd, Go
  <1>3. TypeOK'
    BY <1>1, <1>2 DEF TypeOK, PC, Releasing, library
  <1>4. \A u \in Created : Kept(u)' <=> Kept(u)
    BY <1>1, <1>2 DEF TypeOK, Kept, library
  <1>5. \A u \in Created : Undisturbed(u)
    BY <1>1, <1>2, <1>4 DEF TypeOK, Undisturbed, Running, library
  <1>6. CallFacts(a)'
    BY <1>1, <1>2 DEF TypeOK, CallFacts, Creating, Releasing, library
  <1>7. BusyInv'
    BY <1>1, <1>2 DEF LifecycleInv, TypeOK, BusyInv, Busy, Creating, Releasing
  <1>8. \A b \in Threads \ {a} : pc'[b] = pc[b] /\ other'[b] = other[b]
    BY <1>1, <1>2 DEF TypeOK
  <1> QED
    BY <1>2, <1>3, <1>5, <1>6, <1>7, <1>8, QuietStep DEF library

\* Neither the return of the start routine nor the end on the stack is seen.
LEMMA ReturnStep ==
  ASSUME LifecycleInv, NEW a \in Threads, Return(a) \/ Terminate(a) PROVE LifecycleInv'
  <1>1. TypeOK /\ CallInv
    BY DEF LifecycleInv
  <1>2. PICK p \in {"finish", "gone"} : pc' = [pc EXCEPT ![a] = p]
    BY DEF Return, Terminate, Go
  <1>3. /\ pc[a] = IF p = "finish" THEN "run" ELSE "terminate"
        /\ UNCHANGED <<library, other, dead, joinable, creates>>
    BY <1>1, <1>2 DEF TypeOK, Return, Terminate, Go
  <1>4. TypeOK'
    BY <1>1, <1>2, <1>3 DEF TypeOK, PC, library
  <1>5. \A u \in Created : Kept(u)' <=> Kept(u)
    BY <1>1, <1>2, <1>3 DEF TypeOK, Kept, library
  <1>6. \A u \in Created : Undisturbed(u)
    BY <1>1, <1>2, <1>3, <1>5 DEF TypeOK, Undisturbed, Running, library
  <1>7. CallFacts(a)'
    BY <1>1, <1>2 DEF TypeOK, CallFacts, Creating, Releasing
  <1>8. BusyInv'
    BY <1>1, <1>2, <1>3 DEF LifecycleInv, TypeOK, BusyInv, Busy, Creating, Releasing
  <1>9. \A b \in Threads \ {a} : pc'[b] = pc[b] /\ other'[b] = other[b]
    BY <1>1, <1>2, <1>3 DEF TypeOK
  <1> QED
    BY <1>3, <1>4, <1>6, <1>7, <1>8, <1>9, QuietStep DEF library

\* The new thread's number has not been used before.
LEMMA CallCreateStep ==
  ASSUME LifecycleInv, NEW a \in Threads, CallCreate(a) PROVE LifecycleInv'
  <1>1. TypeOK /\ BusyInv /\ CallInv /\ LifeInv
    BY DEF LifecycleInv
  <1>2. creates \in 0 .. MaxCreates - 1
    BY <1>1 DEF TypeOK, CallCreate
  <1>3. PICK n \in Created : n = creates + 1
    BY <1>2
  <1>4. PICK d \in BOOLEAN : detached' = [detached EXCEPT ![n] = d]
    BY <1>3 DEF CallCreate
  <1>5. /\ pc[a] = "run" /\ pc' = [pc EXCEPT ![a] = "ensure"]
        /\ other' = [other EXCEPT ![a] = n]
        /\ creates' = n
        /\ UNCHANGED <<g_reg_state, g_list, stack, finished, freed, mapped, dead, joinable>>
    BY <1>3 DEF CallCreate, Go
  <1>6. /\ pc[n] = "new" /\ freed[n] = 0 /\ ~Kept(n) /\ ~finished[n] /\ n \notin joinable
        /\ \A b \in Busy : other[b] # n
        /\ a # n
    <2>1. n > creates
      BY <1>2, <1>3
    <2>2. pc[n] = "new" /\ freed[n] = 0 /\ ~Kept(n) /\ ~finished[n]
      BY <1>1, <2>1 DEF LifeInv, LifeFacts
    <2>3. n \notin joinable
      BY <1>1, <2>2 DEF TypeOK, Kept
    <2>4. \A b \in Busy : other[b] # n
      BY <1>1, <1>2, <2>1 DEF BusyInv
    <2> QED
      BY <2>2, <2>3, <2>4, <1>5
  <1>7. TypeOK'
    BY <1>1, <1>3, <1>4, <1>5 DEF TypeOK, PC, Creating
  <1>8. \A u \in Created : Kept(u)' <=> Kept(u)
    BY <1>1, <1>5 DEF TypeOK, Kept
  <1>9. \A u \in Created \ {n} : Undisturbed(u)
    BY <1>1, <1>4, <1>5, <1>8 DEF TypeOK, Undisturbed, Running
  <1>10. BusyInv'
    <2>1. Busy' = Busy \cup {a} /\ a \notin Busy
      BY <1>1, <1>5 DEF TypeOK, Busy, Creating, Releasing
    <2>2. other'[a] = n /\ \A b \in Busy : other'[b] = other[b]
      BY <1>1, <1>5, <2>1 DEF TypeOK, Busy
    <2>3. \A b \in Busy : other[b] \in Created /\ other[b] <= creates /\ other[b] <= n
      BY <1>1, <1>2, <1>3 DEF BusyInv
    <2> QED
      BY <2>1, <2>2, <2>3, <1>1, <1>5, <1>6 DEF BusyInv
  <1>11. CallInv'
    <2> SUFFICES ASSUME NEW b \in Threads PROVE CallFacts(b)'
      BY DEF CallInv
    <2>1. CASE b = a
      <3>1. pc'[a] = "ensure" /\ other'[a] = n /\ pc'[n] = "new" /\ freed'[n] = 0 /\ ~Kept(n)'
        BY <1>1, <1>5, <1>6, <1>8 DEF TypeOK
      <3> QED
        BY <2>1, <3>1 DEF CallFacts, Creating, Releasing
    <2>2. CASE b # a
      BY <2>2, <1>1, <1>5, <1>6, <1>9, CallUndisturbed DEF TypeOK, BusyInv
    <2> QED
      BY <2>1, <2>2
  <1>12. LifeInv'
    <2> SUFFICES ASSUME NEW t \in Created PROVE LifeFacts(t)'
      BY DEF LifeInv
    <2>1. CASE t = n
      <3>1. pc'[n] = "new" /\ ~(n > n)
        BY <1>1, <1>5, <1>6 DEF TypeOK
      <3> QED
        BY <2>1, <3>1, <1>5, <1>6 DEF LifeFacts, Running
    <2>2. CASE t # n
      BY <2>2, <1>1, <1>2, <1>3, <1>5, <1>9, LifeUndisturbed
    <2> QED
      BY <2>1, <2>2
  <1>13. DeadInv'
    <2>1. \A b \in Threads : n \notin dead[b]
      BY <1>6 DEF Kept
    <2> QED
      BY <2>1, <1>1, <1>4, <1>5 DEF LifecycleInv, TypeOK, DeadInv, Reapable
  <1>14. FreedInv' /\ StackInv'
    BY <1>5, <1>8 DEF LifecycleInv, FreedInv, StackInv
  <1> QED
    BY <1>7, <1>10, <1>11, <1>12, <1>13, <1>14 DEF LifecycleInv

\* A finished thread was running, so no call but a join is about it.
LEMMA FinishStep ==
  ASSUME LifecycleInv, NEW a \in Threads, Finish(a) PROVE LifecycleInv'
  <1>1. TypeOK /\ BusyInv /\ CallInv /\ LifeInv
    BY DEF LifecycleInv
  <1>2. /\ pc[a] = "finish" /\ pc' = [pc EXCEPT ![a] = "terminate"]
        /\ finished' = [finished EXCEPT ![a] = TRUE]
        /\ UNCHANGED <<g_reg_state, g_list, stack, detached, freed, mapped, other, dead,
                       joinable, creates>>
    BY DEF Finish, Go
  <1>3. TypeOK'
    BY <1>1, <1>2 DEF TypeOK, PC
  <1>4. \A u \in Created : Kept(u)' <=> Kept(u)
    BY <1>1, <1>2 DEF TypeOK, Kept
  <1>5. BusyInv'
    BY <1>1, <1>2 DEF TypeOK, BusyInv, Busy, Creating, Releasing
  <1>6. CallInv'
    <2> SUFFICES ASSUME NEW b \in Threads PROVE CallFacts(b)'
      BY DEF CallInv
    <2>1. CASE b = a
      BY <2>1, <1>1, <1>2 DEF TypeOK, CallFacts, Creating, Releasing
    <2>2. CASE b # a /\ other[b] # a
      BY <2>2, <1>1, <1>2, <1>4, CallUndisturbed DEF TypeOK, BusyInv, Undisturbed, Running
    <2>3. CASE b # a /\ other[b] = a
      <3>1. pc'[b] = pc[b] /\ other'[b] = a /\ pc'[a] # "new"
        BY <2>3, <1>1, <1>2 DEF TypeOK
      <3>2. CallFacts(b) /\ ~(pc[b] \in Creating)
        BY <2>3, <1>1, <1>2 DEF CallInv, CallFacts
      <3>3. CASE b \in Busy
        <4>1. a \in Created /\ ~finished[a]
          BY <2>3, <3>3, <1>1, <1>2 DEF BusyInv, LifeInv, LifeFacts
        <4> QED
          BY <2>3, <3>1, <3>2, <4>1, <1>2 DEF CallFacts, Creating, Releasing
      <3>4. CASE b \notin Busy
        BY <3>1, <3>4 DEF CallFacts, Busy, Creating, Releasing
      <3> QED
        BY <3>3, <3>4
    <2> QED
      BY <2>1, <2>2, <2>3
  <1>7. LifeInv'
    BY <1>1, <1>2, <1>4 DEF TypeOK, LifeInv, LifeFacts, Running
  <1>8. DeadInv' /\ FreedInv' /\ StackInv'
    BY <1>1, <1>2, <1>4 DEF LifecycleInv, TypeOK, DeadInv, FreedInv, StackInv, Reapable
  <1> QED
    BY <1>3, <1>5, <1>6, <1>7, <1>8 DEF LifecycleInv

LEMMA DetachStep ==
  ASSUME LifecycleInv, NEW a \in Threads, Detach(a) PROVE LifecycleInv'
  <1>1. TypeOK /\ BusyInv /\ CallInv /\ LifeInv
    BY DEF LifecycleInv
  <1>2. PICK t \in joinable : /\ joinable' = joinable \ {t}
                              /\ detached' = [detached EXCEPT ![t] = TRUE]
    BY DEF Detach
  <1>3. UNCHANGED <<g_reg_state, g_list, stack, finished, freed, mapped, pc, other, dead, creates>>
    BY DEF Detach
  <1>4. t \in Created
    BY <1>1 DEF TypeOK
  <1>5. TypeOK'
    BY <1>1, <1>2, <1>3, <1>4 DEF TypeOK
  <1>6. \A u \in Created : Kept(u)' <=> Kept(u)
    BY <1>3 DEF Kept
  <1>7. \A u \in Created \ {t} : Undisturbed(u)
    BY <1>1, <1>2, <1>3, <1>6 DEF TypeOK, Undisturbed, Running
  <1>8. BusyInv'
    BY <1>1, <1>2, <1>3 DEF BusyInv, Busy
  <1>9. CallInv'
    <2> SUFFICES ASSUME NEW b \in Threads PROVE CallFacts(b)'
      BY DEF CallInv
    <2>1. b \in Busy => other[b] \in Created \ {t}
      BY <1>1 DEF BusyInv
    <2> QED
      BY <2>1, <1>1, <1>3, <1>7, CallUndisturbed
  <1>10. LifeInv'
    BY <1>1, <1>2, <1>3, <1>6 DEF TypeOK, LifeInv, LifeFacts, Running
  <1>11. DeadInv' /\ FreedInv' /\ StackInv'
    BY <1>1, <1>2, <1>3, <1>4, <1>6 DEF LifecycleInv, TypeOK, DeadInv, FreedInv, StackInv, Reapable
  <1> QED
    BY <1>5, <1>8, <1>9, <1>10, <1>11 DEF LifecycleInv

-----------------------------------------------------------------------------
(***************************************************************************)
(* The actions that move a struct and a stack.                             *)
(***************************************************************************)
\* Off the list and into the hands of one create.
LEMMA ReapStep ==
  ASSUME LifecycleInv, NEW a \in Threads, Reap(a) PROVE LifecycleInv'
  <1> DEFINE Dead == {t \in g_list : Reapable(t)}
  <1>1. TypeOK /\ BusyInv /\ CallInv /\ LifeInv /\ DeadInv
    BY DEF LifecycleInv
  <1>2. /\ pc[a] = "reap" /\ pc' = [pc EXCEPT ![a] = "release"]
        /\ dead' = [dead EXCEPT ![a] = Dead]
        /\ g_list' = g_list \ Dead
        /\ UNCHANGED <<g_reg_state, stack, detached, finished, freed, mapped, other,
                       joinable, creates>>
    BY DEF Reap, Go
  <1>3. \A t \in joinable : t \in g_list /\ ~Reapable(t)
    BY <1>1 DEF TypeOK, LifeInv, LifeFacts, Reapable
  <1>4. TypeOK'
    BY <1>1, <1>2, <1>3 DEF TypeOK, PC, Creating
  <1>5. \A u \in Created : Kept(u)' => Kept(u)
    BY <1>1, <1>2 DEF TypeOK, Kept
  <1>6. \A u \in Created : ~Reapable(u) => Undisturbed(u)
    <2> SUFFICES ASSUME NEW u \in Created, ~Reapable(u) PROVE Undisturbed(u)
      OBVIOUS
    <2>1. u \in g_list' <=> u \in g_list
      BY <1>2
    <2>2. \A b \in Threads : u \notin dead[b]
      BY <1>1 DEF DeadInv
    <2>3. Kept(u) => Kept(u)'
      BY <2>1, <2>2, <1>1, <1>2 DEF TypeOK, Kept
    <2> QED
      BY <2>1, <2>3, <1>1, <1>2, <1>5 DEF TypeOK, Undisturbed, Running
  <1>7. \A b \in Busy : ~Reapable(other[b])
    BY <1>1 DEF BusyInv, CallInv, CallFacts, LifeInv, LifeFacts, Busy, Reapable, Releasing
  <1>8. BusyInv'
    BY <1>1, <1>2 DEF TypeOK, BusyInv, Busy, Creating, Releasing
  <1>9. CallInv'
    <2> SUFFICES ASSUME NEW b \in Threads PROVE CallFacts(b)'
      BY DEF CallInv
    <2>1. CASE b = a
      <3>1. a \in Busy /\ CallFacts(a) /\ other[a] \in Created
        BY <1>1, <1>2 DEF CallInv, BusyInv, Busy, Creating
      <3>2. Undisturbed(other[a])
        BY <3>1, <1>6, <1>7
      <3> QED
        BY <2>1, <3>1, <3>2, <1>1, <1>2 DEF TypeOK, CallFacts, Undisturbed, Creating, Releasing
    <2>2. CASE b # a
      BY <2>2, <1>1, <1>2, <1>6, <1>7, CallUndisturbed DEF TypeOK, BusyInv
    <2> QED
      BY <2>1, <2>2
  <1>10. LifeInv'
    BY <1>1, <1>2, <1>3, <1>5 DEF TypeOK, LifeInv, LifeFacts, Running, Reapable
  <1>11. DeadInv'
    BY <1>1, <1>2 DEF TypeOK, DeadInv, Reapable
  <1>12. FreedInv' /\ StackInv'
    BY <1>2, <1>5 DEF LifecycleInv, FreedInv, StackInv
  <1> QED
    BY <1>4, <1>8, <1>9, <1>10, <1>11, <1>12 DEF LifecycleInv

\* What freeing a thread does that was kept and is so no more.
LEMMA FreeKept ==
  ASSUME LifecycleInv, NEW t \in Created, Kept(t), Free(t), ~Kept(t)',
         \A u \in Created : Kept(u)' => Kept(u), UNCHANGED stack
  PROVE  FreedInv' /\ StackInv' /\ freed' \in [Created -> Nat]
  <1>1. TypeOK /\ FreedInv /\ StackInv
    BY DEF LifecycleInv
  <1>2. freed[t] = 0
    BY <1>1 DEF TypeOK, FreedInv
  <1>3. freed' \in [Created -> Nat] /\ freed'[t] = 1 /\ \A u \in Created \ {t} : freed'[u] = freed[u]
    BY <1>1, <1>2 DEF TypeOK, Free
  <1>4. FreedInv'
    BY <1>1, <1>3 DEF FreedInv
  <1>5. StackInv'
    BY <1>1 DEF StackInv, Free
  <1> QED
    BY <1>3, <1>4, <1>5

\* Freed by the create that holds it: no other has it, and no call is about it.
LEMMA ReleaseDeadStep ==
  ASSUME LifecycleInv, NEW a \in Threads, ReleaseDead(a) PROVE LifecycleInv'
  <1>1. TypeOK /\ BusyInv /\ CallInv /\ LifeInv /\ DeadInv
    BY DEF LifecycleInv
  <1>2. PICK t \in dead[a] : Free(t) /\ dead' = [dead EXCEPT ![a] = @ \ {t}]
    BY DEF ReleaseDead, Rest
  <1>3. /\ pc[a] = "release"
        /\ UNCHANGED <<g_reg_state, g_list, stack, detached, finished, pc, other,
                       joinable, creates>>
    BY DEF ReleaseDead
  <1>4. /\ t \in Created /\ Reapable(t) /\ t \notin g_list /\ Kept(t)
        /\ \A b \in Threads \ {a} : t \notin dead[b]
    BY <1>1, <1>2 DEF TypeOK, DeadInv, Kept
  <1>5. \A b \in Busy : other[b] # t
    BY <1>1, <1>4 DEF BusyInv, CallInv, CallFacts, LifeInv, LifeFacts, Busy, Reapable, Releasing
  <1>6. ~Kept(t)'
    <2>1. \A b \in Threads : t \notin dead'[b]
      BY <1>1, <1>2, <1>4 DEF TypeOK
    <2> QED
      BY <2>1, <1>3, <1>4, <1>5 DEF Kept, Busy, Creating, Releasing
  <1>7. \A u \in Created \ {t} : Kept(u)' <=> Kept(u)
    BY <1>1, <1>2, <1>3 DEF TypeOK, Kept
  <1>8. FreedInv' /\ StackInv' /\ freed' \in [Created -> Nat]
    BY <1>2, <1>3, <1>4, <1>6, <1>7, FreeKept
  <1>9. TypeOK'
    BY <1>1, <1>2, <1>3, <1>8 DEF TypeOK, Free
  <1>10. \A u \in Created \ {t} : Undisturbed(u)
    BY <1>1, <1>2, <1>3, <1>7 DEF TypeOK, Undisturbed, Running, Free
  <1>11. BusyInv'
    BY <1>1, <1>3 DEF BusyInv, Busy
  <1>12. CallInv'
    <2> SUFFICES ASSUME NEW b \in Threads PROVE CallFacts(b)'
      BY DEF CallInv
    <2> QED
      BY <1>1, <1>3, <1>5, <1>10, CallUndisturbed DEF BusyInv
  <1>13. LifeInv'
    <2> SUFFICES ASSUME NEW u \in Created PROVE LifeFacts(u)'
      BY DEF LifeInv
    <2>1. CASE u = t
      BY <2>1, <1>1, <1>3, <1>4, <1>6 DEF LifeInv, LifeFacts, Running, Reapable
    <2>2. CASE u # t
      BY <2>2, <1>1, <1>3, <1>10, LifeUndisturbed
    <2> QED
      BY <2>1, <2>2
  <1>14. DeadInv'
    BY <1>1, <1>2, <1>3 DEF TypeOK, DeadInv, Reapable
  <1> QED
    BY <1>8, <1>9, <1>11, <1>12, <1>13, <1>14 DEF LifecycleInv

\* A fresh range for a thread that had none; or mmap or calloc has failed.
LEMMA MmapStep ==
  ASSUME LifecycleInv, NEW a \in Threads, Mmap(a) PROVE LifecycleInv'
  <1>1. TypeOK /\ BusyInv /\ CallInv /\ LifeInv /\ DeadInv /\ StackInv
    BY DEF LifecycleInv
  <1>2. /\ pc[a] = "release" /\ a \in Busy /\ CallFacts(a)
        /\ UNCHANGED <<g_reg_state, g_list, detached, finished, freed, other, dead,
                       joinable, creates>>
    BY <1>1 DEF Mmap, Busy, Creating, CallInv
  <1>3. PICK t \in Created : t = other[a]
    BY <1>1, <1>2 DEF BusyInv
  <1>4. pc[t] = "new" /\ freed[t] = 0 /\ ~Kept(t) /\ t # a
    BY <1>2, <1>3 DEF CallFacts, Creating
  <1>5. CASE Go(a, "run") /\ UNCHANGED <<mapped, stack>>
    <2>1. pc' = [pc EXCEPT ![a] = "run"] /\ TypeOK'
      BY <1>1, <1>2, <1>5 DEF TypeOK, PC, Go
    <2>2. \A u \in Created : Kept(u)' <=> Kept(u)
      BY <1>1, <1>2, <2>1 DEF TypeOK, Kept
    <2>3. \A u \in Created : Undisturbed(u)
      BY <1>1, <1>2, <2>1, <2>2 DEF TypeOK, Undisturbed, Running
    <2>4. CallFacts(a)'
      BY <1>1, <2>1 DEF TypeOK, CallFacts, Creating, Releasing
    <2>5. BusyInv'
      BY <1>1, <1>2, <2>1 DEF TypeOK, BusyInv, Busy, Creating, Releasing
    <2>6. \A b \in Threads \ {a} : pc'[b] = pc[b] /\ other'[b] = other[b]
      BY <1>1, <1>2, <2>1 DEF TypeOK
    <2> QED
      BY <1>2, <1>5, <2>1, <2>3, <2>4, <2>5, <2>6, QuietStep
  <1>6. ASSUME NEW s \in Stacks \ mapped, mapped' = mapped \cup {s},
               stack' = [stack EXCEPT ![t] = s], Go(a, "register")
        PROVE  LifecycleInv'
    <2>1. pc' = [pc EXCEPT ![a] = "register"] /\ TypeOK'
      BY <1>1, <1>2, <1>6 DEF TypeOK, PC, Creating, Go
    <2>2. \A u \in Created : Kept(u)' <=> Kept(u) \/ u = t
      BY <1>1, <1>2, <1>3, <2>1 DEF TypeOK, Kept
    <2>3. \A u \in Created \ {t} : Undisturbed(u)
      BY <1>1, <1>2, <2>1, <2>2 DEF TypeOK, Undisturbed, Running
    <2>4. Busy' = Busy
      BY <1>1, <1>2, <2>1 DEF TypeOK, Busy, Creating, Releasing
    <2>5. BusyInv'
      BY <1>1, <1>2, <2>4 DEF BusyInv
    <2>6. CallInv'
      <3> SUFFICES ASSUME NEW b \in Threads PROVE CallFacts(b)'
        BY DEF CallInv
      <3>1. CASE b = a
        <4>1. /\ pc'[a] = "register" /\ other'[a] = t /\ pc'[t] = "new" /\ freed'[t] = 0
              /\ t \notin g_list'
          BY <1>1, <1>2, <1>3, <1>4, <2>1 DEF TypeOK, Kept
        <4> QED
          BY <3>1, <4>1 DEF CallFacts, Creating, Releasing
      <3>2. CASE b # a
        BY <3>2, <1>1, <1>2, <1>3, <2>1, <2>3, CallUndisturbed DEF TypeOK, BusyInv
      <3> QED
        BY <3>1, <3>2
    <2>7. LifeInv'
      <3> SUFFICES ASSUME NEW u \in Created PROVE LifeFacts(u)'
        BY DEF LifeInv
      <3>1. CASE u = t
        <4>1. pc'[t] = "new" /\ t <= creates /\ creates \in Nat /\ t \in Nat
          BY <1>1, <1>2, <1>3, <1>4, <2>1 DEF TypeOK, BusyInv
        <4> QED
          BY <3>1, <4>1, <1>1, <1>2, <1>4 DEF LifeInv, LifeFacts, Running
      <3>2. CASE u # t
        BY <3>2, <1>1, <1>2, <2>3, LifeUndisturbed
      <3> QED
        BY <3>1, <3>2
    <2>8. DeadInv'
      BY <1>1, <1>2 DEF DeadInv, Reapable
    <2>9. FreedInv'
      BY <1>2, <1>4, <2>2 DEF LifecycleInv, FreedInv
    <2>10. StackInv'
      <3>1. stack'[t] = s /\ \A u \in Created \ {t} : stack'[u] = stack[u]
        BY <1>1, <1>6 DEF TypeOK
      <3> QED
        BY <3>1, <1>1, <1>6, <2>2 DEF StackInv
    <2> QED
      BY <2>1, <2>5, <2>6, <2>7, <2>8, <2>9, <2>10 DEF LifecycleInv
  <1> QED
    BY <1>3, <1>5, <1>6 DEF Mmap

LEMMA RegisterStep ==
  ASSUME LifecycleInv, NEW a \in Threads, Register(a) PROVE LifecycleInv'
  <1>1. TypeOK /\ BusyInv /\ CallInv /\ LifeInv /\ DeadInv
    BY DEF LifecycleInv
  <1>2. /\ pc[a] = "register" /\ pc' = [pc EXCEPT ![a] = "bsdcreate"]
        /\ a \in Busy /\ CallFacts(a)
        /\ UNCHANGED <<g_reg_state, stack, detached, finished, freed, mapped, other, dead,
                       joinable, creates>>
    BY <1>1 DEF Register, Go, Busy, Creating, CallInv
  <1>3. PICK t \in Created : t = other[a]
    BY <1>1, <1>2 DEF BusyInv
  <1>4. pc[t] = "new" /\ freed[t] = 0 /\ Kept(t) /\ t # a /\ g_list' = g_list \cup {t}
    BY <1>2, <1>3 DEF CallFacts, Creating, Kept, Register
  <1>5. TypeOK'
    BY <1>1, <1>2, <1>4 DEF TypeOK, PC, Creating
  <1>6. \A u \in Created : Kept(u)' <=> Kept(u)
    BY <1>1, <1>2, <1>3, <1>4 DEF TypeOK, Kept
  <1>7. \A u \in Created \ {t} : Undisturbed(u)
    BY <1>1, <1>2, <1>4, <1>6 DEF TypeOK, Undisturbed, Running
  <1>8. Busy' = Busy
    BY <1>1, <1>2 DEF TypeOK, Busy, Creating, Releasing
  <1>9. BusyInv'
    BY <1>1, <1>2, <1>8 DEF BusyInv
  <1>10. CallInv'
    <2> SUFFICES ASSUME NEW b \in Threads PROVE CallFacts(b)'
      BY DEF CallInv
    <2>1. CASE b = a
      <3>1. pc'[a] = "bsdcreate" /\ other'[a] = t /\ pc'[t] = "new" /\ freed'[t] = 0
        BY <1>1, <1>2, <1>3, <1>4 DEF TypeOK
      <3> QED
        BY <2>1, <3>1, <1>4 DEF CallFacts, Creating, Releasing
    <2>2. CASE b # a
      BY <2>2, <1>1, <1>2, <1>3, <1>7, CallUndisturbed DEF TypeOK, BusyInv
    <2> QED
      BY <2>1, <2>2
  <1>11. LifeInv'
    <2> SUFFICES ASSUME NEW u \in Created PROVE LifeFacts(u)'
      BY DEF LifeInv
    <2>1. CASE u = t
      <3>1. pc'[t] = "new" /\ t <= creates /\ creates \in Nat /\ t \in Nat
        BY <1>1, <1>2, <1>3, <1>4 DEF TypeOK, BusyInv
      <3> QED
        BY <2>1, <3>1, <1>1, <1>2, <1>4 DEF LifeInv, LifeFacts, Running
    <2>2. CASE u # t
      BY <2>2, <1>1, <1>2, <1>7, LifeUndisturbed
    <2> QED
      BY <2>1, <2>2
  <1>12. DeadInv'
    <2>1. \A b \in Threads : t \notin dead[b]
      BY <1>1, <1>4 DEF DeadInv, LifeInv, LifeFacts, Reapable
    <2> QED
      BY <2>1, <1>1, <1>2, <1>4 DEF DeadInv, Reapable
  <1>13. FreedInv' /\ StackInv'
    BY <1>2, <1>6 DEF LifecycleInv, FreedInv, StackInv
  <1> QED
    BY <1>5, <1>9, <1>10, <1>11, <1>12, <1>13 DEF LifecycleInv

\* The new thread runs, and is on the list since before it does.
LEMMA BsdCreateStep ==
  ASSUME LifecycleInv, NEW a \in Threads, BsdCreate(a) PROVE LifecycleInv'
  <1>1. TypeOK /\ BusyInv /\ CallInv /\ LifeInv /\ DeadInv
    BY DEF LifecycleInv
  <1>2. /\ pc[a] = "bsdcreate" /\ a \in Busy /\ CallFacts(a)
        /\ UNCHANGED <<library, other, dead, creates>>
    BY <1>1 DEF BsdCreate, Busy, Creating, CallInv
  <1>3. PICK t \in Created : t = other[a]
    BY <1>1, <1>2 DEF BusyInv
  <1>4. pc[t] = "new" /\ freed[t] = 0 /\ t \in g_list /\ t # a /\ ~finished[t]
    BY <1>1, <1>2, <1>3 DEF CallFacts, Creating, LifeInv, LifeFacts
  <1>5. CASE Go(a, "unregister") /\ UNCHANGED joinable
    <2>1. pc' = [pc EXCEPT ![a] = "unregister"] /\ TypeOK'
      BY <1>1, <1>2, <1>5 DEF TypeOK, PC, Releasing, Go, library
    <2>2. \A u \in Created : Kept(u)' <=> Kept(u)
      BY <1>1, <1>2, <2>1 DEF TypeOK, Kept, library
    <2>3. \A u \in Created : Undisturbed(u)
      BY <1>1, <1>2, <2>1, <2>2 DEF TypeOK, Undisturbed, Running, library
    <2>4. CallFacts(a)'
      BY <1>1, <1>2, <1>3, <1>4, <2>1 DEF TypeOK, CallFacts, Creating, Releasing, library
    <2>5. BusyInv'
      BY <1>1, <1>2, <1>5, <2>1 DEF TypeOK, BusyInv, Busy, Creating, Releasing
    <2>6. \A b \in Threads \ {a} : pc'[b] = pc[b] /\ other'[b] = other[b]
      BY <1>1, <1>2, <2>1 DEF TypeOK
    <2> QED
      BY <1>2, <1>5, <2>1, <2>3, <2>4, <2>5, <2>6, QuietStep DEF library
  <1>6. ASSUME pc' = [pc EXCEPT ![a] = "run", ![t] = "run"],
               joinable' = IF detached[t] THEN joinable ELSE joinable \cup {t}
        PROVE  LifecycleInv'
    <2>1. TypeOK'
      BY <1>1, <1>2, <1>4, <1>6 DEF TypeOK, PC, library
    <2>2. /\ pc'[a] = "run" /\ pc'[t] = "run"
          /\ \A u \in Threads \ {a, t} : pc'[u] = pc[u]
      BY <1>1, <1>4, <1>6 DEF TypeOK
    <2>3. \A u \in Created : Kept(u)' <=> Kept(u)
      BY <1>2, <1>4, <2>2 DEF Kept, library
    <2>4. \A u \in Created \ {t} : Undisturbed(u)
      BY <1>1, <1>2, <2>2, <2>3 DEF Undisturbed, Running, library
    <2>5. Busy' = Busy \ {a}
      BY <1>2, <1>4, <2>2 DEF Busy, Creating, Releasing
    <2>6. \A b \in Busy \ {a} : other[b] \in Created \ {t}
      BY <1>1, <1>2, <1>3 DEF BusyInv
    <2>7. BusyInv'
      BY <1>1, <1>2, <1>6, <2>5, <2>6 DEF BusyInv
    <2>8. CallInv'
      <3> SUFFICES ASSUME NEW b \in Threads PROVE CallFacts(b)'
        BY DEF CallInv
      <3>1. CASE b \in {a, t}
        BY <3>1, <2>2 DEF CallFacts, Creating, Releasing
      <3>2. CASE b \notin {a, t}
        BY <3>2, <1>1, <1>2, <2>2, <2>4, <2>6, CallUndisturbed
      <3> QED
        BY <3>1, <3>2
    <2>9. LifeInv'
      <3> SUFFICES ASSUME NEW u \in Created PROVE LifeFacts(u)'
        BY DEF LifeInv
      <3>1. CASE u = t
        <4>1. t <= creates /\ creates \in Nat /\ t \in Nat
          BY <1>1, <1>2, <1>3 DEF TypeOK, BusyInv
        <4>2. t \notin joinable
          BY <1>1, <1>2, <1>3 DEF BusyInv
        <4> QED
          BY <3>1, <4>1, <4>2, <1>2, <1>4, <1>6, <2>2 DEF LifeFacts, Running, library
      <3>2. CASE u # t
        BY <3>2, <1>1, <1>2, <1>6, <2>4, LifeUndisturbed
      <3> QED
        BY <3>1, <3>2
    <2>10. DeadInv'
      BY <1>1, <1>2 DEF DeadInv, Reapable, library
    <2>11. FreedInv' /\ StackInv'
      BY <1>2, <2>3 DEF LifecycleInv, FreedInv, StackInv, library
    <2> QED
      BY <2>1, <2>7, <2>8, <2>9, <2>10, <2>11 DEF LifecycleInv
  <1> QED
    BY <1>3, <1>5, <1>6 DEF BsdCreate

LEMMA UnregisterStep ==
  ASSUME LifecycleInv, NEW a \in Threads, Unregister(a) PROVE LifecycleInv'
  <1>1. TypeOK /\ BusyInv /\ CallInv /\ LifeInv /\ DeadInv
    BY DEF LifecycleInv
  <1>2. /\ pc[a] = "unregister" /\ pc' = [pc EXCEPT ![a] = "munmap"]
        /\ a \in Busy /\ CallFacts(a)
        /\ UNCHANGED <<g_reg_state, stack, detached, finished, freed, mapped, other, dead,
                       joinable, creates>>
    BY <1>1 DEF Unregister, Go, Busy, Releasing, CallInv
  <1>3. PICK t \in Created : t = other[a]
    BY <1>1, <1>2 DEF BusyInv
  <1>4. /\ g_list' = g_list \ {t} /\ t \in g_list /\ Kept(t) /\ t \notin joinable
        /\ pc[t] = "new" \/ (finished[t] /\ ~detached[t])
    BY <1>1, <1>2, <1>3 DEF CallFacts, Releasing, Kept, Unregister, BusyInv
  <1>5. TypeOK'
    BY <1>1, <1>2, <1>4 DEF TypeOK, PC, Releasing
  <1>6. \A u \in Created : Kept(u)' <=> Kept(u)
    <2>1. pc'[a] = "munmap" /\ other'[a] = t
      BY <1>1, <1>2, <1>3 DEF TypeOK
    <2>2. Kept(t)'
      BY <2>1 DEF Kept
    <2>3. \A b \in Threads : b # a => pc'[b] = pc[b]
      BY <1>1, <1>2 DEF TypeOK
    <2> QED
      BY <1>2, <1>3, <1>4, <2>1, <2>2, <2>3 DEF Kept
  <1>7. \A u \in Created \ {t} : Undisturbed(u)
    BY <1>1, <1>2, <1>4, <1>6 DEF TypeOK, Undisturbed, Running
  <1>8. Busy' = Busy
    BY <1>1, <1>2 DEF TypeOK, Busy, Creating, Releasing
  <1>9. BusyInv'
    BY <1>1, <1>2, <1>8 DEF BusyInv
  <1>10. ~Running(t) /\ ~Running(t)' /\ (pc'[t] = "new" <=> pc[t] = "new")
    <2>1. ~Running(t) /\ t # a
      BY <1>1, <1>2, <1>4 DEF LifeInv, LifeFacts, Running
    <2> QED
      BY <2>1, <1>1, <1>2 DEF TypeOK, Running
  <1>11. CallInv'
    <2> SUFFICES ASSUME NEW b \in Threads PROVE CallFacts(b)'
      BY DEF CallInv
    <2>1. CASE b = a
      <3>1. pc'[a] = "munmap" /\ other'[a] = t /\ t \notin g_list'
        BY <1>1, <1>2, <1>3, <1>4 DEF TypeOK
      <3> QED
        BY <2>1, <3>1, <1>2, <1>4, <1>10 DEF CallFacts, Creating, Releasing
    <2>2. CASE b # a
      BY <2>2, <1>1, <1>2, <1>3, <1>7, CallUndisturbed DEF TypeOK, BusyInv
    <2> QED
      BY <2>1, <2>2
  <1>12. LifeInv'
    <2> SUFFICES ASSUME NEW u \in Created PROVE LifeFacts(u)'
      BY DEF LifeInv
    <2>1. CASE u = t
      <3>1. pc'[t] = pc[t] /\ t <= creates /\ creates \in Nat /\ t \in Nat
        <4>1. t # a
          BY <1>2, <1>10 DEF Running
        <4> QED
          BY <4>1, <1>1, <1>2, <1>3 DEF TypeOK, BusyInv
      <3> QED
        BY <2>1, <3>1, <1>1, <1>2, <1>4, <1>10 DEF LifeInv, LifeFacts
    <2>2. CASE u # t
      BY <2>2, <1>1, <1>2, <1>7, LifeUndisturbed
    <2> QED
      BY <2>1, <2>2
  <1>13. DeadInv'
    BY <1>1, <1>2, <1>4 DEF DeadInv, Reapable
  <1>14. FreedInv' /\ StackInv'
    BY <1>2, <1>6 DEF LifecycleInv, FreedInv, StackInv
  <1> QED
    BY <1>5, <1>9, <1>11, <1>12, <1>13, <1>14 DEF LifecycleInv

\* Freed by the one call about it, after which no call is.
LEMMA MunmapStep ==
  ASSUME LifecycleInv, NEW a \in Threads, Munmap(a) PROVE LifecycleInv'
  <1>1. TypeOK /\ BusyInv /\ CallInv /\ LifeInv /\ DeadInv
    BY DEF LifecycleInv
  <1>2. /\ pc[a] = "munmap" /\ pc' = [pc EXCEPT ![a] = "run"]
        /\ a \in Busy /\ CallFacts(a)
        /\ UNCHANGED <<g_reg_state, g_list, stack, detached, finished, other, dead,
                       joinable, creates>>
    BY <1>1 DEF Munmap, Go, Busy, Releasing, CallInv
  <1>3. PICK t \in Created : t = other[a]
    BY <1>1, <1>2 DEF BusyInv
  <1>4. /\ Free(t) /\ t \notin g_list /\ Kept(t) /\ t \notin joinable
        /\ pc[t] = "new" \/ (finished[t] /\ ~detached[t])
    BY <1>1, <1>2, <1>3 DEF CallFacts, Releasing, Kept, Munmap, BusyInv
  <1>6. t # a
    BY <1>1, <1>2, <1>4 DEF LifeInv, LifeFacts, Running
  <1>7. \A b \in Threads : t \notin dead[b]
    BY <1>1, <1>4 DEF DeadInv, LifeInv, LifeFacts, Reapable
  <1>8. Busy' = Busy \ {a} /\ \A b \in Busy \ {a} : other[b] \in Created \ {t} /\ pc'[b] = pc[b]
    BY <1>1, <1>2, <1>3 DEF TypeOK, BusyInv, Busy, Creating, Releasing
  <1>9. ~Kept(t)'
    <2>1. \A b \in Threads : pc'[b] \in {"register", "munmap"} => b \in Busy \ {a}
      BY <1>8 DEF Busy, Creating, Releasing
    <2> QED
      BY <2>1, <1>2, <1>4, <1>7, <1>8 DEF Kept
  <1>10. \A u \in Created \ {t} : Kept(u)' <=> Kept(u)
    BY <1>1, <1>2, <1>3 DEF TypeOK, Kept
  <1>11. FreedInv' /\ StackInv' /\ freed' \in [Created -> Nat]
    BY <1>2, <1>4, <1>9, <1>10, FreeKept
  <1>12. TypeOK'
    BY <1>1, <1>2, <1>4, <1>11 DEF TypeOK, PC, Free
  <1>13. \A u \in Created \ {t} : Undisturbed(u)
    BY <1>1, <1>2, <1>4, <1>10 DEF TypeOK, Undisturbed, Running, Free
  <1>14. BusyInv'
    BY <1>1, <1>2, <1>8 DEF BusyInv
  <1>15. CallInv'
    <2> SUFFICES ASSUME NEW b \in Threads PROVE CallFacts(b)'
      BY DEF CallInv
    <2>1. CASE b = a
      BY <2>1, <1>1, <1>2 DEF TypeOK, CallFacts, Creating, Releasing
    <2>2. CASE b # a
      <3>1. pc'[b] = pc[b] /\ other'[b] = other[b]
        BY <2>2, <1>1, <1>2 DEF TypeOK
      <3> QED
        BY <2>2, <3>1, <1>1, <1>8, <1>13, CallUndisturbed
    <2> QED
      BY <2>1, <2>2
  <1>16. LifeInv'
    <2> SUFFICES ASSUME NEW u \in Created PROVE LifeFacts(u)'
      BY DEF LifeInv
    <2>1. CASE u = t
      <3>1. pc'[t] = pc[t] /\ t <= creates /\ creates \in Nat /\ t \in Nat
        BY <1>1, <1>2, <1>3, <1>6 DEF TypeOK, BusyInv
      <3>2. LifeFacts(t) /\ ~Running(t)
        BY <1>1, <1>4 DEF LifeInv, LifeFacts
      <3> QED
        BY <2>1, <3>1, <3>2, <1>2, <1>4 DEF LifeFacts, Running
    <2>2. CASE u # t
      BY <2>2, <1>1, <1>2, <1>13, LifeUndisturbed
    <2> QED
      BY <2>1, <2>2
  <1>17. DeadInv'
    BY <1>1, <1>2 DEF DeadInv, Reapable
  <1> QED
    BY <1>11, <1>12, <1>14, <1>15, <1>16, <1>17 DEF LifecycleInv

-----------------------------------------------------------------------------
(***************************************************************************)
(* The invariance theorem, and what follows from the invariant.            *)
(***************************************************************************)
LEMMA StutterLifecycle ==
  ASSUME LifecycleInv, UNCHANGED vars PROVE LifecycleInv'
  <1>1. UNCHANGED <<library, pc, other, dead, joinable, creates>>
    BY DEF vars
  <1>2. TypeOK'
    BY <1>1 DEF LifecycleInv, TypeOK, library
  <1>3. \A u : Kept(u)' <=> Kept(u)
    BY <1>1 DEF Kept, library
  <1>4. BusyInv'
    BY <1>1 DEF LifecycleInv, BusyInv, Busy
  <1>5. CallInv' /\ LifeInv'
    BY <1>1, <1>3 DEF LifecycleInv, CallInv, CallFacts, LifeInv, LifeFacts, Running, library
  <1>6. DeadInv' /\ FreedInv' /\ StackInv'
    BY <1>1, <1>3 DEF LifecycleInv, DeadInv, FreedInv, StackInv, Reapable, library
  <1> QED
    BY <1>2, <1>4, <1>5, <1>6 DEF LifecycleInv

LEMMA NextLifecycle == LifecycleInv /\ [Next]_vars => LifecycleInv'
  <1> SUFFICES ASSUME LifecycleInv, [Next]_vars PROVE LifecycleInv'
    OBVIOUS
  <1>1. ASSUME NEW a \in Threads, CallCreate(a) \/ CallJoin(a) \/ Detach(a) PROVE LifecycleInv'
    BY <1>1, CallCreateStep, CallJoinStep, DetachStep
  <1>2. ASSUME NEW a \in Threads, Step(a) PROVE LifecycleInv'
    BY <1>2, EnsureStep, BsdRegisterStep, ReapStep, ReleaseDeadStep, MmapStep, RegisterStep,
       BsdCreateStep, UnregisterStep, MunmapStep, JoinSeesEndStep, ReturnStep, FinishStep
       DEF Step
  <1> QED
    BY <1>1, <1>2, StutterLifecycle DEF Next

(***************************************************************************)
(* The inductive invariant of the thread lifecycle: each thread is kept in *)
(* one place (g_list, a create's dead list, one caller's hands), and the   *)
(* stacks of the threads kept are mapped and distinct.                     *)
(***************************************************************************)
THEOREM LifecycleInvariance == Spec => []LifecycleInv
  BY InitLifecycle, NextLifecycle, PTL DEF Spec

(***************************************************************************)
(* The state of pthread.c is well typed, and a handle a client may still   *)
(* join or detach leads to a struct on g_list.                             *)
(***************************************************************************)
THEOREM LifecycleTypeCorrect == Spec => []TypeOK
  <1>1. LifecycleInv => TypeOK
    BY DEF LifecycleInv
  <1> QED
    BY <1>1, LifecycleInvariance, PTL

(***************************************************************************)
(* __pthread_current finds the thread that asks: the stack of a running    *)
(* thread is mapped, and its struct is the only one on g_list with that    *)
(* range, for any number of threads and any reuse of addresses.            *)
(***************************************************************************)
THEOREM CurrentIsSelfHolds == Spec => []CurrentIsSelf
  <1>1. LifecycleInv => CurrentIsSelf
    <2> SUFFICES ASSUME LifecycleInv, NEW t \in Created, Running(t)
                 PROVE  stack[t] \in mapped /\ {u \in g_list : stack[u] = stack[t]} = {t}
      BY DEF CurrentIsSelf
    <2>1. t \in g_list /\ g_list \subseteq Created
      BY DEF LifecycleInv, LifeInv, LifeFacts, TypeOK
    <2>2. \A u \in g_list : Kept(u)
      BY DEF Kept
    <2> QED
      BY <2>1, <2>2 DEF LifecycleInv, StackInv
  <1> QED
    BY <1>1, LifecycleInvariance, PTL

(***************************************************************************)
(* A thread's stack and struct are released at most once, by its joiner,   *)
(* by a later create or by the create that failed, and nobody who still    *)
(* walks the list or holds the pointer comes across it afterwards.         *)
(***************************************************************************)
THEOREM ReleasedOnceHolds == Spec => []ReleasedOnce
  <1>1. LifecycleInv => ReleasedOnce
    <2> SUFFICES ASSUME LifecycleInv, NEW t \in Created
                 PROVE  /\ freed[t] <= 1
                        /\ freed[t] = 1 =>
                             /\ t \notin g_list
                             /\ t \notin joinable
                             /\ \A a \in Threads : t \notin dead[a]
                             /\ \A a \in Threads :
                                  other[a] = t => pc[a] \notin {"join"} \cup Releasing
      BY DEF ReleasedOnce
    <2>1. freed[t] <= 1 /\ (freed[t] = 1 => ~Kept(t)) /\ joinable \subseteq g_list
      BY DEF LifecycleInv, FreedInv, TypeOK
    <2>2. \A a \in Threads : other[a] = t /\ pc[a] \in {"join"} \cup Releasing => Kept(t)
      BY DEF LifecycleInv, CallInv, CallFacts, Kept, Releasing
    <2> QED
      BY <2>1, <2>2 DEF Kept
  <1> QED
    BY <1>1, LifecycleInvariance, PTL
=============================================================================
