----------------------- MODULE DispatchSemaphoreProofs -----------------------
(***************************************************************************)
(* Proofs about DispatchSemaphore, for any threads, any initial value and  *)
(* any number of signals below the range of the generation counter.  The   *)
(* argument: the critical sections exclude each other; each signal counted *)
(* has posted or is about to, so the generation cannot have come round to  *)
(* what a sleeper has read; and a private semaphore whose wait has taken   *)
(* the permit has no signaller left, because the one there was has posted  *)
(* before and released the mutex since.                                    *)
(***************************************************************************)
EXTENDS DispatchSemaphore, FiniteSetTheorems, TLAPS

Inside == {"signal", "unlock", "test", "leave", "leavefail"}
Signalling == {"siglock", "signal", "unlock"}
Waiting == {"lock", "test", "poll", "leave", "leavefail", "taken"}

\* Calls of signal that have not posted yet.
Unposted == {t \in Threads : pc[t] \in {"siglock", "signal"}}

MutexInv ==
    \A t \in Threads : pc[t] \in Inside =>
        owned /\ \A u \in Threads : pc[u] \in Inside => u = t

CountInv ==
    /\ IsFiniteSet(Unposted)
    /\ signals = posted + Cardinality(Unposted)

GenInv == gen <= posted /\ \A t \in Threads : gen0[t] <= gen

\* One signal and one wait use a private semaphore, and the wait comes last.
PrivateInv ==
    /\ private =>
         /\ signals <= 1 /\ waits <= 1
         /\ \A t \in Threads : pc[t] \in Waiting =>
              waits = 1 /\ \A u \in Threads : pc[u] \in Waiting => u = t
         /\ granted > 0 => \A t \in Threads : pc[t] \notin Signalling
    /\ \A t \in Threads : pc[t] \in {"leave", "taken"} => granted > 0
    /\ \A t \in Threads : pc[t] = "taken" => private

SemaphoreInv ==
    /\ TypeOK
    /\ MutexInv
    /\ CountInv
    /\ GenInv
    /\ PrivateInv
    /\ NoLostWakeup
    /\ NoUseAfterFree

USE SemaphoreAssumption DEF SemaphoreAssumption

LEMMA InitSemaphore == Init => SemaphoreInv
  <1> SUFFICES ASSUME Init PROVE SemaphoreInv
    OBVIOUS
  <1>1. TypeOK
    <2>1. /\ pc \in [Threads -> PC]
          /\ mode \in [Threads -> Mode]
          /\ late \in [Threads -> BOOLEAN]
          /\ gen0 \in [Threads -> 0 .. GenSize - 1]
          /\ timed_out \in [Threads -> BOOLEAN]
      BY DEF Init, PC, Mode
    <2>2. value = Created + posted - granted
      BY DEF Init, Created
    <2>3. /\ private \in BOOLEAN
          /\ owned \in BOOLEAN
          /\ freed \in BOOLEAN
      BY DEF Init
    <2>4. /\ gen = 0
          /\ signals = 0
          /\ posted = 0
          /\ waits = 0
          /\ granted = 0
      BY DEF Init
    <2> QED
      BY <2>1, <2>2, <2>3, <2>4 DEF TypeOK
  <1>2. Unposted = {}
    BY DEF Init, Unposted
  <1>3. CountInv
    BY <1>2, FS_EmptySet DEF Init, CountInv
  <1>4. MutexInv /\ GenInv /\ PrivateInv /\ NoLostWakeup /\ NoUseAfterFree
    BY DEF Init, MutexInv, GenInv, PrivateInv, NoLostWakeup, NoUseAfterFree,
           Inside, Signalling, Waiting
  <1> QED
    BY <1>1, <1>3, <1>4 DEF SemaphoreInv

-----------------------------------------------------------------------------
(***************************************************************************)
(* The counter of signals that have not posted.                            *)
(***************************************************************************)
LEMMA PostedBound ==
  ASSUME TypeOK, CountInv
  PROVE  /\ Cardinality(Unposted) \in Nat
         /\ posted <= signals
         /\ Unposted # {} => posted < signals
         /\ posted = signals => Unposted = {}
  BY FS_CardinalityType, FS_EmptySet DEF TypeOK, CountInv

LEMMA SamePosted ==
  ASSUME CountInv, Unposted' = Unposted, UNCHANGED <<signals, posted>>
  PROVE  CountInv'
  BY DEF CountInv

\* What a step that changes nothing but pc, and maybe owned, must show.
Quiet == UNCHANGED <<private, gen, value, freed, signals, posted, waits, granted>>

LEMMA QuietStep ==
  ASSUME SemaphoreInv, Quiet, TypeOK', MutexInv', Unposted' = Unposted,
         NEW t \in Threads, NEW p \in PC, pc[t] # "idle", pc' = [pc EXCEPT ![t] = p],
         p \in Waiting => pc[t] \in Waiting,
         p \in Signalling => pc[t] \in Signalling,
         p \in {"leave", "taken"} => pc[t] \in {"leave", "taken"},
         p = "taken" => private,
         \A u \in Threads : gen0'[u] <= gen,
         \A u \in Threads : pc'[u] = "poll" /\ gen0'[u] = gen => value <= 0
  PROVE  SemaphoreInv'
  <1>1. TypeOK /\ CountInv'
    BY SamePosted DEF SemaphoreInv, Quiet
  <1>2. pc'[t] = p /\ \A u \in Threads \ {t} : pc'[u] = pc[u]
    BY <1>1 DEF TypeOK
  <1>3. GenInv' /\ NoLostWakeup'
    BY DEF SemaphoreInv, Quiet, GenInv, NoLostWakeup
  <1>4. PrivateInv'
    BY <1>2 DEF SemaphoreInv, Quiet, PrivateInv
  <1>5. NoUseAfterFree'
    BY DEF SemaphoreInv, Quiet, NoUseAfterFree
  <1> QED
    BY <1>1, <1>3, <1>4, <1>5 DEF SemaphoreInv

-----------------------------------------------------------------------------
(***************************************************************************)
(* Each action keeps the invariant.                                        *)
(***************************************************************************)
LEMMA CallSignalStep ==
  ASSUME SemaphoreInv, NEW t \in Threads, CallSignal(t) PROVE SemaphoreInv'
  <1>1. TypeOK /\ CountInv
    BY DEF SemaphoreInv
  <1>2. /\ pc[t] = "idle" /\ ~freed /\ pc' = [pc EXCEPT ![t] = "siglock"]
        /\ signals' = signals + 1 /\ signals < IF private THEN 1 ELSE MaxSignals
        /\ UNCHANGED <<private, owned, gen, value, freed, wvars, posted, waits, granted>>
    BY DEF CallSignal, Go
  <1>3. TypeOK'
    BY <1>1, <1>2 DEF TypeOK, PC, Created, wvars
  <1>4. pc'[t] = "siglock" /\ \A u \in Threads \ {t} : pc'[u] = pc[u]
    BY <1>1, <1>2 DEF TypeOK
  <1>5. CountInv'
    <2>1. Unposted' = Unposted \cup {t} /\ t \notin Unposted
      BY <1>2, <1>4 DEF Unposted
    <2>2. IsFiniteSet(Unposted') /\ Cardinality(Unposted') = Cardinality(Unposted) + 1
      BY <2>1, <1>1, FS_AddElement DEF CountInv
    <2> QED
      BY <2>2, <1>1, <1>2, PostedBound DEF CountInv, TypeOK
  <1>6. MutexInv'
    BY <1>2, <1>4 DEF SemaphoreInv, MutexInv, Inside
  <1>7. GenInv' /\ NoLostWakeup'
    BY <1>2, <1>4 DEF SemaphoreInv, GenInv, NoLostWakeup, wvars
  <1>8. PrivateInv'
    <2>1. private => signals = 0 /\ signals' <= 1
      BY <1>1, <1>2 DEF TypeOK
    <2>2. private => granted = 0
      BY <2>1, <1>1, <1>2, PostedBound DEF TypeOK, Created
    <2> QED
      BY <2>1, <2>2, <1>2, <1>4 DEF SemaphoreInv, PrivateInv, Waiting
  <1>9. NoUseAfterFree'
    BY <1>2 DEF NoUseAfterFree
  <1> QED
    BY <1>3, <1>5, <1>6, <1>7, <1>8, <1>9 DEF SemaphoreInv

LEMMA CallWaitStep ==
  ASSUME SemaphoreInv, NEW t \in Threads, CallWait(t) PROVE SemaphoreInv'
  <1>1. TypeOK /\ CountInv
    BY DEF SemaphoreInv
  <1>2. /\ pc[t] = "idle" /\ ~freed /\ pc' = [pc EXCEPT ![t] = "lock"]
        /\ waits' = waits + 1 /\ waits < IF private THEN 1 ELSE MaxWaits
        /\ UNCHANGED <<private, owned, gen, value, freed, gen0, signals, posted, granted>>
    BY DEF CallWait, Go
  <1>3. mode' \in [Threads -> Mode] /\ late' \in [Threads -> BOOLEAN]
        /\ timed_out' \in [Threads -> BOOLEAN]
    BY <1>1 DEF CallWait, TypeOK, Mode
  <1>4. TypeOK'
    <2>1. waits' \in 0 .. MaxWaits
      BY <1>1, <1>2 DEF TypeOK
    <2>2. pc' \in [Threads -> PC]
      BY <1>1, <1>2 DEF TypeOK, PC
    <2>3. value' = Created' + posted' - granted'
      BY <1>1, <1>2 DEF TypeOK, Created
    <2> QED
      BY <2>1, <2>2, <2>3, <1>1, <1>2, <1>3 DEF TypeOK
  <1>5. pc'[t] = "lock" /\ \A u \in Threads \ {t} : pc'[u] = pc[u]
    BY <1>1, <1>2 DEF TypeOK
  <1>6. CountInv'
    <2>1. Unposted' = Unposted
      BY <1>2, <1>5 DEF Unposted
    <2> QED
      BY <2>1, <1>1, <1>2, SamePosted
  <1>7. MutexInv'
    BY <1>2, <1>5 DEF SemaphoreInv, MutexInv, Inside
  <1>8. GenInv' /\ NoLostWakeup'
    BY <1>2, <1>5 DEF SemaphoreInv, GenInv, NoLostWakeup
  <1>9. PrivateInv'
    <2>1. private => waits = 0 /\ waits' = 1
      BY <1>1, <1>2 DEF TypeOK
    <2>2. private => \A u \in Threads : pc[u] \notin Waiting
      BY <2>1 DEF SemaphoreInv, PrivateInv
    <2> QED
      BY <2>1, <2>2, <1>2, <1>5 DEF SemaphoreInv, PrivateInv, Waiting, Signalling
  <1>10. NoUseAfterFree'
    BY <1>2 DEF NoUseAfterFree
  <1> QED
    BY <1>4, <1>6, <1>7, <1>8, <1>9, <1>10 DEF SemaphoreInv

\* The exchange that finds the mutex free finds nobody inside.
LEMMA LockStep ==
  ASSUME SemaphoreInv, NEW t \in Threads, Lock(t) PROVE SemaphoreInv'
  <1>1. TypeOK /\ MutexInv
    BY DEF SemaphoreInv
  <1>2. PICK p \in {"signal", "test"} :
          /\ pc' = [pc EXCEPT ![t] = p]
          /\ pc[t] = IF p = "signal" THEN "siglock" ELSE "lock"
    BY DEF Lock, Go
  <1>3. ~owned /\ owned' = TRUE /\ Quiet /\ UNCHANGED wvars
    BY DEF Lock, Quiet, counts
  <1>4. TypeOK'
    BY <1>1, <1>2, <1>3 DEF TypeOK, PC, Created, Quiet, wvars
  <1>5. pc'[t] = p /\ \A u \in Threads \ {t} : pc'[u] = pc[u]
    BY <1>1, <1>2 DEF TypeOK
  <1>6. MutexInv'
    BY <1>1, <1>3, <1>5 DEF MutexInv
  <1>7. Unposted' = Unposted
    BY <1>2, <1>5 DEF Unposted
  <1>8. \A u \in Threads : gen0'[u] <= gen
    BY <1>3 DEF SemaphoreInv, GenInv, wvars
  <1>9. \A u \in Threads : pc'[u] = "poll" /\ gen0'[u] = gen => value <= 0
    BY <1>3, <1>5 DEF SemaphoreInv, NoLostWakeup, wvars
  <1> QED
    BY <1>2, <1>3, <1>4, <1>6, <1>7, <1>8, <1>9, QuietStep DEF PC, Waiting, Signalling

\* The generation is below its range: a remainder is the number itself.
LEMMA NoWrap == ASSUME NEW n \in 0 .. GenSize - 1 PROVE n % GenSize = n
  OBVIOUS

\* A sleeper has read an older generation, or the value has not become positive.
LEMMA SignalStep ==
  ASSUME SemaphoreInv, NEW t \in Threads, Signal(t) PROVE SemaphoreInv'
  <1>1. TypeOK /\ CountInv /\ GenInv /\ MutexInv
    BY DEF SemaphoreInv
  <1>2. /\ pc[t] = "signal" /\ pc' = [pc EXCEPT ![t] = "unlock"]
        /\ value' = value + 1 /\ posted' = posted + 1
        /\ gen' = IF value + 1 > 0 THEN (gen + 1) % GenSize ELSE gen
        /\ UNCHANGED <<private, owned, freed, wvars, signals, waits, granted>>
    BY DEF Signal, Go
  <1>3. t \in Unposted /\ posted < signals
    BY <1>1, <1>2, PostedBound DEF Unposted
  <1>4. (gen + 1) % GenSize = gen + 1 /\ gen + 1 < GenSize
    <2>1. gen + 1 \in 0 .. GenSize - 1
      BY <1>1, <1>3 DEF TypeOK, GenInv
    <2> QED
      BY <2>1, NoWrap
  <1>5. /\ gen' = IF value + 1 > 0 THEN gen + 1 ELSE gen
        /\ gen' \in 0 .. GenSize - 1
    BY <1>1, <1>2, <1>4 DEF TypeOK
  <1>6. TypeOK'
    <2>1. pc' \in [Threads -> PC]
      BY <1>1, <1>2 DEF TypeOK, PC
    <2>2. value' = Created' + posted' - granted' /\ (granted' > 0 => value' >= 0) /\ posted' \in Nat
      BY <1>1, <1>2 DEF TypeOK, Created
    <2> QED
      BY <2>1, <2>2, <1>1, <1>2, <1>5 DEF TypeOK, wvars
  <1>7. pc'[t] = "unlock" /\ \A u \in Threads \ {t} : pc'[u] = pc[u]
    BY <1>1, <1>2 DEF TypeOK
  <1>8. CountInv'
    <2>1. Unposted' = Unposted \ {t}
      BY <1>2, <1>7 DEF Unposted
    <2>2. IsFiniteSet(Unposted') /\ Cardinality(Unposted') = Cardinality(Unposted) - 1
      BY <2>1, <1>1, <1>3, FS_RemoveElement DEF CountInv
    <2> QED
      BY <2>2, <1>1, <1>2, PostedBound DEF CountInv, TypeOK
  <1>9. MutexInv'
    BY <1>1, <1>2, <1>7 DEF MutexInv, Inside
  <1>10. GenInv'
    BY <1>1, <1>2, <1>5 DEF TypeOK, GenInv, wvars
  <1>11. NoLostWakeup'
    <2> SUFFICES ASSUME NEW u \in Threads, pc'[u] = "poll", gen0'[u] = gen' PROVE value' <= 0
      BY DEF NoLostWakeup
    <2>1. value + 1 > 0 => gen0'[u] < gen'
      BY <1>1, <1>2, <1>5 DEF TypeOK, GenInv, wvars
    <2> QED
      BY <2>1, <1>1, <1>2, <1>5 DEF TypeOK, Created
  <1>12. PrivateInv'
    <2>1. pc'[t] \in Signalling /\ pc[t] \in Signalling /\ pc'[t] \notin Waiting
      BY <1>2, <1>7 DEF Signalling, Waiting
    <2> QED
      BY <2>1, <1>2, <1>7 DEF SemaphoreInv, PrivateInv
  <1>13. NoUseAfterFree'
    BY <1>2 DEF SemaphoreInv, NoUseAfterFree
  <1> QED
    BY <1>6, <1>8, <1>9, <1>10, <1>11, <1>12, <1>13 DEF SemaphoreInv

\* Whoever takes the permit of a private semaphore is alone with it.
LEMMA TakeStep ==
  ASSUME SemaphoreInv, NEW t \in Threads, Take(t) PROVE SemaphoreInv'
  <1>1. TypeOK /\ CountInv /\ GenInv /\ MutexInv
    BY DEF SemaphoreInv
  <1>2. /\ pc[t] = "test" /\ pc' = [pc EXCEPT ![t] = "leave"]
        /\ value > 0 /\ value' = value - 1 /\ granted' = granted + 1
        /\ UNCHANGED <<private, owned, gen, freed, wvars, signals, posted, waits>>
    BY DEF Take, Go
  <1>3. TypeOK'
    <2>1. pc' \in [Threads -> PC]
      BY <1>1, <1>2 DEF TypeOK, PC
    <2>2. value' = Created' + posted' - granted' /\ (granted' > 0 => value' >= 0) /\ granted' \in Nat
      BY <1>1, <1>2 DEF TypeOK, Created
    <2> QED
      BY <2>1, <2>2, <1>1, <1>2 DEF TypeOK, wvars
  <1>4. pc'[t] = "leave" /\ \A u \in Threads \ {t} : pc'[u] = pc[u]
    BY <1>1, <1>2 DEF TypeOK
  <1>5. CountInv'
    <2>1. Unposted' = Unposted
      BY <1>2, <1>4 DEF Unposted
    <2> QED
      BY <2>1, <1>1, <1>2, SamePosted
  <1>6. MutexInv'
    BY <1>1, <1>2, <1>4 DEF MutexInv, Inside
  <1>7. GenInv' /\ NoLostWakeup'
    BY <1>1, <1>2, <1>4 DEF SemaphoreInv, TypeOK, Created, GenInv, NoLostWakeup, wvars
  <1>8. private => \A u \in Threads : pc'[u] \notin Signalling
    <2> SUFFICES ASSUME private, NEW u \in Threads PROVE pc'[u] \notin Signalling
      OBVIOUS
    <2>1. signals <= 1 /\ posted >= 1
      BY <1>1, <1>2 DEF SemaphoreInv, PrivateInv, TypeOK, Created
    <2>2. Unposted = {}
      BY <2>1, <1>1, PostedBound DEF TypeOK
    <2>3. pc[u] # "unlock"
      BY <1>1, <1>2 DEF MutexInv, Inside
    <2> QED
      BY <2>2, <2>3, <1>4 DEF Unposted, Signalling
  <1>9. PrivateInv'
    <2>1. pc'[t] \in Waiting /\ pc[t] \in Waiting
      BY <1>2, <1>4 DEF Waiting
    <2>2. granted \in Nat /\ granted' > 0
      BY <1>1, <1>2 DEF TypeOK
    <2> QED
      BY <2>1, <2>2, <1>2, <1>4, <1>8 DEF SemaphoreInv, PrivateInv
  <1>10. NoUseAfterFree'
    BY <1>2 DEF SemaphoreInv, NoUseAfterFree
  <1> QED
    BY <1>3, <1>5, <1>6, <1>7, <1>9, <1>10 DEF SemaphoreInv

LEMMA GiveUpStep ==
  ASSUME SemaphoreInv, NEW t \in Threads, GiveUp(t) PROVE SemaphoreInv'
  <1>1. TypeOK /\ MutexInv
    BY DEF SemaphoreInv
  <1>2. pc[t] = "test" /\ pc' = [pc EXCEPT ![t] = "leavefail"] /\ Quiet /\ UNCHANGED <<owned, wvars>>
    BY DEF GiveUp, Go, Quiet, counts
  <1>3. TypeOK'
    BY <1>1, <1>2 DEF TypeOK, PC, Created, Quiet, wvars
  <1>4. pc'[t] = "leavefail" /\ \A u \in Threads \ {t} : pc'[u] = pc[u]
    BY <1>1, <1>2 DEF TypeOK
  <1>5. MutexInv' /\ Unposted' = Unposted
    BY <1>1, <1>2, <1>4 DEF MutexInv, Inside, Unposted
  <1>6. \A u \in Threads : gen0'[u] <= gen /\ (pc'[u] = "poll" /\ gen0'[u] = gen => value <= 0)
    BY <1>2, <1>4 DEF SemaphoreInv, GenInv, NoLostWakeup, wvars
  <1> QED
    BY <1>2, <1>3, <1>5, <1>6, QuietStep DEF PC, Waiting, Signalling

\* The sleeper reads the generation when there is nothing to take.
LEMMA SleepStep ==
  ASSUME SemaphoreInv, NEW t \in Threads, Sleep(t) PROVE SemaphoreInv'
  <1>1. TypeOK /\ MutexInv /\ GenInv /\ NoLostWakeup
    BY DEF SemaphoreInv
  <1>2. /\ pc[t] = "test" /\ pc' = [pc EXCEPT ![t] = "poll"] /\ value <= 0
        /\ gen0' = [gen0 EXCEPT ![t] = gen] /\ owned' = FALSE
        /\ Quiet /\ UNCHANGED <<mode, late, timed_out>>
    BY DEF Sleep, Go, Quiet, counts
  <1>3. TypeOK'
    BY <1>1, <1>2 DEF TypeOK, PC, Created, Quiet
  <1>4. /\ pc'[t] = "poll" /\ \A u \in Threads \ {t} : pc'[u] = pc[u]
        /\ gen0'[t] = gen /\ \A u \in Threads \ {t} : gen0'[u] = gen0[u]
    BY <1>1, <1>2 DEF TypeOK
  <1>5. MutexInv' /\ Unposted' = Unposted
    BY <1>1, <1>2, <1>4 DEF MutexInv, Inside, Unposted
  <1>6. \A u \in Threads : gen0'[u] <= gen /\ (pc'[u] = "poll" /\ gen0'[u] = gen => value <= 0)
    BY <1>1, <1>2, <1>4 DEF TypeOK, GenInv, NoLostWakeup
  <1> QED
    BY <1>2, <1>3, <1>5, <1>6, QuietStep DEF PC, Waiting, Signalling

LEMMA WakeStep ==
  ASSUME SemaphoreInv, NEW t \in Threads, Wake(t) \/ Timeout(t) PROVE SemaphoreInv'
  <1>1. TypeOK /\ MutexInv
    BY DEF SemaphoreInv
  <1>2. /\ pc[t] = "poll" /\ pc' = [pc EXCEPT ![t] = "lock"]
        /\ Quiet /\ UNCHANGED <<owned, mode, late, gen0>>
    BY DEF Wake, Timeout, Go, Quiet, counts, wvars
  <1>3. timed_out' \in [Threads -> BOOLEAN]
    BY <1>1 DEF TypeOK, Wake, Timeout, wvars
  <1>4. TypeOK'
    BY <1>1, <1>2, <1>3 DEF TypeOK, PC, Created, Quiet
  <1>5. pc'[t] = "lock" /\ \A u \in Threads \ {t} : pc'[u] = pc[u]
    BY <1>1, <1>2 DEF TypeOK
  <1>6. MutexInv' /\ Unposted' = Unposted
    BY <1>1, <1>2, <1>5 DEF MutexInv, Inside, Unposted
  <1>7. \A u \in Threads : gen0'[u] <= gen /\ (pc'[u] = "poll" /\ gen0'[u] = gen => value <= 0)
    BY <1>2, <1>5 DEF SemaphoreInv, GenInv, NoLostWakeup
  <1> QED
    BY <1>2, <1>4, <1>6, <1>7, QuietStep DEF PC, Waiting, Signalling

LEMMA DeadlineStep ==
  ASSUME SemaphoreInv, NEW t \in Threads, DeadlinePasses(t) PROVE SemaphoreInv'
  <1>1. TypeOK
    BY DEF SemaphoreInv
  <1>2. /\ UNCHANGED <<private, owned, gen, value, freed, pc, mode, gen0, timed_out, counts>>
        /\ late' = [late EXCEPT ![t] = TRUE]
    BY DEF DeadlinePasses
  <1>3. TypeOK'
    BY <1>1, <1>2 DEF TypeOK, Created, counts
  <1>4. CountInv'
    BY <1>2, SamePosted DEF SemaphoreInv, Unposted, counts
  <1>5. MutexInv' /\ GenInv' /\ PrivateInv' /\ NoLostWakeup' /\ NoUseAfterFree'
    BY <1>2 DEF SemaphoreInv, MutexInv, GenInv, PrivateInv, NoLostWakeup, NoUseAfterFree, counts
  <1> QED
    BY <1>3, <1>4, <1>5 DEF SemaphoreInv

LEMMA UnlockStep ==
  ASSUME SemaphoreInv, NEW t \in Threads, Unlock(t) PROVE SemaphoreInv'
  <1>1. TypeOK /\ MutexInv
    BY DEF SemaphoreInv
  <1>2. PICK p \in {"taken", "idle"} :
          pc' = [pc EXCEPT ![t] = p] /\ (p = "taken" => private /\ pc[t] = "leave")
    BY DEF Unlock, Go
  <1>3. /\ pc[t] \in {"unlock", "leave", "leavefail"} /\ owned' = FALSE
        /\ Quiet /\ UNCHANGED wvars
    BY DEF Unlock, Quiet, counts
  <1>4. TypeOK'
    BY <1>1, <1>2, <1>3 DEF TypeOK, PC, Created, Quiet, wvars
  <1>5. pc'[t] = p /\ \A u \in Threads \ {t} : pc'[u] = pc[u]
    BY <1>1, <1>2 DEF TypeOK
  <1>6. MutexInv' /\ Unposted' = Unposted
    BY <1>1, <1>2, <1>3, <1>5 DEF MutexInv, Inside, Unposted
  <1>7. \A u \in Threads : gen0'[u] <= gen /\ (pc'[u] = "poll" /\ gen0'[u] = gen => value <= 0)
    BY <1>3, <1>5 DEF SemaphoreInv, GenInv, NoLostWakeup, wvars
  <1> QED
    BY <1>2, <1>3, <1>4, <1>6, <1>7, QuietStep DEF PC, Waiting, Signalling

\* The memory goes when its one signaller is out and its one waiter here.
LEMMA ReleaseStep ==
  ASSUME SemaphoreInv, NEW t \in Threads, Release(t) PROVE SemaphoreInv'
  <1>1. TypeOK /\ MutexInv /\ PrivateInv
    BY DEF SemaphoreInv
  <1>2. /\ pc[t] = "taken" /\ pc' = [pc EXCEPT ![t] = "idle"] /\ freed' = TRUE
        /\ UNCHANGED <<private, owned, gen, value, wvars, counts>>
    BY DEF Release, Go
  <1>3. TypeOK'
    BY <1>1, <1>2 DEF TypeOK, PC, Created, wvars, counts
  <1>4. pc'[t] = "idle" /\ \A u \in Threads \ {t} : pc'[u] = pc[u]
    BY <1>1, <1>2 DEF TypeOK
  <1>5. CountInv'
    BY <1>2, <1>4, SamePosted DEF SemaphoreInv, Unposted, counts
  <1>6. MutexInv' /\ GenInv' /\ NoLostWakeup'
    BY <1>2, <1>4 DEF SemaphoreInv, MutexInv, Inside, GenInv, NoLostWakeup, wvars, counts
  <1>7. PrivateInv'
    BY <1>1, <1>2, <1>4 DEF PrivateInv, Waiting, Signalling, counts
  <1>8. NoUseAfterFree'
    <2> SUFFICES ASSUME NEW u \in Threads \ {t} PROVE pc[u] = "idle"
      BY <1>4 DEF NoUseAfterFree
    <2>1. private /\ granted > 0 /\ pc[t] \in Waiting
      BY <1>1, <1>2 DEF PrivateInv, Waiting
    <2>2. pc[u] \notin Waiting /\ pc[u] \notin Signalling
      BY <2>1, <1>1 DEF PrivateInv
    <2> QED
      BY <2>2, <1>1 DEF TypeOK, PC, Waiting, Signalling
  <1> QED
    BY <1>3, <1>5, <1>6, <1>7, <1>8 DEF SemaphoreInv

-----------------------------------------------------------------------------
(***************************************************************************)
(* The invariance theorem, and what follows from the invariant.            *)
(***************************************************************************)
LEMMA NextSemaphore == SemaphoreInv /\ [Next]_vars => SemaphoreInv'
  <1> SUFFICES ASSUME SemaphoreInv, [Next]_vars PROVE SemaphoreInv'
    OBVIOUS
  <1>1. CASE Next
    <2> SUFFICES ASSUME NEW t \in Threads,
                        \/ CallSignal(t) \/ CallWait(t) \/ Lock(t) \/ DeadlinePasses(t)
                        \/ Step(t)
                 PROVE  SemaphoreInv'
      BY <1>1 DEF Next
    <2> QED
      BY CallSignalStep, CallWaitStep, LockStep, DeadlineStep, SignalStep, TakeStep, GiveUpStep,
         SleepStep, WakeStep, UnlockStep, ReleaseStep DEF Step
  <1>2. CASE UNCHANGED vars
    <2>1. TypeOK' /\ Unposted' = Unposted
      BY <1>2 DEF SemaphoreInv, TypeOK, Created, Unposted, vars, wvars, counts
    <2>2. CountInv'
      BY <1>2, <2>1, SamePosted DEF SemaphoreInv, vars, counts
    <2>3. MutexInv' /\ GenInv' /\ PrivateInv' /\ NoLostWakeup' /\ NoUseAfterFree'
      BY <1>2 DEF SemaphoreInv, MutexInv, GenInv, PrivateInv, NoLostWakeup, NoUseAfterFree,
                  vars, wvars, counts
    <2> QED
      BY <2>1, <2>2, <2>3 DEF SemaphoreInv
  <1> QED
    BY <1>1, <1>2

(***************************************************************************)
(* The inductive invariant of dispatch_semaphore_t: mutual exclusion on    *)
(* its mutex, a count for every signal, and the order in which the two     *)
(* users of a private semaphore leave it.                                  *)
(***************************************************************************)
THEOREM SemaphoreInvariance == Spec => []SemaphoreInv
  BY InitSemaphore, NextSemaphore, PTL DEF Spec

(***************************************************************************)
(* However signals, wakeups and timeouts race, sem->value is the initial   *)
(* value plus the signals posted minus the waits granted, and no wait      *)
(* takes what is a debt.                                                   *)
(***************************************************************************)
THEOREM PermitsAreCounted == Spec => []TypeOK
  <1>1. SemaphoreInv => TypeOK
    BY DEF SemaphoreInv
  <1> QED
    BY <1>1, SemaphoreInvariance, PTL

(***************************************************************************)
(* pthread_cond_signal is not missed: whoever polls the generation it read *)
(* before it released the mutex has nothing to take, as long as there are  *)
(* fewer signals than the counter has values.                              *)
(***************************************************************************)
THEOREM WakeupIsNotLost == Spec => []NoLostWakeup
  <1>1. SemaphoreInv => NoLostWakeup
    BY DEF SemaphoreInv
  <1> QED
    BY <1>1, SemaphoreInvariance, PTL

(***************************************************************************)
(* dispatch_sync_f frees its semaphore when nobody is in a call of it:     *)
(* the signaller has made its last access before the wait returned.        *)
(***************************************************************************)
THEOREM FreedWhenIdle == Spec => []NoUseAfterFree
  <1>1. SemaphoreInv => NoUseAfterFree
    BY DEF SemaphoreInv
  <1> QED
    BY <1>1, SemaphoreInvariance, PTL
=============================================================================
