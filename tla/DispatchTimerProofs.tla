------------------------- MODULE DispatchTimerProofs -------------------------
(***************************************************************************)
(* That dispatch_after never fires early, and at most the poll cap late,   *)
(* for any number of calls, any deltas and any cap.  Liveness (that every  *)
(* timer fires) stays with TLC.                                            *)
(***************************************************************************)
EXTENDS DispatchTimer, FiniteSetTheorems, SequenceTheorems, TLAPS

\* What is on the list, and what the timer thread holds.
ListInv ==
    /\ \A c \in Calls : call[c] = "listed" <=> \E k \in DOMAIN timers : timers[k] = c
    /\ tpc = "push" => firing \in Calls /\ call[firing] = "fired"

\* A deadline is never before the time asked for, and what has fired was due.
DeadlineInv ==
    \A c \in Calls :
       /\ asked[c] <= deadline[c]
       /\ call[c] \in {"direct", "fired", "pushed"} => deadline[c] <= clock

(***************************************************************************)
(* How late the timer thread can still be for a call.  One on its way to   *)
(* the list is late by code that ran, since its deadline was tested.  One  *)
(* on the list is late by less than the cap more, not only now but at the  *)
(* time the nap the thread prepares, or takes, ends.                       *)
(***************************************************************************)
LateInv ==
    /\ tpc = "spin" => wake_at <= clock + Cap
    /\ \A c \in Calls :
         /\ call[c] = "insert" => clock < deadline[c] + busy
         /\ call[c] = "listed" =>
              /\ clock < deadline[c] + Cap + busy
              /\ tpc = "arm" => clock + sleep_ns < deadline[c] + Cap + busy
              /\ tpc = "spin" => wake_at < deadline[c] + Cap + busy

TimerInv ==
    /\ TypeOK
    /\ ListInv
    /\ DeadlineInv
    /\ LateInv

USE TimerAssumption, ClockAssumption DEF TimerAssumption, ClockAssumption

-----------------------------------------------------------------------------
\* A set of positive numbers closed downwards is the interval its size says.
LEMMA InitialSegment ==
  ASSUME NEW n \in Nat, NEW S \in SUBSET (1 .. n),
         \A k \in S : \A j \in 1 .. k : j \in S
  PROVE  /\ Cardinality(S) \in 0 .. n
         /\ S = 1 .. Cardinality(S)
  <1>1. IsFiniteSet(1 .. n) /\ Cardinality(1 .. n) = n
    BY FS_Interval
  <1>2. IsFiniteSet(S) /\ Cardinality(S) \in Nat /\ Cardinality(S) <= n
    BY <1>1, FS_Subset, FS_CardinalityType
  <1>3. IsFiniteSet(1 .. Cardinality(S)) /\ Cardinality(1 .. Cardinality(S)) = Cardinality(S)
    BY <1>2, FS_Interval
  <1>4. ASSUME NEW k \in S PROVE k \in 1 .. Cardinality(S)
    <2>1. k \in Nat /\ k >= 1 /\ Cardinality(1 .. k) = k
      BY FS_Interval
    <2>2. 1 .. k \in SUBSET S
      OBVIOUS
    <2>3. k <= Cardinality(S)
      BY <1>2, <2>1, <2>2, FS_Subset
    <2> QED
      BY <1>2, <2>1, <2>3
  <1>5. S \in SUBSET (1 .. Cardinality(S))
    BY <1>4
  <1>6. 1 .. Cardinality(S) = S
    BY ONLY <1>3, <1>5, FS_Subset
  <1> QED
    BY <1>2, <1>6

\* What InsertAt returns, position by position.
LEMMA InsertAtElements ==
  ASSUME NEW S, NEW s \in Seq(S), NEW i \in 1 .. Len(s) + 1, NEW e \in S
  PROVE  /\ InsertAt(s, i, e) \in Seq(S)
         /\ Len(InsertAt(s, i, e)) = Len(s) + 1
         /\ \A k \in 1 .. Len(s) + 1 :
              InsertAt(s, i, e)[k] = IF k < i THEN s[k]
                                     ELSE IF k = i THEN e ELSE s[k - 1]
  <1> DEFINE front == SubSeq(s, 1, i - 1)
             back == SubSeq(s, i, Len(s))
  <1>1. /\ front \in Seq(S)
        /\ Len(front) = i - 1
        /\ \A k \in 1 .. i - 1 : front[k] = s[k]
    BY SubSeqProperties
  <1>2. /\ back \in Seq(S)
        /\ Len(back) = Len(s) - i + 1
        /\ \A k \in 1 .. Len(s) - i + 1 : back[k] = s[k + i - 1]
    BY SubSeqProperties
  <1>3. InsertAt(s, i, e) = front \o <<e>> \o back
    BY DEF InsertAt
  <1> HIDE DEF front, back
  <1>4. <<e>> \in Seq(S) /\ Len(<<e>>) = 1 /\ <<e>>[1] = e
    OBVIOUS
  <1> DEFINE both == front \o <<e>>
  <1>5. /\ both \in Seq(S)
        /\ Len(both) = i
        /\ \A k \in 1 .. i : both[k] = IF k < i THEN s[k] ELSE e
    BY <1>1, <1>4
  <1>6. InsertAt(s, i, e) = both \o back
    BY <1>3
  <1> HIDE DEF both
  <1>7. /\ both \o back \in Seq(S)
        /\ Len(both \o back) = i + (Len(s) - i + 1)
        /\ \A k \in 1 .. i + (Len(s) - i + 1) :
             (both \o back)[k] = IF k <= i THEN both[k] ELSE back[k - i]
    <2>1. both \in Seq(S) /\ back \in Seq(S)
      BY <1>2, <1>5
    <2>2. /\ both \o back \in Seq(S)
          /\ Len(both \o back) = Len(both) + Len(back)
          /\ \A k \in 1 .. Len(both) + Len(back) :
               (both \o back)[k] = IF k <= Len(both) THEN both[k]
                                   ELSE back[k - Len(both)]
      BY ONLY <2>1, ConcatProperties
    <2> QED
      BY <1>2, <1>5, <2>2
  <1>8. \A k \in 1 .. Len(s) + 1 : k > i => back[k - i] = s[k - 1]
    BY <1>2
  <1> QED
    BY <1>5, <1>6, <1>7, <1>8

\* The list stays sorted: what is in front of the insertion point is not
\* later than the new timer, what is behind it is later.
LEMMA InsertionPointSorts ==
  ASSUME TypeOK, NEW c \in Calls
  PROVE  /\ InsertionPoint(c) \in 1 .. Len(timers) + 1
         /\ \A k \in 1 .. Len(timers) :
              k < InsertionPoint(c) <=> deadline[timers[k]] <= deadline[c]
  <1> DEFINE S == {k \in DOMAIN timers : deadline[timers[k]] <= deadline[c]}
  <1>1. timers \in Seq(Calls) /\ DOMAIN timers = 1 .. Len(timers) /\ Len(timers) \in Nat
    BY DEF TypeOK
  <1>2. \A k \in DOMAIN timers : deadline[timers[k]] \in Int
    BY <1>1 DEF TypeOK
  <1>3. deadline[c] \in Int
    BY DEF TypeOK
  <1>4. \A k \in S : \A j \in 1 .. k : j \in S
    <2> SUFFICES ASSUME NEW k \in S, NEW j \in 1 .. k PROVE j \in S
      OBVIOUS
    <2>1. k \in DOMAIN timers /\ j \in DOMAIN timers /\ deadline[timers[k]] <= deadline[c]
      BY <1>1
    <2>2. deadline[timers[j]] <= deadline[timers[k]]
      <3>1. CASE j = k
        BY <3>1, <2>1, <1>2
      <3>2. CASE j < k
        BY <3>2, <2>1 DEF TypeOK
      <3> QED
        BY <1>1, <2>1, <3>1, <3>2
    <2> QED
      BY <1>2, <1>3, <2>1, <2>2
  <1>5. S \in SUBSET (1 .. Len(timers))
    BY <1>1
  <1>6. Cardinality(S) \in 0 .. Len(timers) /\ S = 1 .. Cardinality(S)
    BY <1>1, <1>4, <1>5, InitialSegment
  <1>7. InsertionPoint(c) = 1 + Cardinality(S)
    BY DEF InsertionPoint
  <1>8. \A k \in 1 .. Len(timers) : k \in S <=> deadline[timers[k]] <= deadline[c]
    BY <1>1
  <1> HIDE DEF S
  <1> QED
    BY <1>1, <1>6, <1>7, <1>8

-----------------------------------------------------------------------------
LEMMA InitTimer == Init => TimerInv
  <1> SUFFICES ASSUME Init PROVE TimerInv
    OBVIOUS
  <1>1. TypeOK
    BY DEF Init, TypeOK
  <1>2. ListInv /\ DeadlineInv /\ LateInv
    BY DEF Init, ListInv, DeadlineInv, LateInv
  <1> QED
    BY <1>1, <1>2 DEF TimerInv

LEMMA DispatchTimeStep ==
  ASSUME TimerInv, NEW c \in Calls, DispatchTime(c)
  PROVE  TimerInv'
  <1> USE DEF TimerInv
  <1>1. PICK delta \in Deltas :
          /\ deadline' = [deadline EXCEPT ![c] = AddDelta(clock, delta)]
          /\ asked' = [asked EXCEPT ![c] = clock + delta]
    BY DEF DispatchTime
  <1>2. delta \in Int /\ clock \in Nat /\ clock + delta < TimeSize
    BY DEF DispatchTime, TypeOK
  <1>3. AddDelta(clock, delta) \in 0 .. TimeSize - 1 /\ clock + delta <= AddDelta(clock, delta)
    <2>1. CASE delta >= 0
      <3>1. (clock + delta) % TimeSize = clock + delta
        BY <1>2, <2>1
      <3> QED
        BY <1>2, <2>1, <3>1 DEF AddDelta
    <2>2. CASE delta < 0
      BY <1>2, <2>2 DEF AddDelta
    <2> QED
      BY <1>2, <2>1, <2>2
  <1>4. /\ call[c] = "new"
        /\ call' = [call EXCEPT ![c] = "timed"]
        /\ UNCHANGED <<busy, clock, timers, tpc, firing, sleep_ns, wake_at>>
    BY DEF DispatchTime, tvars
  <1>5. \A k \in DOMAIN timers : timers[k] # c
    BY <1>4 DEF TypeOK, ListInv
  <1>6. /\ \A b \in Calls \ {c} : deadline'[b] = deadline[b] /\ asked'[b] = asked[b] /\ call'[b] = call[b]
        /\ deadline'[c] = AddDelta(clock, delta) /\ asked'[c] = clock + delta /\ call'[c] = "timed"
    BY <1>1, <1>4 DEF TypeOK
  <1>7. TypeOK'
    <2>1. \A k \in DOMAIN timers : deadline'[timers[k]] = deadline[timers[k]]
      <3>1. timers \in Seq(Calls)
        BY DEF TypeOK
      <3>2. \A k \in DOMAIN timers : timers[k] \in Calls
        BY ONLY <3>1
      <3> QED
        BY ONLY <1>5, <1>6, <3>2
    <2>2. /\ deadline' \in [Calls -> 0 .. TimeSize - 1]
          /\ asked' \in [Calls -> Int]
          /\ call' \in [Calls -> {"new", "timed", "direct", "insert", "listed", "fired", "pushed"}]
      BY <1>1, <1>2, <1>3, <1>4 DEF TypeOK
    <2>3. /\ timers' \in Seq(Calls)
          /\ \A k, l \in DOMAIN timers' : k < l => deadline'[timers'[k]] <= deadline'[timers'[l]]
      <3>1. /\ timers \in Seq(Calls)
            /\ \A k, l \in DOMAIN timers : k < l => deadline[timers[k]] <= deadline[timers[l]]
        BY DEF TypeOK
      <3>2. timers' = timers
        BY <1>4
      <3> QED
        BY ONLY <2>1, <3>1, <3>2
    <2> QED
      BY <1>4, <2>2, <2>3 DEF TypeOK
  <1>8. ListInv'
    BY <1>4, <1>5, <1>6 DEF ListInv, TypeOK
  <1>9. DeadlineInv'
    BY <1>3, <1>4, <1>6 DEF DeadlineInv
  <1>10. LateInv'
    BY <1>4, <1>6 DEF LateInv
  <1> QED
    BY <1>7, <1>8, <1>9, <1>10

LEMMA DispatchAfterStep ==
  ASSUME TimerInv, NEW c \in Calls, DispatchAfter(c)
  PROVE  TimerInv'
  <1> USE DEF TimerInv
  <1>1. /\ call[c] = "timed"
        /\ call' = [call EXCEPT ![c] = IF deadline[c] <= clock THEN "direct" ELSE "insert"]
        /\ UNCHANGED <<busy, clock, timers, deadline, asked, tpc, firing, sleep_ns, wake_at>>
    BY DEF DispatchAfter, tvars
  <1>2. /\ \A b \in Calls \ {c} : call'[b] = call[b]
        /\ call'[c] = IF deadline[c] <= clock THEN "direct" ELSE "insert"
    BY <1>1 DEF TypeOK
  <1>3. TypeOK'
    BY <1>1 DEF TypeOK
  <1>4. ListInv'
    BY <1>1, <1>2 DEF ListInv, TypeOK
  <1>5. clock \in Nat /\ deadline[c] \in Nat /\ busy \in Nat
    BY DEF TypeOK
  <1>6. DeadlineInv'
    BY <1>1, <1>2, <1>5 DEF DeadlineInv
  <1>7. LateInv'
    BY <1>1, <1>2, <1>5 DEF LateInv
  <1> QED
    BY <1>3, <1>4, <1>6, <1>7

LEMMA PushDirectStep ==
  ASSUME TimerInv, NEW c \in Calls, PushDirect(c)
  PROVE  TimerInv'
  <1> USE DEF TimerInv
  <1>1. /\ call[c] = "direct"
        /\ call' = [call EXCEPT ![c] = "pushed"]
        /\ UNCHANGED <<busy, clock, timers, deadline, asked, tpc, firing, sleep_ns, wake_at>>
    BY DEF PushDirect, tvars
  <1>2. /\ \A b \in Calls \ {c} : call'[b] = call[b]
        /\ call'[c] = "pushed"
    BY <1>1 DEF TypeOK
  <1>3. TypeOK'
    BY <1>1 DEF TypeOK
  <1>4. ListInv'
    BY <1>1, <1>2 DEF ListInv, TypeOK
  <1>5. DeadlineInv'
    BY <1>1, <1>2 DEF DeadlineInv
  <1>6. LateInv'
    BY <1>1, <1>2 DEF LateInv
  <1> QED
    BY <1>3, <1>4, <1>5, <1>6

LEMMA InsertStep ==
  ASSUME TimerInv, NEW c \in Calls, Insert(c)
  PROVE  TimerInv'
  <1> USE DEF TimerInv
  <1>1. /\ call[c] = "insert"
        /\ timers' = InsertAt(timers, InsertionPoint(c), c)
        /\ call' = [call EXCEPT ![c] = "listed"]
        /\ UNCHANGED <<busy, clock, deadline, asked, tpc, firing, sleep_ns, wake_at>>
    BY DEF Insert, tvars
  <1>2. PICK p \in 1 .. Len(timers) + 1 :
          /\ p = InsertionPoint(c)
          /\ \A k \in 1 .. Len(timers) : k < p <=> deadline[timers[k]] <= deadline[c]
    BY InsertionPointSorts
  <1>3. /\ timers \in Seq(Calls)
        /\ DOMAIN timers = 1 .. Len(timers)
        /\ Len(timers) \in Nat
        /\ p \in Nat
    BY <1>2 DEF TypeOK
  <1>4. /\ timers' \in Seq(Calls)
        /\ DOMAIN timers' = 1 .. Len(timers) + 1
        /\ \A k \in 1 .. Len(timers) + 1 :
             timers'[k] = IF k < p THEN timers[k] ELSE IF k = p THEN c ELSE timers[k - 1]
    <2>1. timers' = InsertAt(timers, p, c)
      BY <1>1, <1>2
    <2>2. /\ InsertAt(timers, p, c) \in Seq(Calls)
          /\ Len(InsertAt(timers, p, c)) = Len(timers) + 1
          /\ \A k \in 1 .. Len(timers) + 1 :
               InsertAt(timers, p, c)[k] = IF k < p THEN timers[k]
                                           ELSE IF k = p THEN c ELSE timers[k - 1]
      BY <1>3, InsertAtElements
    <2> QED
      BY <1>3, <2>1, <2>2
  <1>5. /\ \A b \in Calls \ {c} : call'[b] = call[b]
        /\ call'[c] = "listed"
    BY <1>1 DEF TypeOK
  <1>6. \A k \in 1 .. Len(timers) : timers[k] # c /\ timers[k] \in Calls
    <2>1. \A k \in DOMAIN timers : timers[k] \in Calls
      BY ONLY <1>3
    <2>2. \A k \in DOMAIN timers : call[timers[k]] = "listed"
      BY DEF TypeOK, ListInv
    <2>3. call[c] = "insert"
      BY <1>1
    <2> QED
      BY ONLY <1>3, <2>1, <2>2, <2>3
  <1>7. \A b \in Calls : deadline[b] \in Nat
    BY DEF TypeOK
  <1>8. ASSUME NEW k \in DOMAIN timers', NEW l \in DOMAIN timers', k < l
        PROVE  timers'[k] # timers'[l] /\ deadline[timers'[k]] <= deadline[timers'[l]]
    <2>1. \A i, j \in 1 .. Len(timers) : i < j =>
            timers[i] # timers[j] /\ deadline[timers[i]] <= deadline[timers[j]]
      BY <1>3 DEF TypeOK
    <2>2. k \in 1 .. Len(timers) + 1 /\ l \in 1 .. Len(timers) + 1
      BY <1>4
    <2>3. CASE l < p
      BY <1>3, <1>4, <1>8, <2>1, <2>2, <2>3
    <2>4. CASE l = p
      BY <1>2, <1>3, <1>4, <1>6, <1>8, <2>2, <2>4
    <2>5. CASE k < p /\ p < l
      <3>1. k \in 1 .. Len(timers) /\ l - 1 \in 1 .. Len(timers) /\ k < l - 1
        BY <1>2, <1>3, <2>2, <2>5
      <3> QED
        BY <1>3, <1>4, <2>1, <2>2, <2>5, <3>1
    <2>6. CASE k = p
      <3>1. l - 1 \in 1 .. Len(timers) /\ ~(l - 1 < p)
        BY <1>2, <1>3, <1>8, <2>2, <2>6
      <3>2. timers'[k] = c /\ timers'[l] = timers[l - 1]
        BY <1>3, <1>4, <1>8, <2>2, <2>6
      <3> QED
        BY <1>2, <1>6, <1>7, <3>1, <3>2
    <2>7. CASE p < k
      <3>1. k - 1 \in 1 .. Len(timers) /\ l - 1 \in 1 .. Len(timers) /\ k - 1 < l - 1
        BY <1>2, <1>3, <1>8, <2>2, <2>7
      <3>2. timers'[k] = timers[k - 1] /\ timers'[l] = timers[l - 1]
        BY <1>3, <1>4, <1>8, <2>2, <2>7
      <3> QED
        BY <2>1, <3>1, <3>2
    <2> QED
      BY <1>3, <1>8, <2>2, <2>3, <2>4, <2>5, <2>6, <2>7
  <1>9. TypeOK'
    <2>1. call' \in [Calls -> {"new", "timed", "direct", "insert", "listed", "fired", "pushed"}]
      BY <1>1 DEF TypeOK
    <2> QED
      BY <1>1, <1>4, <1>8, <2>1 DEF TypeOK
  <1>10. ListInv'
    <2>1. timers'[p] = c /\ p \in DOMAIN timers'
      BY <1>3, <1>4
    <2>2. ASSUME NEW b \in Calls \ {c}
          PROVE  (\E k \in DOMAIN timers : timers[k] = b) <=> (\E k \in DOMAIN timers' : timers'[k] = b)
      <3>1. ASSUME NEW k \in DOMAIN timers, timers[k] = b
            PROVE  \E l \in DOMAIN timers' : timers'[l] = b
        <4>1. CASE k < p
          BY <1>3, <1>4, <3>1, <4>1
        <4>2. CASE ~(k < p)
          <5>1. k + 1 \in DOMAIN timers' /\ timers'[k + 1] = timers[k]
            BY <1>3, <1>4, <4>2
          <5> QED
            BY <3>1, <5>1
        <4> QED
          BY <4>1, <4>2
      <3>2. ASSUME NEW k \in DOMAIN timers', timers'[k] = b
            PROVE  \E l \in DOMAIN timers : timers[l] = b
        <4>1. CASE k < p
          BY <1>2, <1>3, <1>4, <3>2, <4>1
        <4>2. CASE ~(k < p)
          <5>1. k # p
            BY <2>1, <3>2
          <5>2. k - 1 \in DOMAIN timers /\ timers'[k] = timers[k - 1]
            BY <1>2, <1>3, <1>4, <4>2, <5>1
          <5> QED
            BY <3>2, <5>2
        <4> QED
          BY <4>1, <4>2
      <3> QED
        BY <3>1, <3>2
    <2>3. \A b \in Calls : call'[b] = "listed" <=> \E k \in DOMAIN timers' : timers'[k] = b
      BY <1>5, <2>1, <2>2 DEF ListInv
    <2>4. tpc' = "push" => firing' \in Calls /\ call'[firing'] = "fired"
      BY <1>1, <1>5 DEF ListInv
    <2> QED
      BY <2>3, <2>4 DEF ListInv
  <1>11. DeadlineInv'
    BY <1>1, <1>5 DEF DeadlineInv
  <1>12. LateInv'
    <2>1. /\ clock \in Nat
          /\ busy \in Nat
          /\ sleep_ns \in Nat
          /\ sleep_ns <= Cap
          /\ wake_at \in Nat
          /\ deadline[c] \in Nat
      BY DEF TypeOK
    <2>2. clock < deadline[c] + busy
      BY <1>1 DEF LateInv
    <2>3. tpc = "spin" => wake_at < deadline[c] + Cap + busy
      BY <2>1, <2>2 DEF LateInv
    <2>4. clock < deadline[c] + Cap + busy /\ clock + sleep_ns < deadline[c] + Cap + busy
      BY <2>1, <2>2
    <2> QED
      BY <1>1, <1>5, <2>3, <2>4 DEF LateInv
  <1> QED
    BY <1>9, <1>10, <1>11, <1>12

LEMMA FireStep ==
  ASSUME TimerInv, Fire
  PROVE  TimerInv'
  <1> USE DEF TimerInv
  <1>1. PICK c : c = Head(timers)
    OBVIOUS
  <1>2. /\ tpc = "scan"
        /\ timers # <<>>
        /\ deadline[c] <= clock
        /\ firing' = c
        /\ timers' = Tail(timers)
        /\ call' = [call EXCEPT ![c] = "fired"]
        /\ tpc' = "push"
        /\ UNCHANGED <<busy, clock, deadline, asked, sleep_ns, wake_at>>
    BY <1>1 DEF Fire, HeadIsDue
  <1>3. timers \in Seq(Calls)
    BY DEF TypeOK
  <1>4. /\ DOMAIN timers = 1 .. Len(timers)
        /\ Len(timers) \in Nat \ {0}
        /\ c = timers[1]
        /\ c \in Calls
    BY <1>1, <1>2, <1>3
  <1>5. /\ timers' \in Seq(Calls)
        /\ DOMAIN timers' = 1 .. Len(timers) - 1
        /\ \A k \in 1 .. Len(timers) - 1 : timers'[k] = timers[k + 1]
    BY <1>2, <1>3, <1>4, HeadTailProperties
  <1>6. \A k, l \in 1 .. Len(timers) : k < l =>
          timers[k] # timers[l] /\ deadline[timers[k]] <= deadline[timers[l]]
    BY <1>4 DEF TypeOK
  <1>7. /\ \A b \in Calls \ {c} : call'[b] = call[b]
        /\ call'[c] = "fired"
    BY <1>2, <1>4 DEF TypeOK
  <1>8. TypeOK'
    <2>1. \A k, l \in DOMAIN timers' : k < l =>
            timers'[k] # timers'[l] /\ deadline[timers'[k]] <= deadline[timers'[l]]
      BY <1>4, <1>5, <1>6
    <2>2. call' \in [Calls -> {"new", "timed", "direct", "insert", "listed", "fired", "pushed"}]
      BY <1>2, <1>4 DEF TypeOK
    <2> QED
      BY <1>2, <1>4, <1>5, <2>1, <2>2 DEF TypeOK
  <1>9. ListInv'
    <2>1. \A k \in DOMAIN timers' : timers'[k] # c
      BY <1>4, <1>5, <1>6
    <2>2. ASSUME NEW b \in Calls \ {c}
          PROVE  (\E k \in DOMAIN timers : timers[k] = b) <=> (\E k \in DOMAIN timers' : timers'[k] = b)
      <3>1. ASSUME NEW k \in DOMAIN timers, timers[k] = b
            PROVE  k - 1 \in DOMAIN timers' /\ timers'[k - 1] = b
        BY <1>4, <1>5, <3>1
      <3>2. ASSUME NEW k \in DOMAIN timers', timers'[k] = b
            PROVE  k + 1 \in DOMAIN timers /\ timers[k + 1] = b
        BY <1>4, <1>5, <3>2
      <3> QED
        BY <3>1, <3>2
    <2>3. \A b \in Calls : call'[b] = "listed" <=> \E k \in DOMAIN timers' : timers'[k] = b
      BY <1>7, <2>1, <2>2 DEF ListInv
    <2> QED
      BY <1>2, <1>4, <1>7, <2>3 DEF ListInv
  <1>10. DeadlineInv'
    BY <1>2, <1>7 DEF DeadlineInv
  <1>11. LateInv'
    BY <1>2, <1>7 DEF LateInv
  <1> QED
    BY <1>8, <1>9, <1>10, <1>11

LEMMA StartNapStep ==
  ASSUME TimerInv, StartNap
  PROVE  TimerInv'
  <1> USE DEF TimerInv
  <1>1. /\ tpc = "scan"
        /\ ~HeadIsDue
        /\ sleep_ns' = Nap
        /\ tpc' = "arm"
        /\ UNCHANGED <<busy, clock, timers, deadline, asked, call, firing, wake_at>>
    BY DEF StartNap
  <1>2. /\ clock \in Nat
        /\ busy \in Nat
        /\ timers \in Seq(Calls)
        /\ DOMAIN timers = 1 .. Len(timers)
        /\ \A b \in Calls : deadline[b] \in Nat
    BY DEF TypeOK
  <1>3. ASSUME timers # <<>>
        PROVE  1 \in DOMAIN timers /\ Head(timers) = timers[1] /\ timers[1] \in Calls
    BY <1>2, <1>3
  <1>4. timers # <<>> => deadline[timers[1]] > clock
    BY <1>1, <1>2, <1>3 DEF HeadIsDue
  <1>5. Nap \in 0 .. Cap /\ (timers # <<>> => clock + Nap <= deadline[timers[1]])
    BY <1>2, <1>3, <1>4 DEF Nap, Least
  <1>6. ASSUME NEW c \in Calls, call[c] = "listed"
        PROVE  clock + Nap < deadline[c] + Cap + busy
    <2>1. PICK k \in DOMAIN timers : timers[k] = c
      BY <1>6 DEF ListInv
    <2>2. timers # <<>> /\ 1 \in DOMAIN timers
      BY <1>2, <2>1
    <2>3. deadline[timers[1]] <= deadline[c]
      <3>1. CASE k = 1
        BY <1>2, <2>1, <3>1
      <3>2. CASE 1 < k
        BY <2>1, <2>2, <3>2 DEF TypeOK
      <3> QED
        BY <1>2, <2>1, <3>1, <3>2
    <2> QED
      BY <1>2, <1>3, <1>5, <2>2, <2>3
  <1>7. TypeOK'
    BY <1>1, <1>5 DEF TypeOK
  <1>8. ListInv' /\ DeadlineInv'
    BY <1>1 DEF ListInv, DeadlineInv
  <1>9. LateInv'
    BY <1>1, <1>6 DEF LateInv
  <1> QED
    BY <1>7, <1>8, <1>9

LEMMA PushFiredStep ==
  ASSUME TimerInv, PushFired
  PROVE  TimerInv'
  <1> USE DEF TimerInv
  <1>1. PICK c : c = firing
    OBVIOUS
  <1>2. /\ tpc = "push"
        /\ call' = [call EXCEPT ![c] = "pushed"]
        /\ firing' = None
        /\ tpc' = "scan"
        /\ UNCHANGED <<busy, clock, timers, deadline, asked, sleep_ns, wake_at>>
    BY <1>1 DEF PushFired
  <1>3. c \in Calls /\ call[c] = "fired"
    BY <1>1, <1>2 DEF ListInv
  <1>4. /\ \A b \in Calls \ {c} : call'[b] = call[b]
        /\ call'[c] = "pushed"
    BY <1>2, <1>3 DEF TypeOK
  <1>5. TypeOK'
    BY <1>2, <1>3 DEF TypeOK
  <1>6. ListInv'
    BY <1>2, <1>3, <1>4 DEF ListInv, TypeOK
  <1>7. DeadlineInv'
    BY <1>2, <1>3, <1>4 DEF DeadlineInv
  <1>8. LateInv'
    BY <1>2, <1>4 DEF LateInv
  <1> QED
    BY <1>5, <1>6, <1>7, <1>8

LEMMA ArmStep ==
  ASSUME TimerInv, Arm
  PROVE  TimerInv'
  <1> USE DEF TimerInv
  <1>1. /\ tpc = "arm"
        /\ wake_at' = clock + sleep_ns
        /\ tpc' = "spin"
        /\ UNCHANGED <<busy, clock, timers, deadline, asked, call, firing, sleep_ns>>
    BY DEF Arm
  <1>2. clock \in Nat /\ sleep_ns \in 0 .. Cap
    BY DEF TypeOK
  <1>3. TypeOK'
    BY <1>1, <1>2 DEF TypeOK
  <1>4. ListInv' /\ DeadlineInv'
    BY <1>1 DEF ListInv, DeadlineInv
  <1>5. LateInv'
    BY <1>1, <1>2 DEF LateInv
  <1> QED
    BY <1>3, <1>4, <1>5

LEMMA WakeStep ==
  ASSUME TimerInv, Wake
  PROVE  TimerInv'
  <1> USE DEF TimerInv
  <1>1. /\ tpc' = "scan"
        /\ UNCHANGED <<busy, clock, timers, deadline, asked, call, firing, sleep_ns, wake_at>>
    BY DEF Wake
  <1>2. TypeOK'
    BY <1>1 DEF TypeOK
  <1>3. ListInv' /\ DeadlineInv' /\ LateInv'
    BY <1>1 DEF ListInv, DeadlineInv, LateInv
  <1> QED
    BY <1>2, <1>3

LEMMA TickStep ==
  ASSUME TimerInv, Tick
  PROVE  TimerInv'
  <1> USE DEF TimerInv
  <1>1. /\ clock' = clock + 1
        /\ busy' = IF Idle THEN busy ELSE busy + 1
        /\ UNCHANGED <<timers, deadline, asked, call, tpc, firing, sleep_ns, wake_at>>
    BY DEF Tick, tvars
  <1>2. /\ clock \in Nat
        /\ busy \in 0 .. clock
        /\ sleep_ns \in 0 .. Cap
        /\ wake_at \in Nat
        /\ deadline \in [Calls -> Nat]
        /\ asked \in [Calls -> Int]
    BY DEF TypeOK
  <1>3. TypeOK'
    BY <1>1, <1>2 DEF TypeOK
  <1>4. ListInv'
    BY <1>1 DEF ListInv
  <1>5. DeadlineInv'
    BY <1>1, <1>2 DEF DeadlineInv
  <1>6. LateInv'
    <2>1. CASE Idle
      <3>1. tpc = "spin" /\ clock < wake_at /\ \A c \in Calls : call[c] # "insert"
        BY <2>1 DEF Idle
      <3>2. busy' = busy
        BY <1>1, <2>1
      <3> QED
        BY <1>1, <1>2, <3>1, <3>2 DEF LateInv
    <2>2. CASE ~Idle
      <3>1. busy' = busy + 1
        BY <1>1, <2>2
      <3> QED
        BY <1>1, <1>2, <3>1 DEF LateInv
    <2> QED
      BY <2>1, <2>2
  <1> QED
    BY <1>3, <1>4, <1>5, <1>6

-----------------------------------------------------------------------------
(***************************************************************************)
(* The invariant holds of every behaviour of dispatch_after and its timer  *)
(* thread.                                                                 *)
(***************************************************************************)
THEOREM TimerInvariance == Spec => []TimerInv
  <1>1. Init => TimerInv
    BY InitTimer
  <1>2. TimerInv /\ [Next]_vars => TimerInv'
    <2> SUFFICES ASSUME TimerInv, [Next]_vars PROVE TimerInv'
      OBVIOUS
    <2>1. CASE CallStep
      BY <2>1, DispatchTimeStep, DispatchAfterStep, InsertStep, PushDirectStep DEF CallStep
    <2>2. CASE TimerStep
      BY <2>2, FireStep, StartNapStep, PushFiredStep, ArmStep, WakeStep DEF TimerStep
    <2>3. CASE Tick
      BY <2>3, TickStep
    <2>4. CASE UNCHANGED vars
      <3>1. TypeOK'
        BY <2>4 DEF TimerInv, TypeOK, vars, tvars
      <3>2. ListInv' /\ DeadlineInv' /\ LateInv'
        BY <2>4 DEF TimerInv, ListInv, DeadlineInv, LateInv, vars, tvars
      <3> QED
        BY <3>1, <3>2 DEF TimerInv
    <2> QED
      BY <2>1, <2>2, <2>3, <2>4 DEF Next
  <1> QED
    BY <1>1, <1>2, PTL DEF Spec

(***************************************************************************)
(* _dispatch_timer_schedule keeps g_timers.head sorted by deadline with    *)
(* each timer on it once, whatever the order callers reach the list in.    *)
(***************************************************************************)
THEOREM TimerListSorted == Spec => []TypeOK
  <1>1. TimerInv => TypeOK
    BY DEF TimerInv
  <1> QED
    BY <1>1, TimerInvariance, PTL

(***************************************************************************)
(* No block given to dispatch_after is pushed before the time its caller   *)
(* asked for, on the list's path or on the direct one.                     *)
(***************************************************************************)
THEOREM TimersAreNeverEarly == Spec => []NeverEarly
  <1>1. TimerInv => NeverEarly
    <2> SUFFICES ASSUME TimerInv, NEW c \in Calls, call[c] \in {"direct", "fired", "pushed"}
                 PROVE  clock >= asked[c]
      BY DEF NeverEarly
    <2>1. clock \in Int /\ deadline[c] \in Int /\ asked[c] \in Int
      BY DEF TimerInv, TypeOK
    <2>2. asked[c] <= deadline[c] /\ deadline[c] <= clock
      BY DEF TimerInv, DeadlineInv
    <2> QED
      BY <2>1, <2>2
  <1> QED
    BY <1>1, TimerInvariance, PTL

(***************************************************************************)
(* TIMER_POLL_CAP_NS bounds how late timer_main is, even for a timer put   *)
(* in front of the one it sleeps for: only running code comes on top.      *)
(***************************************************************************)
THEOREM LatenessIsCapped == Spec => []LatenessBound
  <1>1. TimerInv => LatenessBound
    BY DEF TimerInv, LateInv, LatenessBound
  <1> QED
    BY <1>1, TimerInvariance, PTL
=============================================================================
