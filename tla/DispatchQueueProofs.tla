------------------------- MODULE DispatchQueueProofs -------------------------
(***************************************************************************)
(* Proofs about DispatchQueue, for any number of queues, workers, clients  *)
(* and items and any calling pattern: IInv is inductive, and the safety    *)
(* properties follow from it.                                              *)
(***************************************************************************)
EXTENDS DispatchQueue, FiniteSetTheorems, TLAPS

LEMMA ItemsNat == Items \subseteq Nat
  BY QueueAssumption DEF Items

\* The identity after an item's is still a possible value of next.
LEMMA ItemsNext == \A i \in Items : i + 1 \in 1 .. MaxItems + 1
  BY QueueAssumption DEF Items

\* The initial state satisfies every part of the invariant.
LEMMA InitInv == Init => IInv
  <1> SUFFICES ASSUME Init PROVE IInv
    OBVIOUS
  <1> USE QueueAssumption, ItemsNat DEF Init, Threads, Caller
  <1>1. TypeOK
    <2>1. fifo \in [Queues -> Seq(Items)] /\ runnable \in Seq(Queues)
      OBVIOUS
    <2>2. draining \in [Queues -> BOOLEAN] /\ on_runnable_list \in [Queues -> BOOLEAN]
      OBVIOUS
    <2>3. next \in 1 .. MaxItems + 1
      OBVIOUS
    <2>4. /\ status \in [Items -> {"free", "queued", "running", "done"}]
          /\ home \in [Items -> Caller]
          /\ kind \in [Items -> {"async", "sync"}]
          /\ sem \in [Items -> Nat]
          /\ frames \subseteq Items
      OBVIOUS
    <2>5. pc \in [Threads -> PC]
      BY DEF PC
    <2> QED
      BY <2>1, <2>2, <2>3, <2>4, <2>5 DEF TypeOK
  <1>2. ControlInv
    BY DEF ControlInv
  <1>3. OwnerInv
    <2> SUFFICES ASSUME NEW q \in SerialQueues
                 PROVE Pushers(q) = {} /\ Places(q) = {} /\ Holders(q) = {}
                         /\ Drainers(q) = {}
      BY DEF OwnerInv, OwnedOnce
    <2> QED
      BY DEF Pushers, Places, Holders, Drainers
  <1>4. ItemInv
    BY DEF ItemInv, AllocInv, FifoInv, QueuedInv, RunningInv, Items
  <1>5. SyncInv /\ SerialOrder /\ SyncFrameAlive /\ NoSelfDeadlock
    BY DEF SyncInv, SerialOrder, SyncFrameAlive, NoSelfDeadlock
  <1> QED
    BY <1>1, <1>2, <1>3, <1>4, <1>5 DEF IInv

-----------------------------------------------------------------------------
(***************************************************************************)
(* Types and control, one step per action.                                 *)
(***************************************************************************)
LEMMA TypeStep ==
  ASSUME TypeOK, ControlInv, [Next]_vars PROVE TypeOK' /\ ControlInv'
  <1> USE QueueAssumption DEF Threads, Caller, PC, qvars, ivars, svars
  <1>1. ASSUME NEW t \in Threads, NEW q \in Queues, DispatchAsync(t, q)
        PROVE TypeOK' /\ ControlInv'
    <2>1. TypeOK'
      BY <1>1, ItemsNext DEF DispatchAsync, PushItem, TypeOK, ControlInv
    <2>2. ControlInv'
      BY <1>1, ItemsNext DEF DispatchAsync, PushItem, TypeOK, ControlInv
    <2> QED
      BY <2>1, <2>2
  <1>2. ASSUME NEW t \in Threads, NEW q \in Queues, DispatchSync(t, q)
        PROVE TypeOK' /\ ControlInv'
    <2>1. TypeOK'
      BY <1>2, ItemsNext DEF DispatchSync, PushItem, TypeOK, ControlInv
    <2>2. ControlInv'
      BY <1>2, ItemsNext DEF DispatchSync, PushItem, TypeOK, ControlInv
    <2> QED
      BY <2>1, <2>2
  <1>3. ASSUME NEW t \in Threads, NEW q \in Queues, DispatchSyncAbort(t, q)
        PROVE TypeOK' /\ ControlInv'
    <2>1. TypeOK'
      BY <1>3 DEF DispatchSyncAbort, TypeOK, ControlInv
    <2>2. ControlInv'
      BY <1>3 DEF DispatchSyncAbort, TypeOK, ControlInv
    <2> QED
      BY <2>1, <2>2
  <1>4. ASSUME NEW t \in Threads, RunnablePush(t)
        PROVE TypeOK' /\ ControlInv'
    <2>1. TypeOK'
      BY <1>4 DEF RunnablePush, TypeOK, ControlInv
    <2>2. ControlInv'
      BY <1>4 DEF RunnablePush, TypeOK, ControlInv
    <2> QED
      BY <2>1, <2>2
  <1>5. ASSUME NEW t \in Threads, SyncReturn(t)
        PROVE TypeOK' /\ ControlInv'
    <2> DEFINE i == awaited[t]
    <2>1. i \in Items /\ sem[i] \in Nat /\ sem[i] - 1 \in Nat
      BY <1>5 DEF SyncReturn, TypeOK, ControlInv
    <2>2. sem' \in [Items -> Nat]
      BY <1>5, <2>1 DEF SyncReturn, TypeOK
    <2>3. TypeOK'
      BY <1>5, <2>2 DEF SyncReturn, TypeOK
    <2>4. ControlInv'
      BY <1>5 DEF SyncReturn, TypeOK, ControlInv
    <2> QED
      BY <2>3, <2>4
  <1>6. ASSUME NEW w \in Workers, PopNode(w)
        PROVE TypeOK' /\ ControlInv'
    <2>1. TypeOK'
      BY <1>6 DEF PopNode, TypeOK, ControlInv
    <2>2. ControlInv'
      BY <1>6 DEF PopNode, TypeOK, ControlInv
    <2> QED
      BY <2>1, <2>2
  <1>7. ASSUME NEW w \in Workers, NEW q \in SerialQueues,
               pc[w] \in {"node", "ret"}, node[w] = q, on_runnable_list' \in [Queues -> BOOLEAN],
               DrainLocked(w, q)
        PROVE TypeOK' /\ ControlInv'
    <2>0. q \in Queues /\ q # None /\ draining' \in [Queues -> BOOLEAN]
      BY <1>7 DEF DrainLocked, TypeOK
    <2>1. CASE fifo[q] # <<>>
      <3> DEFINE i == Head(fifo[q])
      <3>1. i \in Items /\ i # None /\ Tail(fifo[q]) \in Seq(Items)
        BY <2>0, <2>1 DEF TypeOK
      <3>2. RunHead(w, q) /\ UNCHANGED <<runnable, next, home, kind, svars, pushing, aborted>>
        BY <1>7, <2>1 DEF DrainLocked
      <3>3. TypeOK'
        BY <1>7, <2>0, <3>1, <3>2 DEF RunHead, TypeOK
      <3>4. ControlInv'
        BY <1>7, <2>0, <3>1, <3>2 DEF RunHead, TypeOK, ControlInv
      <3> QED
        BY <3>3, <3>4
    <2>2. CASE fifo[q] = <<>>
      <3>1. BackToPool(w) /\ UNCHANGED <<runnable, next, home, kind, svars, pushing, aborted>>
        BY <1>7, <2>2 DEF DrainLocked
      <3>2. TypeOK'
        BY <1>7, <2>0, <3>1 DEF BackToPool, TypeOK
      <3>3. ControlInv'
        BY <1>7, <2>0, <3>1 DEF BackToPool, TypeOK, ControlInv
      <3> QED
        BY <3>2, <3>3
    <2> QED
      BY <2>1, <2>2
  <1>8. ASSUME NEW w \in Workers, RunConcurrent(w)
        PROVE TypeOK' /\ ControlInv'
    <2> DEFINE q == node[w]
               i == Head(fifo[q])
    <2>0. q \in Queues /\ q # None
      BY <1>8 DEF RunConcurrent, TypeOK, ControlInv
    <2>1. CASE fifo[q] # <<>>
      <3>1. i \in Items /\ i # None /\ Tail(fifo[q]) \in Seq(Items)
        BY <2>0, <2>1 DEF TypeOK
      <3>2. /\ RunHead(w, q)
            /\ UNCHANGED <<draining, on_runnable_list, runnable, next, home, kind,
                           svars, pushing, aborted>>
        BY <1>8, <2>1 DEF RunConcurrent
      <3>3. TypeOK'
        BY <1>8, <2>0, <3>1, <3>2 DEF RunHead, TypeOK
      <3>4. ControlInv'
        BY <1>8, <2>0, <3>1, <3>2 DEF RunConcurrent, RunHead, TypeOK, ControlInv
      <3> QED
        BY <3>3, <3>4
    <2>2. CASE fifo[q] = <<>>
      <3>1. BackToPool(w) /\ UNCHANGED <<draining, on_runnable_list, runnable, next, home,
                                         kind, svars, pushing, aborted>>
        BY <1>8, <2>2 DEF RunConcurrent
      <3>2. TypeOK'
        BY <1>8, <3>1 DEF BackToPool, TypeOK
      <3>3. ControlInv'
        BY <1>8, <2>0, <3>1 DEF RunConcurrent, BackToPool, TypeOK, ControlInv
      <3> QED
        BY <3>2, <3>3
    <2> QED
      BY <2>1, <2>2
  <1>9. ASSUME NEW w \in Workers, ItemReturn(w)
        PROVE TypeOK' /\ ControlInv'
    <2>0. cur[w] \in Items /\ node[w] \in Queues
      BY <1>9 DEF ItemReturn, TypeOK, ControlInv
    <2>1. TypeOK'
      <3>1. sem' \in [Items -> Nat]
        BY <1>9, <2>0 DEF ItemReturn, TypeOK
      <3>2. pc' \in [Threads -> PC] /\ node' \in [Threads -> Caller]
        BY <1>9, <2>0 DEF ItemReturn, TypeOK
      <3>3. status' \in [Items -> {"free", "queued", "running", "done"}]
        BY <1>9, <2>0 DEF ItemReturn, TypeOK
      <3>4. cur' \in [Threads -> Items \cup {None}] /\ tls' \in [Threads -> Caller]
        BY <1>9 DEF ItemReturn, TypeOK
      <3> QED
        BY <1>9, <3>1, <3>2, <3>3, <3>4 DEF ItemReturn, TypeOK
    <2>2. ControlInv'
      BY <1>9, <2>0 DEF ItemReturn, TypeOK, ControlInv
    <2> QED
      BY <2>1, <2>2
  <1>10. CASE UNCHANGED vars
    BY <1>10 DEF vars, TypeOK, ControlInv
  <1>11. ASSUME NEW w \in Workers, StartDrain(w) PROVE TypeOK' /\ ControlInv'
    BY <1>7, <1>11 DEF StartDrain, TypeOK
  <1>12. ASSUME NEW w \in Workers, DrainNext(w) PROVE TypeOK' /\ ControlInv'
    BY <1>7, <1>12 DEF DrainNext, TypeOK, ControlInv
  <1> QED
    BY <1>1, <1>2, <1>3, <1>4, <1>5, <1>6, <1>8, <1>9, <1>10, <1>11, <1>12
       DEF Next, CallStep, WorkerStep

-----------------------------------------------------------------------------
(***************************************************************************)
(* Ownership.  Each step first says what the action does to the four owner *)
(* sets of an arbitrary serial queue r.                                    *)
(***************************************************************************)

\* Steps that change no owner set and no flag of a serial queue keep OwnedOnce.
LEMMA OwnedFrame ==
  ASSUME NEW r \in SerialQueues, OwnedOnce(r),
         UNCHANGED <<Pushers(r), Places(r), Holders(r), Drainers(r)>>,
         UNCHANGED <<draining[r], on_runnable_list[r]>>,
         fifo[r]' # <<>> => fifo[r] # <<>> \/ draining[r] \/ on_runnable_list[r]
  PROVE  OwnedOnce(r)'
  BY DEF OwnedOnce

LEMMA OwnerStep ==
  ASSUME TypeOK, ControlInv, OwnerInv, [Next]_vars PROVE OwnerInv'
  <1> SUFFICES ASSUME NEW r \in SerialQueues PROVE OwnedOnce(r)'
    BY DEF OwnerInv
  <1> USE QueueAssumption DEF Threads, Caller
  <1>0. OwnedOnce(r) /\ r \in Queues
    BY DEF OwnerInv
  <1>1. ASSUME NEW t \in Threads, NEW q \in Queues, NEW k, PushItem(t, q, k),
               pc[t] = "user"
        PROVE OwnedOnce(r)'
    <2>1. UNCHANGED <<Places(r), Holders(r), Drainers(r), draining[r]>>
      BY <1>1 DEF PushItem, Places, Holders, Drainers, TypeOK
    <2>2. CASE q = r /\ ShouldPush(q)
      <3>1. ~draining[r] /\ ~on_runnable_list[r] /\ on_runnable_list'[r]
        BY <1>1, <2>2, <1>0 DEF PushItem, ShouldPush, TypeOK
      <3>2. Pushers(r)' = Pushers(r) \cup {t}
        BY <1>1, <2>2, <1>0 DEF PushItem, Pushers, TypeOK
      <3> QED
        BY <1>0, <2>1, <3>1, <3>2 DEF OwnedOnce
    <2>3. CASE ~(q = r /\ ShouldPush(q))
      <3>1. UNCHANGED <<Pushers(r), on_runnable_list[r]>>
        BY <1>1, <2>3, <1>0 DEF PushItem, Pushers, TypeOK
      <3>2. fifo[r]' # <<>> => fifo[r] # <<>> \/ draining[r] \/ on_runnable_list[r]
        BY <1>1, <2>3, <1>0 DEF PushItem, ShouldPush, TypeOK
      <3> QED
        BY <1>0, <2>1, <3>1, <3>2, OwnedFrame
    <2> QED
      BY <2>2, <2>3
  <1>2. ASSUME NEW t \in Threads, RunnablePush(t) PROVE OwnedOnce(r)'
    <2>1. UNCHANGED <<Holders(r), Drainers(r), draining[r], on_runnable_list[r], fifo[r]>>
      BY <1>2 DEF RunnablePush, Holders, Drainers, TypeOK, qvars
    <2>2. CASE pushing[t] = r
      <3>1. Pushers(r)' = Pushers(r) \ {t} /\ t \in Pushers(r)
        BY <1>2, <2>2, <1>0 DEF RunnablePush, Pushers, TypeOK
      <3>2. Places(r)' = Places(r) \cup {Len(runnable) + 1}
        BY <1>2, <2>2, <1>0 DEF RunnablePush, Places, TypeOK
      <3> QED
        BY <1>0, <2>1, <3>1, <3>2 DEF OwnedOnce
    <2>3. CASE pushing[t] # r
      <3>1. Pushers(r)' = Pushers(r)
        BY <1>2, <2>3, <1>0 DEF RunnablePush, Pushers, TypeOK
      <3>2. Places(r)' = Places(r)
        BY <1>2, <2>3, <1>0 DEF RunnablePush, Places, TypeOK, ControlInv
      <3> QED
        BY <1>0, <2>1, <3>1, <3>2, OwnedFrame
    <2> QED
      BY <2>2, <2>3
  <1>3. ASSUME NEW t \in Threads, SyncReturn(t) PROVE OwnedOnce(r)'
    <2>1. UNCHANGED <<Pushers(r), Places(r), Holders(r), Drainers(r), draining[r],
                      on_runnable_list[r], fifo[r]>>
      BY <1>3 DEF SyncReturn, Pushers, Places, Holders, Drainers, TypeOK, qvars
    <2> QED
      BY <1>0, <2>1, OwnedFrame
  <1>4. ASSUME NEW w \in Workers, PopNode(w) PROVE OwnedOnce(r)'
    <2>1. UNCHANGED <<Pushers(r), Drainers(r), draining[r], on_runnable_list[r], fifo[r]>>
      BY <1>4, <1>0 DEF PopNode, Pushers, Drainers, TypeOK, ControlInv, qvars
    <2>2. Places(r)' = {k \in 1 .. Len(runnable) - 1 : k + 1 \in Places(r)}
      BY <1>4 DEF PopNode, Places, TypeOK
    <2>3. CASE Head(runnable) = r
      <3>1. Holders(r)' = Holders(r) \cup {w} /\ 1 \in Places(r)
        BY <1>4, <2>3 DEF PopNode, Holders, Places, TypeOK
      <3>2. Places(r)' = {}
        BY <1>0, <2>2, <3>1 DEF OwnedOnce, TypeOK
      <3> QED
        BY <1>0, <2>1, <3>1, <3>2 DEF OwnedOnce
    <2>4. CASE Head(runnable) # r
      <3>1. Holders(r)' = Holders(r) /\ 1 \notin Places(r)
        BY <1>4, <2>4 DEF PopNode, Holders, Places, TypeOK
      <3>2. Places(r)' = {} <=> Places(r) = {}
        <4>1. \A k \in Places(r) : k \in 2 .. Len(runnable) /\ k - 1 + 1 = k
          BY <3>1 DEF TypeOK, Places
        <4>2. \A k \in Places(r) : k - 1 \in Places(r)'
          BY <2>2, <4>1 DEF TypeOK
        <4> QED
          BY <2>2, <4>2
      <3>3. \A k, l \in Places(r)' : k = l
        <4> SUFFICES ASSUME NEW k \in Places(r)', NEW l \in Places(r)' PROVE k = l
          OBVIOUS
        <4>1. k \in Nat /\ l \in Nat /\ k + 1 \in Places(r) /\ l + 1 \in Places(r)
          BY <2>2 DEF TypeOK
        <4>2. k + 1 = l + 1
          BY <1>0, <4>1 DEF OwnedOnce
        <4> QED
          BY <4>1, <4>2
      <3> QED
        BY <1>0, <2>1, <3>1, <3>2, <3>3 DEF OwnedOnce
    <2> QED
      BY <2>3, <2>4
  <1>5. ASSUME NEW w \in Workers, StartDrain(w) PROVE OwnedOnce(r)'
    <2> DEFINE q == node[w]
    <2>1. UNCHANGED <<Pushers(r), Places(r)>>
      BY <1>5 DEF StartDrain, DrainLocked, RunHead, BackToPool, Pushers, Places, TypeOK
    <2>2. CASE q = r
      <3>1. w \in Holders(r) /\ Holders(r)' = Holders(r) \ {w}
        BY <1>5, <2>2 DEF StartDrain, DrainLocked, RunHead, BackToPool, Holders, TypeOK
      <3>2. ~on_runnable_list[r]'
        BY <1>5, <2>2, <1>0 DEF StartDrain, TypeOK
      <3>3. CASE fifo[r] # <<>>
        <4>1. RunHead(w, r) /\ draining' = [draining EXCEPT ![r] = TRUE]
          BY <1>5, <2>2, <3>3 DEF StartDrain, DrainLocked
        <4>2. Drainers(r)' = Drainers(r) \cup {w} /\ draining'[r]
          BY <1>0, <1>5, <2>2, <4>1 DEF StartDrain, RunHead, Drainers, TypeOK
        <4> QED
          BY <1>0, <2>1, <3>1, <3>2, <4>2 DEF OwnedOnce
      <3>4. CASE fifo[r] = <<>>
        <4>1. BackToPool(w) /\ draining' = [draining EXCEPT ![r] = FALSE]
          BY <1>5, <2>2, <3>4 DEF StartDrain, DrainLocked
        <4>2. Drainers(r)' = Drainers(r) /\ ~draining'[r] /\ fifo'[r] = <<>>
          BY <1>0, <1>5, <2>2, <3>4, <4>1 DEF StartDrain, BackToPool, Drainers, TypeOK
        <4> QED
          BY <1>0, <2>1, <3>1, <3>2, <4>2 DEF OwnedOnce
      <3> QED
        BY <3>3, <3>4
    <2>3. CASE q # r
      <3>1. UNCHANGED <<Holders(r), Drainers(r)>>
        BY <1>5, <2>3, <1>0
           DEF StartDrain, DrainLocked, RunHead, BackToPool, Holders, Drainers, TypeOK
      <3>2. UNCHANGED <<draining[r], on_runnable_list[r], fifo[r]>>
        BY <1>5, <2>3, <1>0 DEF StartDrain, DrainLocked, RunHead, BackToPool, TypeOK
      <3> QED
        BY <1>0, <2>1, <3>1, <3>2, OwnedFrame
    <2> QED
      BY <2>2, <2>3
  <1>6. ASSUME NEW w \in Workers, DrainNext(w) PROVE OwnedOnce(r)'
    <2> DEFINE q == node[w]
    <2>1. UNCHANGED <<Pushers(r), Places(r), Holders(r), on_runnable_list[r]>>
      BY <1>6 DEF DrainNext, DrainLocked, RunHead, BackToPool, Pushers, Places, Holders,
                  TypeOK
    <2>2. CASE q = r
      <3>1. w \in Drainers(r)
        BY <1>6, <2>2 DEF DrainNext, Drainers, TypeOK
      <3>2. CASE fifo[r] # <<>>
        <4>1. RunHead(w, r) /\ draining' = [draining EXCEPT ![r] = TRUE]
          BY <1>6, <2>2, <3>2 DEF DrainNext, DrainLocked
        <4>2. Drainers(r)' = Drainers(r) /\ draining'[r]
          BY <1>0, <1>6, <2>2, <4>1 DEF DrainNext, RunHead, Drainers, TypeOK
        <4> QED
          BY <1>0, <2>1, <3>1, <4>2 DEF OwnedOnce
      <3>3. CASE fifo[r] = <<>>
        <4>1. BackToPool(w) /\ draining' = [draining EXCEPT ![r] = FALSE]
          BY <1>6, <2>2, <3>3 DEF DrainNext, DrainLocked
        <4>2. Drainers(r)' = Drainers(r) \ {w} /\ ~draining'[r] /\ fifo'[r] = <<>>
          BY <1>0, <1>6, <2>2, <3>3, <4>1 DEF DrainNext, BackToPool, Drainers, TypeOK
        <4> QED
          BY <1>0, <2>1, <3>1, <4>2 DEF OwnedOnce
      <3> QED
        BY <3>2, <3>3
    <2>3. CASE q # r
      <3>1. UNCHANGED Drainers(r)
        BY <1>6, <2>3, <1>0 DEF DrainNext, DrainLocked, RunHead, BackToPool, Drainers, TypeOK
      <3>2. UNCHANGED <<draining[r], fifo[r]>>
        BY <1>6, <2>3, <1>0 DEF DrainNext, DrainLocked, RunHead, BackToPool, TypeOK
      <3> QED
        BY <1>0, <2>1, <3>1, <3>2, OwnedFrame
    <2> QED
      BY <2>2, <2>3
  <1>7. ASSUME NEW w \in Workers, RunConcurrent(w) PROVE OwnedOnce(r)'
    <2>1. UNCHANGED <<Pushers(r), Places(r), Holders(r)>>
      BY <1>7 DEF RunConcurrent, RunHead, BackToPool, Pushers, Places, Holders, TypeOK
    <2>2. UNCHANGED <<Drainers(r), draining[r], on_runnable_list[r], fifo[r]>>
      BY <1>7, <1>0 DEF RunConcurrent, RunHead, BackToPool, Drainers, TypeOK
    <2> QED
      BY <1>0, <2>1, <2>2, OwnedFrame
  <1>8. ASSUME NEW w \in Workers, ItemReturn(w) PROVE OwnedOnce(r)'
    <2>1. UNCHANGED <<Pushers(r), Places(r), Holders(r), Drainers(r)>>
      BY <1>8, <1>0 DEF ItemReturn, Pushers, Places, Holders, Drainers, TypeOK
    <2> QED
      BY <1>0, <1>8, <2>1, OwnedFrame DEF ItemReturn, qvars
  <1>9. CASE UNCHANGED vars
    BY <1>0, <1>9 DEF vars, qvars, OwnedOnce, Pushers, Places, Holders, Drainers
  <1>10. ASSUME NEW t \in Threads, NEW q \in Queues, DispatchSyncAbort(t, q)
         PROVE OwnedOnce(r)'
    BY <1>0, <1>10 DEF DispatchSyncAbort, qvars, OwnedOnce, Pushers, Places, Holders, Drainers
  <1> QED
    BY <1>1, <1>2, <1>3, <1>4, <1>5, <1>6, <1>7, <1>8, <1>9, <1>10
       DEF Next, CallStep, WorkerStep, DispatchAsync, DispatchSync

-----------------------------------------------------------------------------
(***************************************************************************)
(* Items.  Three actions change an item's status: a push, the start of an  *)
(* execution and its end.                                                  *)
(***************************************************************************)
LEMMA FifoType ==
  ASSUME TypeOK
  PROVE  \A q \in Queues : /\ fifo[q] \in Seq(Items)
                           /\ Len(fifo[q]) \in Nat
                           /\ \A k \in 1 .. Len(fifo[q]) : fifo[q][k] \in Items
  <1> SUFFICES ASSUME NEW q \in Queues
               PROVE  /\ fifo[q] \in Seq(Items)
                      /\ Len(fifo[q]) \in Nat
                      /\ \A k \in 1 .. Len(fifo[q]) : fifo[q][k] \in Items
    OBVIOUS
  <1>1. fifo[q] \in Seq(Items)
    BY DEF TypeOK
  <1> QED
    BY <1>1

LEMMA HeadType ==
  ASSUME TypeOK, NEW q \in Queues, fifo[q] # <<>>
  PROVE  /\ Head(fifo[q]) = fifo[q][1]
         /\ Head(fifo[q]) \in Items
         /\ 1 \in 1 .. Len(fifo[q])
  <1>1. fifo[q] \in Seq(Items)
    BY FifoType
  <1>2. Head(fifo[q]) = fifo[q][1] /\ Head(fifo[q]) \in Items
    BY <1>1
  <1>3. Len(fifo[q]) \in Nat /\ Len(fifo[q]) # 0
    BY <1>1
  <1> QED
    BY <1>2, <1>3

\* A queued item is older than the next one to be allocated.
LEMMA FifoOlder ==
  ASSUME TypeOK, ItemInv
  PROVE  \A q \in Queues : \A k \in 1 .. Len(fifo[q]) : fifo[q][k] < next /\ fifo[q][k] # next
  <1> SUFFICES ASSUME NEW q \in Queues, NEW k \in 1 .. Len(fifo[q])
               PROVE  fifo[q][k] < next /\ fifo[q][k] # next
    OBVIOUS
  <1>1. fifo[q][k] \in Items /\ fifo[q][k] \in Nat
    BY FifoType, ItemsNat
  <1>2. next \in Nat
    BY QueueAssumption DEF TypeOK
  <1>3. ~(fifo[q][k] >= next)
    BY <1>1 DEF ItemInv, AllocInv, FifoInv
  <1> QED
    BY <1>1, <1>2, <1>3

LEMMA PushItems ==
  ASSUME TypeOK, ItemInv, NEW t \in Threads, NEW q \in Queues, NEW k, PushItem(t, q, k)
  PROVE  ItemInv'
  <1> USE QueueAssumption, FifoType, FifoOlder
  <1>0. /\ next \in Items /\ next \in Nat /\ status[next] = "free"
        /\ fifo[q]' = Append(fifo[q], next)
        /\ \A r \in Queues : r # q => fifo'[r] = fifo[r]
        /\ \A i \in Items : i # next => status'[i] = status[i] /\ home'[i] = home[i]
        /\ status'[next] = "queued" /\ home'[next] = q
    BY ItemsNat DEF PushItem, ItemInv, AllocInv, TypeOK
  <1>1. AllocInv'
    BY <1>0, ItemsNat DEF ItemInv, AllocInv, PushItem
  <1>2. FifoInv'
    <2> SUFFICES ASSUME NEW r \in Queues, NEW m \in 1 .. Len(fifo'[r])
                 PROVE /\ status'[fifo'[r][m]] = "queued"
                       /\ home'[fifo'[r][m]] = r
                       /\ \A l \in 1 .. Len(fifo'[r]) : m < l => fifo'[r][m] < fifo'[r][l]
      BY DEF FifoInv
    <2>2. CASE r = q
      <3>1. Len(fifo'[r]) = Len(fifo[r]) + 1 /\ fifo'[r][Len(fifo[r]) + 1] = next
        BY <1>0, <2>2
      <3>2. \A l \in 1 .. Len(fifo[r]) : fifo'[r][l] = fifo[r][l]
        BY <1>0, <2>2
      <3>3. CASE m \in 1 .. Len(fifo[r])
        <4>1. fifo'[r][m] = fifo[r][m] /\ fifo[r][m] \in Items /\ fifo[r][m] # next
          BY <3>2, <3>3
        <4>2. \A l \in 1 .. Len(fifo'[r]) : m < l => fifo[r][m] < fifo'[r][l]
          <5> SUFFICES ASSUME NEW l \in 1 .. Len(fifo'[r]), m < l
                       PROVE fifo[r][m] < fifo'[r][l]
            OBVIOUS
          <5>1. CASE l \in 1 .. Len(fifo[r])
            BY <3>2, <3>3, <5>1 DEF ItemInv, FifoInv
          <5>2. CASE l = Len(fifo[r]) + 1
            BY <3>1, <3>3, <5>2
          <5> QED
            BY <3>1, <5>1, <5>2
        <4>3. status[fifo[r][m]] = "queued" /\ home[fifo[r][m]] = r
          BY <3>3 DEF ItemInv, FifoInv
        <4> QED
          BY <1>0, <4>1, <4>2, <4>3
      <3>4. CASE m = Len(fifo[r]) + 1
        <4>1. fifo'[r][m] = next
          BY <3>1, <3>4
        <4>2. \A l \in 1 .. Len(fifo'[r]) : ~(m < l)
          <5> DEFINE n == Len(fifo[r])
          <5>1. n \in Nat /\ m = n + 1 /\ Len(fifo'[r]) = n + 1
            BY <3>1, <3>4, FifoType
          <5> HIDE DEF n
          <5> QED
            BY <5>1
        <4> QED
          BY <1>0, <2>2, <4>1, <4>2
      <3> QED
        BY <3>1, <3>3, <3>4
    <2>3. CASE r # q
      <3>1. fifo'[r] = fifo[r] /\ m \in 1 .. Len(fifo[r])
        BY <1>0, <2>3
      <3>2. fifo[r][m] \in Items /\ fifo[r][m] # next
        BY <3>1
      <3>3. /\ status[fifo[r][m]] = "queued"
            /\ home[fifo[r][m]] = r
            /\ \A l \in 1 .. Len(fifo[r]) : m < l => fifo[r][m] < fifo[r][l]
        BY <3>1 DEF ItemInv, FifoInv
      <3> QED
        BY <1>0, <3>1, <3>2, <3>3
    <2> QED
      BY <2>2, <2>3
  <1>3. QueuedInv'
    <2> SUFFICES ASSUME NEW i \in Items, status'[i] = "queued"
                 PROVE \E l \in 1 .. Len(fifo'[home'[i]]) : fifo'[home'[i]][l] = i
      BY DEF QueuedInv
    <2>1. CASE i = next
      <3>1. Len(fifo'[q]) \in 1 .. Len(fifo'[q]) /\ fifo'[q][Len(fifo'[q])] = next
        BY <1>0
      <3> QED
        BY <1>0, <2>1, <3>1
    <2>2. CASE i # next
      <3>1. PICK l \in 1 .. Len(fifo[home[i]]) : fifo[home[i]][l] = i
        BY <1>0, <2>2 DEF ItemInv, QueuedInv
      <3>2. home[i] \in Queues /\ home'[i] = home[i]
        BY <1>0, <2>2 DEF ItemInv, AllocInv
      <3>3. l \in 1 .. Len(fifo'[home[i]]) /\ fifo'[home[i]][l] = i
        <4>1. CASE home[i] = q
          <5>1. fifo[q] \in Seq(Items) /\ l \in 1 .. Len(fifo[q]) /\ fifo[q][l] = i
            BY <3>1, <4>1
          <5>2. l \in 1 .. Len(Append(fifo[q], next)) /\ Append(fifo[q], next)[l] = i
            BY <1>0, <5>1
          <5> QED
            BY <1>0, <4>1, <5>2
        <4>2. CASE home[i] # q
          BY <1>0, <3>1, <3>2, <4>2
        <4> QED
          BY <4>1, <4>2
      <3> QED
        BY <3>2, <3>3
    <2> QED
      BY <2>1, <2>2
  <1>4. RunningInv'
    BY <1>0 DEF ItemInv, RunningInv, PushItem
  <1> QED
    BY <1>1, <1>2, <1>3, <1>4 DEF ItemInv

LEMMA RunItems ==
  ASSUME TypeOK, ItemInv, NEW w \in Workers, NEW q \in Queues, node[w] = q, cur[w] = None,
         fifo[q] # <<>>, RunHead(w, q), UNCHANGED <<next, home>>
  PROVE  ItemInv'
  <1> USE QueueAssumption, FifoType
  <1> DEFINE h == Head(fifo[q])
  <1>a. h \in Items /\ Len(fifo[q]) \in Nat /\ Len(fifo[q]) >= 1 /\ h = fifo[q][1]
    OBVIOUS
  <1>b. status[h] = "queued" /\ home[h] = q
    BY <1>a DEF ItemInv, FifoInv
  <1>0. /\ h \in Items /\ h # None /\ Len(fifo[q]) >= 1 /\ h = fifo[q][1]
        /\ status[h] = "queued" /\ home[h] = q
        /\ fifo'[q] = Tail(fifo[q])
        /\ \A r \in Queues : r # q => fifo'[r] = fifo[r]
        /\ \A i \in Items : i # h => status'[i] = status[i]
        /\ status'[h] = "running" /\ cur'[w] = h
        /\ \A v \in Workers : v # w => cur'[v] = cur[v]
    BY <1>a, <1>b DEF RunHead, TypeOK, Threads
  <1>1. AllocInv'
    BY <1>0 DEF ItemInv, AllocInv
  <1>2. /\ Len(fifo'[q]) = Len(fifo[q]) - 1
        /\ \A l \in 1 .. Len(fifo'[q]) : fifo'[q][l] = fifo[q][l + 1]
    BY <1>0
  <1>3. FifoInv'
    <2> SUFFICES ASSUME NEW r \in Queues, NEW m \in 1 .. Len(fifo'[r])
                 PROVE /\ status'[fifo'[r][m]] = "queued"
                       /\ home[fifo'[r][m]] = r
                       /\ \A l \in 1 .. Len(fifo'[r]) : m < l => fifo'[r][m] < fifo'[r][l]
      BY DEF FifoInv
    <2>1. CASE r = q
      <3> DEFINE n == Len(fifo[q])
      <3>1. n \in Nat /\ Len(fifo'[q]) = n - 1 
        BY <1>a, <1>2
      <3>1a. \A l \in 1 .. n - 1 : fifo'[q][l] = fifo[q][l + 1]
        BY <1>a, <1>2
      <3>2. \A k, l \in 1 .. n : k < l => fifo[q][k] < fifo[q][l]
        BY DEF ItemInv, FifoInv
      <3>3. \A k \in 1 .. n : status[fifo[q][k]] = "queued" /\ home[fifo[q][k]] = q
                                /\ fifo[q][k] \in Items
        BY DEF ItemInv, FifoInv
      <3>4. h \in Nat /\ h = fifo[q][1] /\ 1 \in 1 .. n
        <4> HIDE DEF h
        <4>1. h \in Nat
          BY <1>a, ItemsNat
        <4>2. 1 \in 1 .. n
          BY <1>a
        <4> QED
          BY <1>a, <4>1, <4>2
      <3> HIDE DEF n, h
      <3>5. m \in 1 .. n - 1 /\ m + 1 \in 1 .. n /\ 1 < m + 1
        BY <2>1, <3>1
      <3>6. fifo'[q][m] = fifo[q][m + 1] /\ h < fifo'[q][m] /\ fifo'[q][m] # h
        <4>1. fifo'[q][m] = fifo[q][m + 1]
          BY <3>1a, <3>5
        <4>2. fifo[q][1] < fifo[q][m + 1]
          BY <3>2, <3>4, <3>5
        <4>3. fifo[q][m + 1] \in Nat
          BY <3>3, <3>5, ItemsNat
        <4> QED
          BY <3>4, <4>1, <4>2, <4>3
      <3>7. \A l \in 1 .. n - 1 : m < l => fifo'[q][m] < fifo'[q][l]
        <4> SUFFICES ASSUME NEW l \in 1 .. n - 1, m < l PROVE fifo'[q][m] < fifo'[q][l]
          OBVIOUS
        <4>1. l + 1 \in 1 .. n /\ m + 1 < l + 1 /\ fifo'[q][l] = fifo[q][l + 1]
          BY <3>1, <3>1a, <3>5
        <4> QED
          BY <3>2, <3>5, <3>6, <4>1
      <3>8. status[fifo'[q][m]] = "queued" /\ home[fifo'[q][m]] = q /\ fifo'[q][m] \in Items
        BY <3>3, <3>5, <3>6
      <3> QED
        BY <1>0, <2>1, <3>1, <3>6, <3>7, <3>8 DEF h
    <2>2. CASE r # q
      BY <1>0, <2>2 DEF ItemInv, FifoInv
    <2> QED
      BY <2>1, <2>2
  <1>4. QueuedInv'
    <2> SUFFICES ASSUME NEW i \in Items, status'[i] = "queued"
                 PROVE \E l \in 1 .. Len(fifo'[home[i]]) : fifo'[home[i]][l] = i
      BY DEF QueuedInv
    <2>1. i # h /\ status[i] = "queued"
      BY <1>0
    <2>2. PICK l \in 1 .. Len(fifo[home[i]]) : fifo[home[i]][l] = i
      BY <2>1 DEF ItemInv, QueuedInv
    <2>3. CASE home[i] = q
      <3> DEFINE n == Len(fifo[q])
      <3>1. l \in 1 .. n /\ l # 1 /\ n \in Nat /\ Len(fifo'[q]) = n - 1
        BY <1>a, <1>2, <2>1, <2>2, <2>3
      <3> HIDE DEF n
      <3>2. l - 1 \in 1 .. Len(fifo'[q]) /\ l - 1 + 1 = l
        BY <3>1
      <3>3. fifo'[q][l - 1] = i
        BY <1>2, <2>2, <2>3, <3>2
      <3> QED
        BY <2>3, <3>2, <3>3
    <2>4. CASE home[i] # q
      BY <1>0, <2>1, <2>2, <2>4 DEF ItemInv, AllocInv
    <2> QED
      BY <2>3, <2>4
  <1>5. RunningInv'
    BY <1>0 DEF ItemInv, RunningInv, RunHead
  <1> QED
    BY <1>1, <1>3, <1>4, <1>5 DEF ItemInv

LEMMA ReturnItems ==
  ASSUME TypeOK, ControlInv, ItemInv, NEW w \in Workers, ItemReturn(w)
  PROVE  ItemInv'
  <1> USE QueueAssumption DEF TypeOK, Caller, Threads, qvars
  <1> DEFINE i == cur[w]
  <1>0. i \in Items /\ i # None /\ status[i] = "running"
    BY DEF ItemReturn, ControlInv, ItemInv, RunningInv
  <1>1. AllocInv'
    BY <1>0 DEF ItemInv, AllocInv, ItemReturn
  <1>2. FifoInv'
    BY <1>0 DEF ItemInv, FifoInv, ItemReturn
  <1>3. QueuedInv'
    BY <1>0 DEF ItemInv, QueuedInv, ItemReturn
  <1>4. RunningInv'
    <2>1. \A v \in Workers : v # w => cur[v] # i /\ cur'[v] = cur[v] /\ node'[v] = node[v]
      BY <1>0 DEF ItemInv, RunningInv, ItemReturn
    <2>2. cur'[w] = None /\ \A j \in Items : j # i => status'[j] = status[j]
      BY <1>0 DEF ItemReturn
    <2>3. status'[i] = "done" /\ home' = home
      BY <1>0 DEF ItemReturn
    <2>4. \A v \in Workers : cur'[v] # None =>
            v # w /\ cur[v] \in Items /\ status[cur[v]] = "running" /\ home[cur[v]] = node[v]
      BY <2>1, <2>2 DEF ItemInv, RunningInv
    <2>5. \A v \in Workers : cur'[v] # None =>
            status'[cur'[v]] = "running" /\ home'[cur'[v]] = node'[v]
      BY <2>1, <2>2, <2>3, <2>4
    <2>6. \A j \in Items : status'[j] = "running" => \E v \in Workers : cur'[v] = j
      <3> SUFFICES ASSUME NEW j \in Items, status'[j] = "running"
                   PROVE \E v \in Workers : cur'[v] = j
        OBVIOUS
      <3>1. j # i /\ status[j] = "running"
        BY <2>2, <2>3
      <3>2. PICK v \in Workers : cur[v] = j
        BY <3>1 DEF ItemInv, RunningInv
      <3> QED
        BY <2>1, <3>1, <3>2
    <2>7. \A u, v \in Workers : cur'[u] = cur'[v] /\ cur'[u] # None => u = v
      BY <2>1, <2>2, <2>4 DEF ItemInv, RunningInv
    <2> QED
      BY <2>5, <2>6, <2>7 DEF RunningInv
  <1> QED
    BY <1>1, <1>2, <1>3, <1>4 DEF ItemInv

\* Steps that move no item keep ItemInv.
LEMMA ItemFrame ==
  ASSUME ItemInv, UNCHANGED <<fifo, status, home, next, cur>>,
         \A w \in Workers : cur[w] # None => node'[w] = node[w]
  PROVE  ItemInv'
  <1>1. AllocInv' /\ FifoInv' /\ QueuedInv'
    BY DEF ItemInv, AllocInv, FifoInv, QueuedInv
  <1>2. RunningInv'
    BY DEF ItemInv, RunningInv
  <1> QED
    BY <1>1, <1>2 DEF ItemInv

\* A drain step of worker w either runs the head of q or gives the queue up.
LEMMA DrainCases ==
  ASSUME TypeOK, ControlInv, NEW w \in Workers,
         StartDrain(w) \/ DrainNext(w) \/ RunConcurrent(w)
  PROVE  /\ node[w] \in Queues /\ cur[w] = None /\ pc[w] \in {"node", "ret"}
         /\ UNCHANGED <<next, home, kind, svars, pushing>>
         /\ \/ fifo[node[w]] # <<>> /\ RunHead(w, node[w])
            \/ fifo[node[w]] = <<>> /\ BackToPool(w)
  BY QueueAssumption DEF StartDrain, DrainNext, RunConcurrent, DrainLocked, TypeOK, ControlInv,
                         Threads, Caller

LEMMA ItemStep ==
  ASSUME TypeOK, ControlInv, ItemInv, [Next]_vars PROVE ItemInv'
  <1> USE DEF Threads
  <1>1. ASSUME NEW t \in Threads, NEW q \in Queues, DispatchAsync(t, q) \/ DispatchSync(t, q)
        PROVE ItemInv'
    BY <1>1, PushItems DEF DispatchAsync, DispatchSync
  <1>2. ASSUME NEW w \in Workers, StartDrain(w) \/ DrainNext(w) \/ RunConcurrent(w)
        PROVE ItemInv'
    <2>1. CASE fifo[node[w]] # <<>> /\ RunHead(w, node[w])
      BY <1>2, <2>1, DrainCases, RunItems
    <2>2. CASE fifo[node[w]] = <<>> /\ BackToPool(w)
      <3>1. \A v \in Workers : cur[v] # None => node'[v] = node[v]
        BY <1>2, <2>2, DrainCases DEF BackToPool, TypeOK
      <3> QED
        BY <1>2, <2>2, <3>1, DrainCases, ItemFrame DEF BackToPool
    <2> QED
      BY <1>2, <2>1, <2>2, DrainCases
  <1>3. ASSUME NEW w \in Workers, ItemReturn(w) PROVE ItemInv'
    BY <1>3, ReturnItems
  <1>4. ASSUME NEW w \in Workers, PopNode(w) PROVE ItemInv'
    <2>1. \A v \in Workers : cur[v] # None => node'[v] = node[v]
      BY <1>4 DEF PopNode, TypeOK, ControlInv
    <2> QED
      BY <1>4, <2>1, ItemFrame DEF PopNode, qvars, ivars
  <1>5. ASSUME NEW t \in Threads, RunnablePush(t) \/ SyncReturn(t) PROVE ItemInv'
    BY <1>5, ItemFrame DEF RunnablePush, SyncReturn, qvars, ivars
  <1>6. ASSUME NEW t \in Threads, NEW q \in Queues, DispatchSyncAbort(t, q) PROVE ItemInv'
    BY <1>6, ItemFrame DEF DispatchSyncAbort, qvars, ivars
  <1>7. CASE UNCHANGED vars
    BY <1>7, ItemFrame DEF vars, qvars, ivars
  <1> QED
    BY <1>1, <1>2, <1>3, <1>4, <1>5, <1>6, <1>7 DEF Next, CallStep, WorkerStep

-----------------------------------------------------------------------------
(***************************************************************************)
(* Serial order.  The only step at stake is the start of an item h of a    *)
(* serial queue: an earlier item of the queue is not queued, the fifo      *)
(* being sorted, and not running, its worker being a second owner.         *)
(***************************************************************************)
LEMMA DrainerAlone ==
  ASSUME TypeOK, ControlInv, OwnerInv, ItemInv, NEW w \in Workers,
         StartDrain(w) \/ DrainNext(w) \/ RunConcurrent(w), node[w] \in SerialQueues
  PROVE  ItemsRunning(node[w]) = {}
  <1> SUFFICES ASSUME NEW i \in Items, status[i] = "running", home[i] = node[w] PROVE FALSE
    BY DEF ItemsRunning
  <1>1. PICK v \in Workers : cur[v] = i
    BY DEF ItemInv, RunningInv
  <1>2. i # None
    BY QueueAssumption
  <1>3. v \in Drainers(node[w])
    BY <1>1, <1>2 DEF ItemInv, RunningInv, Drainers, ControlInv, Threads
  <1>4. w \in Holders(node[w]) \/ w \in Drainers(node[w])
    BY DrainCases DEF Holders, Drainers
  <1>5. v # w
    BY <1>1, <1>2, DrainCases
  <1> QED
    BY <1>3, <1>4, <1>5 DEF OwnerInv, OwnedOnce

LEMMA OrderStep ==
  ASSUME TypeOK, ControlInv, OwnerInv, ItemInv, SerialOrder, [Next]_vars
  PROVE  SerialOrder'
  <1> SUFFICES ASSUME NEW i \in Items, NEW j \in Items, i < j, home'[i] \in SerialQueues,
                      home'[i] = home'[j], status'[j] \in {"running", "done"}
               PROVE  status'[i] = "done"
    BY DEF SerialOrder
  <1> USE QueueAssumption DEF Threads
  <1>0. ASSUME UNCHANGED <<home, status>> PROVE status'[i] = "done"
    BY <1>0 DEF SerialOrder
  <1>1. ASSUME NEW t \in Threads, NEW q \in Queues, DispatchAsync(t, q) \/ DispatchSync(t, q)
        PROVE status'[i] = "done"
    <2>1. /\ status'[next] = "queued"
          /\ \A k \in Items : k # next => status'[k] = status[k] /\ home'[k] = home[k]
      BY <1>1 DEF DispatchAsync, DispatchSync, PushItem, TypeOK
    <2>2. j # next /\ status[j] \in {"running", "done"} /\ ~(j >= next)
      BY <2>1 DEF ItemInv, AllocInv
    <2>3. i # next
      BY <2>2, ItemsNat DEF TypeOK
    <2> QED
      BY <2>1, <2>2, <2>3 DEF SerialOrder
  <1>2. ASSUME NEW w \in Workers, StartDrain(w) \/ DrainNext(w) \/ RunConcurrent(w)
        PROVE status'[i] = "done"
    <2> DEFINE q == node[w]
               h == Head(fifo[q])
    <2>1. CASE BackToPool(w)
      BY <1>0, <1>2, <2>1, DrainCases DEF BackToPool
    <2>2. CASE fifo[q] # <<>> /\ RunHead(w, q)
      <3>1. /\ q \in Queues /\ h \in Items /\ h = fifo[q][1] /\ status[h] = "queued"
            /\ home[h] = q /\ 1 \in 1 .. Len(fifo[q])
        <4>1. q \in Queues /\ fifo[q] # <<>>
          BY <1>2, <2>2, DrainCases
        <4>2. h = fifo[q][1] /\ h \in Items /\ 1 \in 1 .. Len(fifo[q])
          BY <4>1, HeadType
        <4> QED
          BY <4>1, <4>2 DEF ItemInv, FifoInv
      <3>2. /\ status'[h] = "running" /\ home' = home
            /\ \A k \in Items : k # h => status'[k] = status[k]
        BY <1>2, <2>2, <3>1, DrainCases DEF RunHead, TypeOK
      <3> HIDE DEF h, q
      <3>3. CASE j # h
        BY <3>1, <3>2, <3>3 DEF SerialOrder
      <3>4. CASE j = h
        <4>0. i \in Nat /\ h \in Nat /\ i < h
          BY <3>1, <3>4, ItemsNat
        <4>1. /\ i \in Nat /\ h \in Nat /\ i < h /\ i # h
              /\ home[i] = q /\ q \in SerialQueues
          BY <3>1, <3>2, <3>4, <4>0
        <4>2. status[i] # "free"
          <5>1. ~(h >= next) /\ next \in Nat
            BY <3>1 DEF ItemInv, AllocInv, TypeOK
          <5> QED
            BY <4>1, <5>1 DEF ItemInv, AllocInv
        <4>3. status[i] # "queued"
          <5> SUFFICES ASSUME status[i] = "queued" PROVE FALSE
            OBVIOUS
          <5>1. PICK k \in 1 .. Len(fifo[q]) : fifo[q][k] = i
            BY <4>1 DEF ItemInv, QueuedInv
          <5>2. CASE k = 1
            BY <3>1, <4>1, <5>1, <5>2
          <5>3. CASE k # 1
            <6>1. 1 < k
              BY <5>1, <5>3
            <6>2. h < i
              BY <3>1, <5>1, <6>1 DEF ItemInv, FifoInv
            <6> QED
              BY <4>1, <6>2
          <5> QED
            BY <5>2, <5>3
        <4>4. status[i] # "running"
          BY <1>2, <4>1, DrainerAlone DEF ItemsRunning, q
        <4>5. status[i] = "done"
          BY <4>2, <4>3, <4>4 DEF TypeOK
        <4> QED
          BY <3>2, <4>1, <4>5
      <3> QED
        BY <3>3, <3>4
    <2> QED
      BY <1>2, <2>1, <2>2, DrainCases
  <1>3. ASSUME NEW w \in Workers, ItemReturn(w) PROVE status'[i] = "done"
    <2>1. cur[w] \in Items /\ status[cur[w]] = "running" /\ home' = home
      BY <1>3 DEF ItemReturn, ControlInv, ItemInv, RunningInv, TypeOK
    <2>2. /\ status'[cur[w]] = "done"
          /\ \A k \in Items : k # cur[w] => status'[k] = status[k]
      BY <1>3, <2>1 DEF ItemReturn, TypeOK
    <2>3. status[j] \in {"running", "done"}
      BY <2>1, <2>2
    <2> QED
      BY <2>1, <2>2, <2>3 DEF SerialOrder
  <1>4. ASSUME NEW w \in Workers, PopNode(w) PROVE status'[i] = "done"
    BY <1>0, <1>4 DEF PopNode, ivars
  <1>5. ASSUME NEW t \in Threads, RunnablePush(t) \/ SyncReturn(t) PROVE status'[i] = "done"
    BY <1>0, <1>5 DEF RunnablePush, SyncReturn, ivars
  <1>6. ASSUME NEW t \in Threads, NEW q \in Queues, DispatchSyncAbort(t, q)
        PROVE status'[i] = "done"
    BY <1>0, <1>6 DEF DispatchSyncAbort, ivars
  <1>7. CASE UNCHANGED vars
    BY <1>0, <1>7 DEF vars, ivars
  <1> QED
    BY <1>1, <1>2, <1>3, <1>4, <1>5, <1>6, <1>7 DEF Next, CallStep, WorkerStep

-----------------------------------------------------------------------------
(***************************************************************************)
(* dispatch_sync: a frame is popped only after its item ran, and no worker *)
(* waits for the queue it drains.                                          *)
(***************************************************************************)
LEMMA SyncStep ==
  ASSUME TypeOK, ControlInv, ItemInv, SyncInv, SyncFrameAlive, NoSelfDeadlock, [Next]_vars
  PROVE  SyncInv' /\ SyncFrameAlive' /\ NoSelfDeadlock'
  <1> USE QueueAssumption DEF Threads, Caller
  <1>0. \A t \in Threads : awaited[t] # None =>
          awaited[t] \in Items /\ status[awaited[t]] # "free"
    BY DEF TypeOK, SyncInv
  <1>1. ASSUME NEW t \in Threads, NEW q \in Queues, DispatchAsync(t, q)
        PROVE SyncInv' /\ SyncFrameAlive' /\ NoSelfDeadlock'
    <2>1. /\ next \in Items /\ status[next] = "free" /\ status'[next] = "queued"
          /\ kind'[next] = "async" /\ UNCHANGED <<svars, cur, node, tls>>
          /\ \A i \in Items : i # next =>
               status'[i] = status[i] /\ home'[i] = home[i] /\ kind'[i] = kind[i]
      BY <1>1, ItemsNat DEF DispatchAsync, PushItem, TypeOK, ItemInv, AllocInv
    <2>2. SyncInv'
      BY <1>0, <2>1 DEF SyncInv, svars
    <2>3. SyncFrameAlive'
      BY <2>1 DEF SyncFrameAlive, svars
    <2>4. NoSelfDeadlock'
      BY <1>0, <2>1 DEF NoSelfDeadlock, svars
    <2> QED
      BY <2>2, <2>3, <2>4
  <1>2. ASSUME NEW t \in Threads, NEW q \in Queues, DispatchSync(t, q)
        PROVE SyncInv' /\ SyncFrameAlive' /\ NoSelfDeadlock'
    <2>1. /\ next \in Items /\ status[next] = "free" /\ status'[next] = "queued"
          /\ home'[next] = q /\ UNCHANGED <<cur, node, tls>>
          /\ \A i \in Items : i # next =>
               status'[i] = status[i] /\ home'[i] = home[i] /\ kind'[i] = kind[i]
      BY <1>2, ItemsNat DEF DispatchSync, PushItem, TypeOK, ItemInv, AllocInv
    <2>2. /\ sem' = [sem EXCEPT ![next] = 0] /\ frames' = frames \cup {next}
          /\ awaited' = [awaited EXCEPT ![t] = next] /\ tls[t] # q /\ pc[t] = "user"
      BY <1>2 DEF DispatchSync
    <2>3. SyncInv'
      <3>1. \A i \in Items : sem'[i] > 0 => status'[i] = "done"
        <4>1. sem'[next] = 0 /\ \A i \in Items : i # next => sem'[i] = sem[i]
          BY <2>1, <2>2 DEF TypeOK
        <4> QED
          BY <2>1, <4>1 DEF SyncInv
      <3>2. \A s \in Threads : awaited'[s] # None => status'[awaited'[s]] # "free"
        <4>1. awaited'[t] = next /\ \A s \in Threads : s # t => awaited'[s] = awaited[s]
          BY <2>2 DEF TypeOK
        <4> QED
          BY <1>0, <2>1, <4>1
      <3>3. \A w \in Workers : cur'[w] # None /\ node'[w] \in SerialQueues => tls'[w] = node'[w]
        BY <2>1 DEF SyncInv
      <3> QED
        BY <3>1, <3>2, <3>3 DEF SyncInv
    <2>4. SyncFrameAlive'
      BY <2>1, <2>2 DEF SyncFrameAlive
    <2>5. NoSelfDeadlock'
      <3> SUFFICES ASSUME NEW w \in Workers, awaited'[w] # None, node'[w] \in SerialQueues
                   PROVE home'[awaited'[w]] # node'[w]
        BY DEF NoSelfDeadlock
      <3>1. CASE w = t
        <4>1. tls[w] = node[w] /\ awaited'[w] = next
          BY <2>1, <2>2, <3>1 DEF ControlInv, SyncInv, TypeOK
        <4> QED
          BY <2>1, <2>2, <3>1, <4>1
      <3>2. CASE w # t
        <4>1. awaited'[w] = awaited[w]
          BY <2>2, <3>2 DEF TypeOK
        <4> QED
          BY <1>0, <2>1, <4>1 DEF NoSelfDeadlock
      <3> QED
        BY <3>1, <3>2
    <2> QED
      BY <2>3, <2>4, <2>5
  <1>3. ASSUME NEW t \in Threads, SyncReturn(t)
        PROVE SyncInv' /\ SyncFrameAlive' /\ NoSelfDeadlock'
    <2> DEFINE i == awaited[t]
    <2>1. i \in Items /\ i # None /\ status[i] = "done" /\ sem[i] \in Nat /\ sem[i] > 0
      BY <1>0, <1>3 DEF SyncReturn, ControlInv, SyncInv, TypeOK
    <2>2. /\ sem' = [sem EXCEPT ![i] = @ - 1] /\ frames' = frames \ {i}
          /\ awaited' = [awaited EXCEPT ![t] = None]
          /\ UNCHANGED <<status, home, kind, node, cur, tls>>
      BY <1>3 DEF SyncReturn, ivars
    <2>3. SyncInv'
      BY <1>0, <2>1, <2>2 DEF SyncInv, TypeOK
    <2>4. SyncFrameAlive'
      BY <2>1, <2>2 DEF SyncFrameAlive
    <2>5. NoSelfDeadlock'
      BY <1>0, <2>2 DEF NoSelfDeadlock, TypeOK
    <2> QED
      BY <2>3, <2>4, <2>5
  <1>4. ASSUME NEW w \in Workers, StartDrain(w) \/ DrainNext(w) \/ RunConcurrent(w)
        PROVE SyncInv' /\ SyncFrameAlive' /\ NoSelfDeadlock'
    <2> DEFINE q == node[w]
               h == Head(fifo[q])
    <2>0. q \in Queues /\ cur[w] = None /\ awaited[w] = None
          /\ UNCHANGED <<sem, frames, awaited, home, kind>>
      BY <1>4, DrainCases DEF ControlInv, svars
    <2>1. CASE fifo[q] # <<>> /\ RunHead(w, q)
      <3>1. h \in Items /\ status[h] = "queued"
        BY <2>0, <2>1, HeadType DEF ItemInv, FifoInv
      <3>2. /\ status' = [status EXCEPT ![h] = "running"] /\ node' = node
            /\ cur' = [cur EXCEPT ![w] = h]
            /\ tls' = [tls EXCEPT ![w] = IF q \in SerialQueues THEN q ELSE @]
        BY <2>1 DEF RunHead
      <3> HIDE DEF h
      <3>3. SyncInv'
        BY <1>0, <2>0, <3>1, <3>2 DEF SyncInv, TypeOK
      <3>4. SyncFrameAlive'
        BY <2>0, <3>1, <3>2 DEF SyncFrameAlive, TypeOK
      <3>5. NoSelfDeadlock'
        BY <2>0, <3>2 DEF NoSelfDeadlock
      <3> QED
        BY <3>3, <3>4, <3>5
    <2>2. CASE BackToPool(w)
      <3>1. UNCHANGED <<cur, status, tls>> /\ node' = [node EXCEPT ![w] = None]
        BY <2>2 DEF BackToPool
      <3>2. SyncInv'
        BY <2>0, <3>1 DEF SyncInv, TypeOK
      <3>3. SyncFrameAlive'
        BY <2>0, <3>1 DEF SyncFrameAlive
      <3>4. NoSelfDeadlock'
        BY <2>0, <3>1 DEF NoSelfDeadlock, TypeOK
      <3> QED
        BY <3>2, <3>3, <3>4
    <2> QED
      BY <1>4, <2>1, <2>2, DrainCases
  <1>5. ASSUME NEW w \in Workers, ItemReturn(w)
        PROVE SyncInv' /\ SyncFrameAlive' /\ NoSelfDeadlock'
    <2> DEFINE i == cur[w]
    <2>1. /\ i \in Items /\ status' = [status EXCEPT ![i] = "done"]
          /\ cur' = [cur EXCEPT ![w] = None] /\ tls' = [tls EXCEPT ![w] = None]
          /\ awaited[w] = None /\ UNCHANGED <<home, kind, frames, awaited>>
          /\ \A v \in Workers : v # w => node'[v] = node[v]
          /\ \A j \in Items : j # i => sem'[j] = sem[j]
      BY <1>5 DEF ItemReturn, ControlInv, TypeOK
    <2>2. SyncInv'
      BY <2>1 DEF SyncInv, TypeOK
    <2>3. SyncFrameAlive'
      BY <2>1 DEF SyncFrameAlive, TypeOK
    <2>4. NoSelfDeadlock'
      BY <2>1 DEF NoSelfDeadlock
    <2> QED
      BY <2>2, <2>3, <2>4
  <1>6. ASSUME NEW w \in Workers, PopNode(w)
        PROVE SyncInv' /\ SyncFrameAlive' /\ NoSelfDeadlock'
    <2>1. /\ cur[w] = None /\ awaited[w] = None
          /\ \A v \in Workers : v # w => node'[v] = node[v]
          /\ UNCHANGED <<svars, status, home, kind, cur, tls>>
      BY <1>6 DEF PopNode, ControlInv, TypeOK, ivars
    <2> QED
      BY <2>1 DEF SyncInv, SyncFrameAlive, NoSelfDeadlock, svars
  <1>7. ASSUME UNCHANGED <<svars, status, home, kind, cur, tls, node>>
        PROVE SyncInv' /\ SyncFrameAlive' /\ NoSelfDeadlock'
    BY <1>7 DEF SyncInv, SyncFrameAlive, NoSelfDeadlock, svars
  <1> QED
    BY <1>1, <1>2, <1>3, <1>4, <1>5, <1>6, <1>7
       DEF Next, CallStep, WorkerStep, RunnablePush, DispatchSyncAbort, vars, ivars

-----------------------------------------------------------------------------
\* Every reachable state satisfies the inductive invariant.
THEOREM Invariance == Spec => []IInv
  <1>1. IInv /\ [Next]_vars => IInv'
    BY TypeStep, OwnerStep, ItemStep, OrderStep, SyncStep DEF IInv
  <1> QED
    BY InitInv, <1>1, PTL DEF Spec

\* The types of the queues, threads and items are never violated.
THEOREM TypeCorrect == Spec => []TypeOK
  BY Invariance, PTL DEF IInv

\* Items of a serial queue run one at a time, in the order they were pushed.
THEOREM SerialOrderHolds == Spec => []SerialOrder
  BY Invariance, PTL DEF IInv

\* A serial queue has at most one owner, so it is never on the runnable list
\* twice and never drained by two workers.
THEOREM SerialExclusionHolds == Spec => []SerialExclusion
  <1>1. IInv => SerialExclusion
    <2> SUFFICES ASSUME IInv, NEW q \in SerialQueues PROVE \A x, y \in Owners(q) : x = y
      BY DEF SerialExclusion
    <2>1. OwnedOnce(q)
      BY DEF IInv, OwnerInv
    <2> QED
      BY <2>1 DEF OwnedOnce, Owners
  <1> QED
    BY Invariance, <1>1, PTL

\* A serial queue with items always has an owner on its way to them.
THEOREM NoStrandedItemHolds == Spec => []NoStrandedItem
  <1>1. IInv => NoStrandedItem
    <2> SUFFICES ASSUME IInv, NEW q \in SerialQueues, fifo[q] # <<>> PROVE Owners(q) # {}
      BY DEF NoStrandedItem
    <2>1. OwnedOnce(q)
      BY DEF IInv, OwnerInv
    <2>2. \/ Pushers(q) # {} \/ Places(q) # {} \/ Holders(q) # {} \/ Drainers(q) # {}
      BY <2>1 DEF OwnedOnce
    <2>3. /\ \A t \in Pushers(q) : <<"pusher", t>> \in Owners(q)
          /\ \A k \in Places(q) : <<"place", k>> \in Owners(q)
          /\ \A w \in Holders(q) : <<"holder", w>> \in Owners(q)
          /\ \A w \in Drainers(q) : <<"drainer", w>> \in Owners(q)
      BY DEF Owners
    <2> QED
      BY <2>2, <2>3
  <1> QED
    BY Invariance, <1>1, PTL

\* A dispatch_sync frame outlives its item, and no worker waits for itself.
THEOREM SyncSafe == Spec => [](SyncFrameAlive /\ NoSelfDeadlock)
  BY Invariance, PTL DEF IInv

-----------------------------------------------------------------------------
(***************************************************************************)
(* Refinement: a push is a Submit, the start of an item a Start, its       *)
(* return a Finish, and everything else is invisible to the client.        *)
(***************************************************************************)
LEMMA StutterStep ==
  ASSUME UNCHANGED <<fifo, status, home>> PROVE UNCHANGED Exec!evars
  BY DEF Exec!evars, ItemsRunning

LEMMA SubmitStep ==
  ASSUME IInv, NEW t \in Threads, NEW q \in Queues, NEW k, PushItem(t, q, k)
  PROVE  Exec!Submit(q, next)
  <1> USE DEF IInv
  <1>1. next \in Items /\ status[next] = "free"
    BY ItemsNat DEF PushItem, ItemInv, AllocInv
  <1>2. next \notin Exec!Known
    <2>1. \A q1 \in Queues : next \notin ItemsRunning(q1)
      BY <1>1 DEF ItemsRunning
    <2>2. \A q1 \in Queues : \A l \in DOMAIN fifo[q1] : fifo[q1][l] # next
      <3> SUFFICES ASSUME NEW q1 \in Queues, NEW l \in DOMAIN fifo[q1] PROVE fifo[q1][l] # next
        OBVIOUS
      <3>1. l \in 1 .. Len(fifo[q1])
        BY FifoType
      <3> QED
        BY <1>1, <3>1 DEF ItemInv, FifoInv
    <2> QED
      BY <1>1, <2>1, <2>2 DEF Exec!Known
  <1>3. fifo' = [fifo EXCEPT ![q] = Append(@, next)]
    BY DEF PushItem
  <1>4. /\ status' = [status EXCEPT ![next] = "queued"]
        /\ \A i \in Items : status[i] # "free" => home'[i] = home[i]
    BY <1>1 DEF PushItem, TypeOK
  <1>5. \A i \in Items : /\ status'[i] = "done" <=> status[i] = "done"
                         /\ status'[i] = "running" <=> status[i] = "running"
    BY <1>1, <1>4 DEF TypeOK
  <1>6. \A r \in Queues : ItemsRunning(r)' = ItemsRunning(r)
    BY <1>4, <1>5 DEF ItemsRunning
  <1> QED
    BY <1>2, <1>3, <1>5, <1>6 DEF Exec!Submit

LEMMA StartStep ==
  ASSUME IInv, NEW w \in Workers, StartDrain(w) \/ DrainNext(w) \/ RunConcurrent(w),
         fifo[node[w]] # <<>>, RunHead(w, node[w])
  PROVE  Exec!Start(node[w])
  <1> USE DEF IInv
  <1> DEFINE q == node[w]
             h == Head(fifo[q])
  <1>1. q \in Queues /\ home' = home
    BY DrainCases
  <1>2. h \in Items /\ status[h] = "queued" /\ home[h] = q
    BY <1>1, HeadType DEF ItemInv, FifoInv
  <1>3. q \in SerialQueues => ItemsRunning(q) = {}
    BY DrainerAlone
  <1>4. fifo' = [fifo EXCEPT ![q] = Tail(@)] /\ status' = [status EXCEPT ![h] = "running"]
    BY DEF RunHead
  <1> HIDE DEF h
  <1>5. \A i \in Items : /\ status'[i] = "done" <=> status[i] = "done"
                         /\ status'[i] = "running" <=> status[i] = "running" \/ i = h
    BY <1>2, <1>4 DEF TypeOK
  <1>6. \A r \in Queues : ItemsRunning(r)' = IF r = q THEN ItemsRunning(r) \cup {h}
                                                       ELSE ItemsRunning(r)
    BY <1>1, <1>2, <1>5 DEF ItemsRunning
  <1> QED
    BY <1>1, <1>3, <1>4, <1>5, <1>6 DEF Exec!Start, h

LEMMA FinishStep ==
  ASSUME IInv, NEW w \in Workers, ItemReturn(w)
  PROVE  \E q \in Queues, i \in Items : Exec!Finish(q, i)
  <1> USE DEF IInv
  <1>0. PICK q \in Queues, i \in Items : q = node[w] /\ i = cur[w]
    BY DEF ItemReturn, TypeOK, ControlInv, Threads, Caller
  <1>1. q \in Queues /\ i \in Items /\ status[i] = "running" /\ home[i] = q
    BY <1>0 DEF ItemReturn, TypeOK, ControlInv, ItemInv, RunningInv, Threads, Caller
  <1>2. fifo' = fifo /\ home' = home /\ status' = [status EXCEPT ![i] = "done"]
    BY <1>0 DEF ItemReturn, qvars
  <1>3. \A j \in Items : /\ status'[j] = "done" <=> status[j] = "done" \/ j = i
                         /\ status'[j] = "running" <=> status[j] = "running" /\ j # i
    BY <1>1, <1>2 DEF TypeOK
  <1>4. \A r \in Queues : ItemsRunning(r)' = IF r = q THEN ItemsRunning(r) \ {i}
                                                       ELSE ItemsRunning(r)
    BY <1>1, <1>2, <1>3 DEF ItemsRunning
  <1>5. i \in ItemsRunning(q)
    BY <1>1 DEF ItemsRunning
  <1>6. {j \in Items : status'[j] = "done"} = {j \in Items : status[j] = "done"} \cup {i}
    BY <1>1, <1>3
  <1>7. Exec!Finish(q, i)
    BY <1>1, <1>2, <1>4, <1>5, <1>6 DEF Exec!Finish
  <1> QED
    BY <1>7

\* The worker pool implements the executor: every behaviour of it, seen by its
\* clients, is one of the abstract specification.
THEOREM Refinement == Spec => ImplementsExecutor
  <1>1. Init => Exec!ExecutorInit
    BY DEF Init, Exec!ExecutorInit, ItemsRunning
  <1>2. IInv /\ [Next]_vars => [Exec!ExecutorNext]_(Exec!evars)
    <2> SUFFICES ASSUME IInv, [Next]_vars PROVE Exec!ExecutorNext \/ UNCHANGED Exec!evars
      OBVIOUS
    <2>1. ASSUME NEW t \in Threads, NEW q \in Queues, DispatchAsync(t, q) \/ DispatchSync(t, q)
          PROVE Exec!ExecutorNext
      <3>1. next \in Items /\ Exec!Submit(q, next)
        <4>1. PushItem(t, q, "async") \/ PushItem(t, q, "sync")
          BY <2>1 DEF DispatchAsync, DispatchSync
        <4> QED
          BY <4>1, SubmitStep DEF PushItem
      <3> QED
        BY <3>1 DEF Exec!ExecutorNext
    <2>2. ASSUME NEW w \in Workers, StartDrain(w) \/ DrainNext(w) \/ RunConcurrent(w)
          PROVE Exec!ExecutorNext \/ UNCHANGED Exec!evars
      <3>1. CASE fifo[node[w]] # <<>> /\ RunHead(w, node[w])
        BY <2>2, <3>1, StartStep, DrainCases DEF Exec!ExecutorNext, IInv
      <3>2. CASE BackToPool(w)
        BY <2>2, <3>2, StutterStep, DrainCases DEF BackToPool, IInv
      <3> QED
        BY <2>2, <3>1, <3>2, DrainCases DEF IInv
    <2>3. ASSUME NEW w \in Workers, ItemReturn(w) PROVE Exec!ExecutorNext
      BY <2>3, FinishStep DEF Exec!ExecutorNext
    <2>4. ASSUME NEW w \in Workers, PopNode(w) PROVE UNCHANGED Exec!evars
      BY <2>4, StutterStep DEF PopNode, qvars, ivars
    <2>5. ASSUME NEW t \in Threads, CallStep(t) PROVE UNCHANGED Exec!evars
      BY <2>5, StutterStep DEF CallStep, RunnablePush, SyncReturn, qvars, ivars
    <2>6. ASSUME NEW t \in Threads, NEW q \in Queues, DispatchSyncAbort(t, q)
          PROVE UNCHANGED Exec!evars
      BY <2>6, StutterStep DEF DispatchSyncAbort, qvars, ivars
    <2>7. CASE UNCHANGED vars
      BY <2>7, StutterStep DEF vars, qvars, ivars
    <2> QED
      BY <2>1, <2>2, <2>3, <2>4, <2>5, <2>6, <2>7 DEF Next, WorkerStep
  <1> QED
    BY Invariance, <1>1, <1>2, PTL DEF Spec, ImplementsExecutor, Exec!ExecutorSpec

-----------------------------------------------------------------------------
(***************************************************************************)
(* Concurrent queues.  A step moves at most one node of a queue from one   *)
(* of its three places to the next, and only a push and the start of an    *)
(* item, which takes the node's place in nobody's hands, change the fifo.  *)
(***************************************************************************)
NodeBalance(q) ==
    /\ IsFiniteSet(Pushers(q))
    /\ IsFiniteSet(Holders(q))
    /\ Len(fifo[q]) = Cardinality(Pushers(q)) + Cardinality(Places(q))
                        + Cardinality(Holders(q))

NodeInv == \A q \in Queues \ SerialQueues : NodeBalance(q)

\* Removing the head of a list moves the other places of a queue one down.
LEMMA ShiftedDown ==
  ASSUME NEW P, NEW T, IsFiniteSet(P), P \subseteq Nat \ {0}, T \subseteq Nat,
         \A k \in Nat : k \in T <=> k + 1 \in P \ {1}
  PROVE  Cardinality(T) = IF 1 \in P THEN Cardinality(P) - 1 ELSE Cardinality(P)
  <1> DEFINE f == [k \in P \ {1} |-> k - 1]
  <1>1. f \in [P \ {1} -> T]
    <2> SUFFICES ASSUME NEW k \in P \ {1} PROVE k - 1 \in T
      OBVIOUS
    <2>1. k \in Nat /\ k - 1 \in Nat /\ (k - 1) + 1 = k
      OBVIOUS
    <2> QED
      BY <2>1
  <1>2. \A a, b \in P \ {1} : f[a] = f[b] => a = b
    OBVIOUS
  <1>3. \A t \in T : \E s \in P \ {1} : f[s] = t
    <2> SUFFICES ASSUME NEW t \in T PROVE \E s \in P \ {1} : f[s] = t
      OBVIOUS
    <2>1. t \in Nat /\ t + 1 \in P \ {1} /\ (t + 1) - 1 = t
      OBVIOUS
    <2> QED
      BY <2>1
  <1>4. ExistsBijection(P \ {1}, T)
    <2> HIDE DEF f
    <2>1. f \in Bijection(P \ {1}, T)
      BY <1>1, <1>2, <1>3 DEF Bijection, Injection, IsInjective, Surjection
    <2> QED
      BY <2>1 DEF ExistsBijection
  <1>5. /\ IsFiniteSet(P \ {1})
        /\ Cardinality(P \ {1}) = IF 1 \in P THEN Cardinality(P) - 1 ELSE Cardinality(P)
    BY FS_RemoveElement
  <1> QED
    BY <1>4, <1>5, FS_Bijection

\* The places of a queue on the runnable list are finitely many.
LEMMA PlacesFinite ==
  ASSUME TypeOK, NEW q \in Queues
  PROVE  IsFiniteSet(Places(q)) /\ Places(q) \subseteq 1 .. Len(runnable)
  <1>1. Len(runnable) \in Nat /\ DOMAIN runnable = 1 .. Len(runnable)
    BY DEF TypeOK
  <1>2. Places(q) \in SUBSET (1 .. Len(runnable))
    BY <1>1 DEF Places
  <1>3. IsFiniteSet(1 .. Len(runnable))
    BY <1>1, FS_Interval
  <1>4. IsFiniteSet(Places(q))
    BY ONLY <1>2, <1>3, FS_Subset
  <1> QED
    BY <1>2, <1>4

\* The three terms of the sum are natural numbers.
LEMMA NodeCounts ==
  ASSUME TypeOK, NEW q \in Queues, NodeBalance(q)
  PROVE  /\ Cardinality(Pushers(q)) \in Nat
         /\ Cardinality(Places(q)) \in Nat
         /\ Cardinality(Holders(q)) \in Nat
         /\ fifo[q] \in Seq(Items)
         /\ Len(fifo[q]) \in Nat
  <1>1. fifo[q] \in Seq(Items)
    BY DEF TypeOK
  <1> QED
    BY <1>1, PlacesFinite, FS_CardinalityType DEF NodeBalance

\* What does not touch a queue's fifo or nodes keeps them balanced.
LEMMA NodeFrame ==
  ASSUME NEW r, NodeBalance(r),
         UNCHANGED <<fifo[r], Pushers(r), Places(r), Holders(r)>>
  PROVE  NodeBalance(r)'
  BY DEF NodeBalance

\* _dispatch_queue_push_item: one item, and one thread that owes a push.
LEMMA PushNode ==
  ASSUME TypeOK, NEW t \in Threads, pc[t] = "user", NEW q \in Queues, NEW k,
         PushItem(t, q, k), NEW r \in Queues \ SerialQueues, NodeBalance(r)
  PROVE  NodeBalance(r)'
  <1> USE QueueAssumption DEF Threads, Caller
  <1>1. UNCHANGED <<Places(r), Holders(r)>>
    BY DEF PushItem, Places, Holders, TypeOK
  <1>2. CASE q = r
    <2>1. Pushers(r)' = Pushers(r) \cup {t} /\ t \notin Pushers(r)
      BY <1>2 DEF PushItem, ShouldPush, Pushers, TypeOK
    <2>2. /\ IsFiniteSet(Pushers(r)')
          /\ Cardinality(Pushers(r)') = Cardinality(Pushers(r)) + 1
      BY <2>1, FS_AddElement DEF NodeBalance
    <2>3. fifo'[r] = Append(fifo[r], next)
      BY <1>2 DEF PushItem, TypeOK
    <2>4. Len(fifo'[r]) = Len(fifo[r]) + 1
      BY <2>3, NodeCounts DEF PushItem
    <2> QED
      BY <1>1, <2>2, <2>4, NodeCounts DEF NodeBalance
  <1>3. CASE q # r
    <2>1. UNCHANGED <<fifo[r], Pushers(r)>>
      BY <1>3 DEF PushItem, Pushers, TypeOK
    <2> QED
      BY <1>1, <2>1, NodeFrame
  <1> QED
    BY <1>2, <1>3

\* runnable_push: from a thread to the list.
LEMMA RunnablePushNode ==
  ASSUME TypeOK, ControlInv, NEW t \in Threads, RunnablePush(t),
         NEW r \in Queues \ SerialQueues, NodeBalance(r)
  PROVE  NodeBalance(r)'
  <1> USE QueueAssumption DEF Threads, Caller
  <1>1. PICK q \in Queues : q = pushing[t]
    BY DEF RunnablePush, ControlInv, TypeOK
  <1>2. /\ pc[t] = "push"
        /\ runnable' = Append(runnable, q)
        /\ pushing' = [pushing EXCEPT ![t] = None]
        /\ pc' = [pc EXCEPT ![t] = IF awaited[t] = None THEN "user" ELSE "wait"]
        /\ UNCHANGED <<fifo, node>>
    BY <1>1 DEF RunnablePush, qvars
  <1>3. /\ runnable \in Seq(Queues)
        /\ Len(runnable) \in Nat
        /\ DOMAIN runnable = 1 .. Len(runnable)
        /\ DOMAIN runnable' = 1 .. Len(runnable) + 1
        /\ runnable'[Len(runnable) + 1] = q
        /\ \A k \in 1 .. Len(runnable) : runnable'[k] = runnable[k]
    BY <1>2 DEF TypeOK
  <1>4. UNCHANGED <<fifo[r], Holders(r)>>
    BY <1>2 DEF Holders, TypeOK
  <1>5. CASE q = r
    <2>1. Pushers(r)' = Pushers(r) \ {t} /\ t \in Pushers(r)
      BY <1>1, <1>2, <1>5 DEF Pushers, TypeOK
    <2>2. Places(r)' = Places(r) \cup {Len(runnable) + 1} /\ Len(runnable) + 1 \notin Places(r)
      BY <1>3, <1>5 DEF Places
    <2>3. /\ IsFiniteSet(Pushers(r)')
          /\ Cardinality(Pushers(r)') = Cardinality(Pushers(r)) - 1
      BY <2>1, FS_RemoveElement DEF NodeBalance
    <2>4. Cardinality(Places(r)') = Cardinality(Places(r)) + 1
      BY <2>2, PlacesFinite, FS_AddElement
    <2> QED
      BY <1>4, <2>3, <2>4, NodeCounts DEF NodeBalance
  <1>6. CASE q # r
    <2>1. UNCHANGED Pushers(r)
      BY <1>1, <1>2, <1>6 DEF Pushers, TypeOK
    <2>2. UNCHANGED Places(r)
      BY <1>3, <1>6 DEF Places
    <2> QED
      BY <1>4, <2>1, <2>2, NodeFrame
  <1> QED
    BY <1>5, <1>6

\* runnable_pop_blocking: from the list to a worker.
LEMMA PopNodeNode ==
  ASSUME TypeOK, ControlInv, NEW w \in Workers, PopNode(w),
         NEW r \in Queues \ SerialQueues, NodeBalance(r)
  PROVE  NodeBalance(r)'
  <1> USE QueueAssumption DEF Threads, Caller
  <1>1. PICK q \in Queues : q = Head(runnable)
    BY DEF PopNode, TypeOK
  <1>2. /\ pc[w] = "pop"
        /\ runnable # <<>>
        /\ node' = [node EXCEPT ![w] = q]
        /\ runnable' = Tail(runnable)
        /\ pc' = [pc EXCEPT ![w] = "node"]
        /\ UNCHANGED <<fifo, pushing>>
    BY <1>1 DEF PopNode, qvars
  <1>3. /\ runnable \in Seq(Queues)
        /\ Len(runnable) \in Nat \ {0}
        /\ DOMAIN runnable = 1 .. Len(runnable)
        /\ DOMAIN runnable' = 1 .. Len(runnable) - 1
        /\ runnable[1] = q
        /\ \A k \in 1 .. Len(runnable) - 1 : runnable'[k] = runnable[k + 1]
    BY <1>1, <1>2 DEF TypeOK
  <1>4. UNCHANGED <<fifo[r], Pushers(r)>>
    BY <1>2 DEF Pushers, TypeOK
  <1>5. Cardinality(Places(r)') = IF q = r THEN Cardinality(Places(r)) - 1
                                  ELSE Cardinality(Places(r))
    <2>1. /\ IsFiniteSet(Places(r))
          /\ Places(r) \subseteq Nat \ {0}
          /\ Places(r)' \subseteq Nat
          /\ 1 \in Places(r) <=> q = r
      BY <1>3, PlacesFinite DEF Places
    <2>2. \A k \in Nat : k \in Places(r)' <=> k + 1 \in Places(r) \ {1}
      BY <1>3 DEF Places
    <2> QED
      BY <2>1, <2>2, ShiftedDown
  <1>6. CASE q = r
    <2>1. Holders(r)' = Holders(r) \cup {w} /\ w \notin Holders(r)
      BY <1>2, <1>6 DEF Holders, TypeOK
    <2>2. /\ IsFiniteSet(Holders(r)')
          /\ Cardinality(Holders(r)') = Cardinality(Holders(r)) + 1
      BY <2>1, FS_AddElement DEF NodeBalance
    <2> QED
      BY <1>4, <1>5, <1>6, <2>2, NodeCounts DEF NodeBalance
  <1>7. CASE q # r
    <2>1. UNCHANGED Holders(r)
      BY <1>2, <1>7 DEF Holders, TypeOK
    <2> QED
      BY <1>4, <1>5, <1>7, <2>1 DEF NodeBalance
  <1> QED
    BY <1>6, <1>7

\* A worker takes an item of a serial queue, or finds none left.
LEMMA DrainNode ==
  ASSUME TypeOK, NEW w \in Workers, pc[w] \in {"node", "ret"}, node[w] \in SerialQueues,
         DrainLocked(w, node[w]), NEW r \in Queues \ SerialQueues, NodeBalance(r)
  PROVE  NodeBalance(r)'
  <1> USE QueueAssumption DEF Threads, Caller
  <1>1. node[w] # r /\ node[w] \in Queues
    OBVIOUS
  <1>2. /\ runnable' = runnable
        /\ pushing' = pushing
        /\ fifo'[r] = fifo[r]
        /\ \A u \in Threads \ {w} : pc'[u] = pc[u] /\ node'[u] = node[u]
        /\ pc'[w] \in {"user", "pop"}
    BY <1>1 DEF DrainLocked, RunHead, BackToPool, TypeOK
  <1>3. UNCHANGED <<Pushers(r), Places(r), Holders(r)>>
    BY <1>1, <1>2 DEF Pushers, Places, Holders
  <1> QED
    BY <1>2, <1>3, NodeFrame

\* The node of a concurrent queue is spent on one item, which is there.
LEMMA RunConcurrentNode ==
  ASSUME TypeOK, ControlInv, NEW w \in Workers, RunConcurrent(w),
         NEW r \in Queues \ SerialQueues, NodeBalance(r)
  PROVE  NodeBalance(r)'
  <1> USE QueueAssumption DEF Threads, Caller
  <1>1. PICK q \in Queues : q = node[w]
    BY DEF RunConcurrent, ControlInv, TypeOK
  <1>2. /\ pc[w] = "node"
        /\ IF fifo[q] # <<>> THEN RunHead(w, q) ELSE BackToPool(w)
        /\ UNCHANGED <<runnable, pushing>>
    BY <1>1 DEF RunConcurrent
  <1>3. /\ \A u \in Threads \ {w} : pc'[u] = pc[u] /\ node'[u] = node[u]
        /\ pc'[w] \in {"user", "pop"}
    BY <1>2 DEF RunHead, BackToPool, TypeOK
  <1>4. UNCHANGED <<Pushers(r), Places(r)>>
    BY <1>2, <1>3 DEF Pushers, Places
  <1>5. CASE q = r
    <2>1. Holders(r)' = Holders(r) \ {w} /\ w \in Holders(r)
      BY <1>1, <1>2, <1>3, <1>5 DEF Holders
    <2>2. /\ IsFiniteSet(Holders(r)')
          /\ Cardinality(Holders(r)') = Cardinality(Holders(r)) - 1
          /\ Cardinality(Holders(r)') \in Nat
      BY <2>1, FS_RemoveElement, FS_CardinalityType DEF NodeBalance
    <2>3. Len(fifo[r]) > 0
      BY <2>2, NodeCounts DEF NodeBalance
    <2>4. fifo'[r] = Tail(fifo[r])
      BY <1>2, <1>5, <2>3, NodeCounts DEF RunHead, TypeOK
    <2>5. Len(fifo'[r]) = Len(fifo[r]) - 1
      BY <2>3, <2>4, NodeCounts
    <2> QED
      BY <1>4, <2>2, <2>5, NodeCounts DEF NodeBalance
  <1>6. CASE q # r
    <2>1. UNCHANGED fifo[r]
      BY <1>2, <1>6 DEF RunHead, BackToPool, TypeOK
    <2>2. UNCHANGED Holders(r)
      BY <1>1, <1>3, <1>6 DEF Holders
    <2> QED
      BY <1>4, <2>1, <2>2, NodeFrame
  <1> QED
    BY <1>5, <1>6

LEMMA NodeStep ==
  ASSUME IInv, NodeInv, [Next]_vars PROVE NodeInv'
  <1> SUFFICES ASSUME NEW r \in Queues \ SerialQueues PROVE NodeBalance(r)'
    BY DEF NodeInv
  <1> USE QueueAssumption DEF Threads, Caller, IInv
  <1>0. NodeBalance(r)
    BY DEF NodeInv
  <1>1. ASSUME NEW t \in Threads, NEW q \in Queues, DispatchAsync(t, q)
        PROVE  NodeBalance(r)'
    BY <1>0, <1>1, PushNode DEF DispatchAsync
  <1>2. ASSUME NEW t \in Threads, NEW q \in Queues, DispatchSync(t, q)
        PROVE  NodeBalance(r)'
    BY <1>0, <1>2, PushNode DEF DispatchSync
  <1>3. ASSUME NEW t \in Threads, NEW q \in Queues, DispatchSyncAbort(t, q)
        PROVE  NodeBalance(r)'
    <2>1. UNCHANGED <<fifo[r], Pushers(r), Places(r), Holders(r)>>
      BY <1>3 DEF DispatchSyncAbort, qvars, Pushers, Places, Holders
    <2> QED
      BY <1>0, <2>1, NodeFrame
  <1>4. ASSUME NEW t \in Threads, RunnablePush(t)
        PROVE  NodeBalance(r)'
    BY <1>0, <1>4, RunnablePushNode
  <1>5. ASSUME NEW t \in Threads, SyncReturn(t)
        PROVE  NodeBalance(r)'
    <2>1. UNCHANGED <<fifo[r], Pushers(r), Places(r), Holders(r)>>
      BY <1>5 DEF SyncReturn, qvars, Pushers, Places, Holders, TypeOK
    <2> QED
      BY <1>0, <2>1, NodeFrame
  <1>6. ASSUME NEW w \in Workers, PopNode(w)
        PROVE  NodeBalance(r)'
    BY <1>0, <1>6, PopNodeNode
  <1>7. ASSUME NEW w \in Workers, StartDrain(w)
        PROVE  NodeBalance(r)'
    BY <1>0, <1>7, DrainNode DEF StartDrain
  <1>8. ASSUME NEW w \in Workers, DrainNext(w)
        PROVE  NodeBalance(r)'
    BY <1>0, <1>8, DrainNode DEF DrainNext, ControlInv
  <1>9. ASSUME NEW w \in Workers, RunConcurrent(w)
        PROVE  NodeBalance(r)'
    BY <1>0, <1>9, RunConcurrentNode
  <1>10. ASSUME NEW w \in Workers, ItemReturn(w)
         PROVE  NodeBalance(r)'
    <2>1. UNCHANGED <<fifo[r], Pushers(r), Places(r)>>
      BY <1>10 DEF ItemReturn, qvars, Pushers, Places, TypeOK
    <2>2. UNCHANGED Holders(r)
      BY <1>10 DEF ItemReturn, Holders, TypeOK
    <2> QED
      BY <1>0, <2>1, <2>2, NodeFrame
  <1>11. CASE UNCHANGED vars
    <2>1. UNCHANGED <<fifo[r], Pushers(r), Places(r), Holders(r)>>
      BY <1>11 DEF vars, qvars, Pushers, Places, Holders
    <2> QED
      BY <1>0, <2>1, NodeFrame
  <1> QED
    BY <1>1, <1>2, <1>3, <1>4, <1>5, <1>6, <1>7, <1>8, <1>9, <1>10, <1>11
       DEF Next, CallStep, WorkerStep

(***************************************************************************)
(* A concurrent queue has exactly one runnable node for each item waiting: *)
(* runnable_push is owed, listed or popped once per push, so a worker that *)
(* popped a node finds an item and no item waits without a node.           *)
(***************************************************************************)
THEOREM OneNodePerItemHolds == Spec => []OneNodePerItem
  <1>1. Init => NodeInv
    <2> SUFFICES ASSUME Init, NEW r \in Queues \ SerialQueues PROVE NodeBalance(r)
      BY DEF NodeInv
    <2>1. Pushers(r) = {} /\ Places(r) = {} /\ Holders(r) = {} /\ Len(fifo[r]) = 0
      BY QueueAssumption DEF Init, Pushers, Places, Holders, Threads
    <2> QED
      BY <2>1, FS_EmptySet DEF NodeBalance
  <1>2. IInv /\ NodeInv /\ [Next]_vars => NodeInv'
    BY NodeStep
  <1>3. NodeInv => OneNodePerItem
    BY DEF NodeInv, NodeBalance, OneNodePerItem
  <1> QED
    BY <1>1, <1>2, <1>3, Invariance, PTL DEF Spec
=============================================================================
