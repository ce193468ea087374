-------------------------- MODULE PthreadLifecycle --------------------------
(***************************************************************************)
(* The life of a thread (userland/libc/src/pthread.c): pthread_create,     *)
(* pthread_join, pthread_detach, the registry by which a thread finds its  *)
(* own struct __pthread from its stack pointer, and the reclaiming of      *)
(* stacks, by the joiner or by a later pthread_create.                     *)
(*                                                                         *)
(* Every thread, the main one included, may create, join and detach, under *)
(* the rule POSIX has for it: a joinable thread is joined or detached once.*)
(* A section under g_list_lock is one step, and so is a system call.       *)
(***************************************************************************)
EXTENDS Naturals

CONSTANTS
    Stacks,    \* address ranges mmap may hand out
    MaxCreates \* bound: calls of pthread_create

ASSUME LifecycleAssumption == MaxCreates \in Nat /\ Stacks # {}

Main == 0
Created == 1 .. MaxCreates
Threads == {Main} \cup Created

VARIABLES
    \* The library.
    g_reg_state, \* 0 not started, 1 in progress, 2 done, 3 failed
    g_list,      \* the threads on the list
    stack,       \* stack_lo .. stack_hi of each
    detached,
    finished,
    freed,       \* how often stack and struct have been released
    mapped,      \* the ranges mapped
    \* The threads.
    pc,          \* where each is
    other,       \* the thread it creates or joins
    dead,        \* those it has taken off the list in reap_finished_detached
    \* The client.
    joinable,    \* handles of threads neither joined nor detached yet
    creates      \* calls of pthread_create so far

library == <<g_reg_state, g_list, stack, detached, finished, freed, mapped>>
vars == <<library, pc, other, dead, joinable, creates>>

(***************************************************************************)
(* "new": does not exist yet.  "run": in the client's code.  In            *)
(* pthread_create: "ensure", "bsdregister", "reap", "release", "register", *)
(* "bsdcreate".  In pthread_join: "join".  In both, the latter half of     *)
(* join and the error path of create: "unregister", "munmap".              *)
(* After its start routine: "finish", "terminate", "gone".                 *)
(***************************************************************************)
Creating == {"ensure", "bsdregister", "reap", "release", "register", "bsdcreate"}
Releasing == {"unregister", "munmap"}
PC == {"new", "run", "join", "finish", "terminate", "gone"} \cup Creating \cup Releasing

Init ==
    /\ g_reg_state = 0
    /\ g_list = {}
    /\ stack = [t \in Created |-> CHOOSE s \in Stacks : TRUE]
    /\ detached = [t \in Created |-> FALSE]
    /\ finished = [t \in Created |-> FALSE]
    /\ freed = [t \in Created |-> 0]
    /\ mapped = {}
    /\ pc = [a \in Threads |-> IF a = Main THEN "run" ELSE "new"]
    /\ other = [a \in Threads |-> Main]
    /\ dead = [a \in Threads |-> {}]
    /\ joinable = {}
    /\ creates = 0

Go(a, p) == pc' = [pc EXCEPT ![a] = p]

-----------------------------------------------------------------------------
CallCreate(a) ==
    /\ pc[a] = "run"
    /\ creates < MaxCreates
    /\ creates' = creates + 1
    /\ other' = [other EXCEPT ![a] = creates + 1]
    /\ \E d \in BOOLEAN : detached' = [detached EXCEPT ![creates + 1] = d]
    /\ Go(a, "ensure")
    /\ UNCHANGED <<g_reg_state, g_list, stack, finished, freed, mapped, dead, joinable>>

\* Mutant: who waits for another thread's registration waits for success.
RegistrationSucceeded == g_reg_state = 2

RegistrationEnded == g_reg_state \in {2, 3}

\* ensure_registered, a compare and exchange: the first to come calls the
\* kernel, the others wait for it.
Ensure(a) ==
    /\ pc[a] = "ensure"
    /\ \/ /\ g_reg_state = 0
          /\ g_reg_state' = 1
          /\ Go(a, "bsdregister")
       \/ /\ RegistrationEnded
          /\ Go(a, IF g_reg_state = 2 THEN "reap" ELSE "run")
          /\ UNCHANGED g_reg_state
    /\ UNCHANGED <<g_list, stack, detached, finished, freed, mapped, other, dead,
                   joinable, creates>>

BsdRegister(a) ==
    /\ pc[a] = "bsdregister"
    /\ g_reg_state' \in {2, 3}
    /\ Go(a, IF g_reg_state' = 2 THEN "reap" ELSE "run")
    /\ UNCHANGED <<g_list, stack, detached, finished, freed, mapped, other, dead,
                   joinable, creates>>

\* Mutant: detached threads still running are taken as well.
ReapableRunning(t) == detached[t]

\* Mutant: joinable threads are taken as well.
ReapableJoinable(t) == finished[t]

Reapable(t) == detached[t] /\ finished[t]

\* reap_finished_detached: off the list, under the lock ...
Reap(a) ==
    /\ pc[a] = "reap"
    /\ dead' = [dead EXCEPT ![a] = {t \in g_list : Reapable(t)}]
    /\ g_list' = {t \in g_list : ~Reapable(t)}
    /\ Go(a, "release")
    /\ UNCHANGED <<g_reg_state, stack, detached, finished, freed, mapped, other,
                   joinable, creates>>

\* munmap and free.
Free(t) ==
    /\ mapped' = mapped \ {stack[t]}
    /\ freed' = [freed EXCEPT ![t] = @ + 1]

\* Mutant: the next pointer is read after the struct has been freed.
RestLost(S, t) == {}

Rest(S, t) == S \ {t}

\* ... and then freed one by one.
ReleaseDead(a) ==
    /\ pc[a] = "release"
    /\ \E t \in dead[a] :
         /\ Free(t)
         /\ dead' = [dead EXCEPT ![a] = Rest(@, t)]
    /\ UNCHANGED <<g_reg_state, g_list, stack, detached, finished, pc, other, joinable, creates>>

\* mmap and calloc.  If either fails, the call does: EAGAIN.
Mmap(a) ==
    /\ pc[a] = "release"
    /\ dead[a] = {}
    /\ \/ \E s \in Stacks \ mapped :
            /\ mapped' = mapped \cup {s}
            /\ stack' = [stack EXCEPT ![other[a]] = s]
            /\ Go(a, "register")
       \/ Go(a, "run") /\ UNCHANGED <<mapped, stack>>
    /\ UNCHANGED <<g_reg_state, g_list, detached, finished, freed, other, dead,
                   joinable, creates>>

Register(a) ==
    /\ pc[a] = "register"
    /\ g_list' = g_list \cup {other[a]}
    /\ Go(a, "bsdcreate")
    /\ UNCHANGED <<g_reg_state, stack, detached, finished, freed, mapped, other, dead,
                   joinable, creates>>

\* bsdthread_create: the thread runs, or the kernel has refused.
BsdCreate(a) ==
    /\ pc[a] = "bsdcreate"
    /\ LET t == other[a]
       IN  \/ /\ pc' = [pc EXCEPT ![a] = "run", ![t] = "run"]
              /\ joinable' = IF detached[t] THEN joinable ELSE joinable \cup {t}
           \/ Go(a, "unregister") /\ UNCHANGED joinable
    /\ UNCHANGED <<library, other, dead, creates>>

Unregister(a) ==
    /\ pc[a] = "unregister"
    /\ g_list' = g_list \ {other[a]}
    /\ Go(a, "munmap")
    /\ UNCHANGED <<g_reg_state, stack, detached, finished, freed, mapped, other, dead,
                   joinable, creates>>

Munmap(a) ==
    /\ pc[a] = "munmap"
    /\ Free(other[a])
    /\ Go(a, "run")
    /\ UNCHANGED <<g_reg_state, g_list, stack, detached, finished, other, dead,
                   joinable, creates>>

-----------------------------------------------------------------------------
\* pthread_join, of a thread created later: so threads never wait for each
\* other in a circle.
CallJoin(a) ==
    /\ pc[a] = "run"
    /\ \E t \in joinable :
         /\ t > a
         /\ joinable' = joinable \ {t}
         /\ other' = [other EXCEPT ![a] = t]
    /\ Go(a, "join")
    /\ UNCHANGED <<library, dead, creates>>

JoinSeesEnd(a) ==
    /\ pc[a] = "join"
    /\ finished[other[a]]
    /\ Go(a, "unregister")
    /\ UNCHANGED <<library, other, dead, joinable, creates>>

Detach(a) ==
    /\ pc[a] = "run"
    /\ \E t \in joinable :
         /\ joinable' = joinable \ {t}
         /\ detached' = [detached EXCEPT ![t] = TRUE]
    /\ UNCHANGED <<g_reg_state, g_list, stack, finished, freed, mapped, pc, other, dead, creates>>

-----------------------------------------------------------------------------
\* __pthread_trampoline_c: the start routine returns ...
Return(a) ==
    /\ a # Main
    /\ pc[a] = "run"
    /\ Go(a, "finish")
    /\ UNCHANGED <<library, other, dead, joinable, creates>>

\* ... finished is stored, which is the last access to the struct ...
Finish(a) ==
    /\ pc[a] = "finish"
    /\ finished' = [finished EXCEPT ![a] = TRUE]
    /\ Go(a, "terminate")
    /\ UNCHANGED <<g_reg_state, g_list, stack, detached, freed, mapped, other, dead,
                   joinable, creates>>

\* ... and then, still on the thread's stack, bsdthread_terminate is called.
Terminate(a) ==
    /\ pc[a] = "terminate"
    /\ Go(a, "gone")
    /\ UNCHANGED <<library, other, dead, joinable, creates>>

-----------------------------------------------------------------------------
Step(a) ==
    \/ Ensure(a) \/ BsdRegister(a) \/ Reap(a) \/ ReleaseDead(a) \/ Mmap(a)
    \/ Register(a) \/ BsdCreate(a) \/ Unregister(a) \/ Munmap(a)
    \/ JoinSeesEnd(a)
    \/ Return(a) \/ Finish(a) \/ Terminate(a)

Next == \E a \in Threads : CallCreate(a) \/ CallJoin(a) \/ Detach(a) \/ Step(a)

Spec == Init /\ [][Next]_vars

(***************************************************************************)
(* xnu runs every thread, and every start routine returns.  No call need   *)
(* be made.                                                                *)
(***************************************************************************)
FairSpec == Spec /\ \A a \in Threads : WF_vars(Step(a))

-----------------------------------------------------------------------------
(***************************************************************************)
(* The type invariant; the handle of a thread not joined or detached yet   *)
(* leads to a struct on the list, finished or not.                         *)
(***************************************************************************)
TypeOK ==
    /\ g_reg_state \in 0 .. 3
    /\ g_list \subseteq Created
    /\ stack \in [Created -> Stacks]
    /\ detached \in [Created -> BOOLEAN]
    /\ finished \in [Created -> BOOLEAN]
    /\ freed \in [Created -> Nat]
    /\ mapped \subseteq Stacks
    /\ pc \in [Threads -> PC]
    /\ other \in [Threads -> Threads]
    /\ dead \in [Threads -> SUBSET Created]
    /\ joinable \subseteq g_list
    /\ creates \in 0 .. MaxCreates

\* From its first instruction to the store to finished.
Running(t) == pc[t] \notin {"new", "terminate", "gone"}

(***************************************************************************)
(* __pthread_current, and with it errno and every recursive mutex, finds   *)
(* the thread that asks: while a thread runs, its stack is mapped and its  *)
(* struct is the one on the list whose range holds its stack pointer,      *)
(* however stacks are reclaimed and their addresses used again.            *)
(***************************************************************************)
CurrentIsSelf ==
    \A t \in Created : Running(t) =>
        /\ stack[t] \in mapped
        /\ {u \in g_list : stack[u] = stack[t]} = {t}

(***************************************************************************)
(* A thread's stack and struct are released once, by its joiner, by a      *)
(* later create or by the create that failed; nobody who still walks the   *)
(* list or holds the pointer comes across it afterwards.                   *)
(***************************************************************************)
ReleasedOnce ==
    \A t \in Created :
        /\ freed[t] <= 1
        /\ freed[t] = 1 =>
             /\ t \notin g_list
             /\ t \notin joinable
             /\ \A a \in Threads : t \notin dead[a]
             /\ \A a \in Threads : other[a] = t => pc[a] \notin {"join"} \cup Releasing

(***************************************************************************)
(* pthread_create returns, also if its first call for the kernel fails,    *)
(* and pthread_join returns.                                               *)
(***************************************************************************)
CallsReturn ==
    \A a \in Threads : pc[a] \in {"join"} \cup Creating \cup Releasing ~> pc[a] = "run"

(***************************************************************************)
(* Detached threads are reclaimed "the next time pthread_create() runs"    *)
(* (header comment): all that have finished by then.                       *)
(***************************************************************************)
ReclaimedAtNextCreate ==
    \A t \in Created :
        (Reapable(t) /\ \E a \in Threads : pc[a] = "reap") ~> freed[t] = 1

(***************************************************************************)
(* "never let the kernel reclaim the stack we're currently running on"     *)
(* (__pthread_trampoline_c).  The joiner or a create may do just that,     *)
(* between the store to finished and bsdthread_terminate, which refutes    *)
(* this (README, section 6).                                               *)
(***************************************************************************)
StackOutlivesThread ==
    \A t \in Created : pc[t] \notin {"new", "gone"} => stack[t] \in mapped
=============================================================================
