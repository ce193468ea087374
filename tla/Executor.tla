------------------------------ MODULE Executor ------------------------------
(***************************************************************************)
(* What a client of libdispatch is promised: each queue hands out its      *)
(* items in the order they were submitted; a serial queue (is_serial) has  *)
(* at most one of them running, a concurrent one any number.  Nothing is   *)
(* said of workers, locks, flags or the runnable list.                     *)
(***************************************************************************)
EXTENDS Sequences

CONSTANTS Queues, SerialQueues, Items

VARIABLES
    pending,   \* items submitted to each queue and not started, in order
    running,   \* items of each queue being executed
    finished   \* items executed

evars == <<pending, running, finished>>

Known ==
    {i \in Items : \/ i \in finished
                   \/ \E q \in Queues : \/ i \in running[q]
                                        \/ \E k \in DOMAIN pending[q] : pending[q][k] = i}

ExecutorInit ==
    /\ pending = [q \in Queues |-> <<>>]
    /\ running = [q \in Queues |-> {}]
    /\ finished = {}

\* A client submits a new item.
Submit(q, i) ==
    /\ i \notin Known
    /\ pending' = [pending EXCEPT ![q] = Append(@, i)]
    /\ UNCHANGED <<running, finished>>

\* The oldest item of q starts; on a serial queue only when none is running.
Start(q) ==
    /\ pending[q] # <<>>
    /\ q \in SerialQueues => running[q] = {}
    /\ pending' = [pending EXCEPT ![q] = Tail(@)]
    /\ running' = [running EXCEPT ![q] = @ \cup {Head(pending[q])}]
    /\ UNCHANGED finished

Finish(q, i) ==
    /\ i \in running[q]
    /\ running' = [running EXCEPT ![q] = @ \ {i}]
    /\ finished' = finished \cup {i}
    /\ UNCHANGED pending

ExecutorNext ==
    \E q \in Queues :
        \/ Start(q)
        \/ \E i \in Items : Submit(q, i) \/ Finish(q, i)

ExecutorSpec == ExecutorInit /\ [][ExecutorNext]_evars
=============================================================================
