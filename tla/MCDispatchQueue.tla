--------------------------- MODULE MCDispatchQueue ---------------------------
(***************************************************************************)
(* Instances of DispatchQueue for TLC: two serial queues and a concurrent  *)
(* one, two workers (the pool's minimum) and client threads.               *)
(***************************************************************************)
EXTENDS DispatchQueue, TLC

CONSTANTS a, b, c, w1, w2, t1, t2

MCQueues == {a, b, c}
MCSerialQueues == {a, b}
MCWorkers == {w1, w2}
MCClients == {t1, t2}

\* Clients may call anything; so may every block.
AnyCall == Caller \X Queues

\* Clients push to any queue; blocks on c push to a, and blocks on a to b.
ClientAsync == ({None} \X Queues) \cup {<<c, a>>, <<a, b>>}

\* Clients wait on any queue, and blocks of the serial queue a wait for b.
NestedSync == ({None} \X Queues) \cup {<<a, b>>}

Symmetry == Permutations(Workers) \cup Permutations(Clients)
=============================================================================
