-------------------------- MODULE MCDispatchLifetime --------------------------
(***************************************************************************)
(* test_sync of libdispatch/test/dispatchtest.c: one client creates a      *)
(* serial queue, calls dispatch_sync on it and releases it.                *)
(***************************************************************************)
EXTENDS DispatchLifetime

CONSTANTS a, w1, w2, t1

MCQueues == {a}
MCWorkers == {w1, w2}
MCClients == {t1}
ClientSync == {<<None, a>>}
NoAsync == {}
=============================================================================
