------------------------- MODULE MCDispatchSemaphore -------------------------
(***************************************************************************)
(* An instance of DispatchSemaphore: three threads that signal and wait as *)
(* they like, or the private semaphore of one dispatch_sync.               *)
(***************************************************************************)
EXTENDS DispatchSemaphore, TLC

\* dispatch_semaphore_create accepts a debt: the first signals only repay it.
InDebt == -1
=============================================================================
