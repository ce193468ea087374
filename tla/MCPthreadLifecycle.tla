------------------------- MODULE MCPthreadLifecycle -------------------------
(***************************************************************************)
(* An instance of PthreadLifecycle: three creates by any thread and fewer  *)
(* stacks than that, so that addresses are used again and mmap may fail.   *)
(***************************************************************************)
EXTENDS PthreadLifecycle
=============================================================================
