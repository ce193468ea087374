--------------------------- MODULE MCDispatchTimer ---------------------------
(***************************************************************************)
(* An instance of DispatchTimer.  A time is a number of a few units, the   *)
(* cap two of them, and dispatch_time_t four bits wide.                    *)
(***************************************************************************)
EXTENDS DispatchTimer, TLC

\* In the past of any clock value, in the past of a late one, and the future.
MCDeltas == {-8, 1, 2, 5}
=============================================================================
