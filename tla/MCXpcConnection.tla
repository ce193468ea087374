--------------------------- MODULE MCXpcConnection ---------------------------
(***************************************************************************)
(* An instance of XpcConnection: a client and one name, whose service is   *)
(* started twice.                                                          *)
(***************************************************************************)
EXTENDS XpcConnection

CONSTANT c1

OneClient == {c1}
Twice == 1 .. 2
CallersOfOne == OneClient \cup Twice
=============================================================================
