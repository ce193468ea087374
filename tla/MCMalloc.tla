------------------------------ MODULE MCMalloc ------------------------------
(***************************************************************************)
(* An instance of Malloc: small arenas, which mmap may place side by side  *)
(* in any order, sizes that fit in a rest, in an arena and in none, and    *)
(* products that do and do not overflow.                                   *)
(***************************************************************************)
EXTENDS Malloc

TwoProducts == {<<2, 20>>, <<16, 65>>}
=============================================================================
