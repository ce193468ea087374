-------------------------------- MODULE Heap --------------------------------
(***************************************************************************)
(* What malloc promises its callers: a block it hands out lies apart from  *)
(* every other, is aligned as it must be, and stays where it is until its  *)
(* owner frees or resizes it; one that realloc moves lies apart from the   *)
(* old one too, whose contents are copied.                                 *)
(***************************************************************************)
EXTENDS Naturals

VARIABLE allocated \* the blocks their owners have: [ptr, size, align]

Apart(b, others) ==
    \A c \in others : b.ptr + b.size <= c.ptr \/ c.ptr + c.size <= b.ptr

Aligned(b) == b.ptr % b.align = 0

Init == allocated = {}

Allocate ==
    \E b \in allocated' :
        /\ Aligned(b)
        /\ Apart(b, allocated)
        /\ allocated' = allocated \cup {b}

Release == \E b \in allocated : allocated' = allocated \ {b}

Resize ==
    \E b \in allocated, c \in allocated' :
        /\ Aligned(c)
        /\ Apart(c, IF c.ptr = b.ptr THEN allocated \ {b} ELSE allocated)
        /\ allocated' = (allocated \ {b}) \cup {c}

Next == Allocate \/ Release \/ Resize

Spec == Init /\ [][Next]_allocated
=============================================================================
