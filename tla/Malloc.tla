------------------------------- MODULE Malloc -------------------------------
(***************************************************************************)
(* malloc, free, calloc, realloc and aligned_alloc                         *)
(* (userland/libc/src/malloc.c): a chain of chunks in blocks from mmap,    *)
(* first fit, split forwards, coalesced in one pass over the chain, and    *)
(* the lock around it all, whose watchdog breaks it open after so many     *)
(* spins, whoever holds it and whether or not it will ever be released.    *)
(*                                                                         *)
(* Addresses and sizes are bytes.  A call edits the chain for a while: it  *)
(* takes effect, its arguments chosen, in the step that ends its edit, and *)
(* this stands for the whole of it as long as no other thread edits        *)
(* meanwhile and it comes to its end.  If not, the chain is torn, and what *)
(* is in memory from then on is not described.  A caller frees and resizes *)
(* blocks it has.  reallocarray is realloc behind the test of calloc.      *)
(***************************************************************************)
EXTENDS Integers, SequencesExt

CONSTANTS
    Threads,
    Sizes,      \* arguments of malloc and realloc
    Products,   \* pairs of arguments of calloc
    Alignments, \* arguments of aligned_alloc, powers of two
    Bases,      \* addresses mmap may place a block at
    ARENA_SIZE,
    SizeSize,   \* size_t counts modulo SizeSize (2^64)
    MaxBlocks,  \* bound: blocks allocated at a time
    MaxLeaks    \* bound: threads that keep the lock for ever

Header == 32 \* sizeof(struct chunk)

ASSUME MallocAssumption ==
    /\ Bases \subseteq Nat \ {0} /\ \A b \in Bases : b % 16 = 0
    /\ ARENA_SIZE \in Nat /\ ARENA_SIZE % 16 = 0 /\ ARENA_SIZE > Header
    /\ SizeSize \in Nat \ {0} /\ SizeSize % 16 = 0
    /\ \A n \in Sizes : n \in Nat /\ n <= SizeSize - 16
    /\ Products \subseteq Nat \X Nat
    /\ \A x \in Products : (x[1] * x[2]) % SizeSize <= SizeSize - 16
    /\ \A a \in Alignments : a \in Nat \ {0} /\ a % 16 = 0
    /\ \A n \in Sizes, a \in Alignments : n + a + Header <= SizeSize - 16
    /\ {MaxBlocks, MaxLeaks} \subseteq Nat

VARIABLES
    heap,      \* the chain from g_head: a sequence of [addr, size, free]
    mapped,    \* the blocks mmap has given: [addr, size]
    locked,    \* g_malloc_lock
    pc,        \* "idle", "spin", "inside", "editing", "unlock", "leaked"
    allocated, \* the blocks the callers have: [ptr, size, align]
    broken,    \* history: the watchdog has broken the lock open
    torn       \* history: two edits overlapped, or one was never finished

memory == <<heap, mapped, allocated>>
history == <<broken, torn>>
vars == <<memory, locked, pc, history>>

Init ==
    /\ heap = <<>>
    /\ mapped = {}
    /\ locked = FALSE
    /\ pc = [t \in Threads |-> "idle"]
    /\ allocated = {}
    /\ broken = FALSE
    /\ torn = FALSE

Go(t, p) == pc' = [pc EXCEPT ![t] = p]

-----------------------------------------------------------------------------
(***************************************************************************)
(* The chain.                                                              *)
(***************************************************************************)
\* Mutant: rounded to 8 bytes.
Align8(n) == LET m == (n + 7) % SizeSize IN m - (m % 8)

\* align16, in unsigned arithmetic; a request of nothing is one of a byte.
Align16(n) == LET m == (n + 15) % SizeSize IN m - (m % 16)
Rounded(n) == Align16(IF n = 0 THEN 1 ELSE n)

Chunk(addr, size, free) == [addr |-> addr, size |-> size, free |-> free]
Payload(c) == c.addr + Header
End(c) == c.addr + Header + c.size
ChunkOf(h, ptr) == CHOOSE k \in DOMAIN h : Payload(h[k]) = ptr

Splits(c, size) == c.size >= size + Header + 8

\* The k-th chunk is taken for size bytes, its rest split off if it is worth it.
Carve(h, k, size) ==
    LET c == h[k]
    IN  IF Splits(c, size)
        THEN ReplaceAt(InsertAt(h, k + 1, Chunk(Payload(c) + size, c.size - size - Header, TRUE)),
                       k, Chunk(c.addr, size, FALSE))
        ELSE [h EXCEPT ![k].free = FALSE]

\* arena_grow: mmap finds a place for the block, wherever, or fails.
BlockSize(size) == IF size + Header > ARENA_SIZE THEN size + Header ELSE ARENA_SIZE
Places(m, n) ==
    {b \in Bases : \A x \in m : b + n <= x.addr \/ x.addr + x.size <= b}
Grown(h, m, size) ==
    {[heap |-> Append(h, Chunk(b, BlockSize(size) - Header, TRUE)),
      mapped |-> m \cup {[addr |-> b, size |-> BlockSize(size)]}]
     : b \in Places(m, BlockSize(size))}

\* malloc_nolock, the size rounded: what it may leave behind, and where the
\* chunk it returns is in the chain, 0 for NULL.
Fitting(h, size) == {k \in DOMAIN h : h[k].free /\ h[k].size >= size}
Taken(g, k, size) == [heap |-> Carve(g.heap, k, size), mapped |-> g.mapped, at |-> k]
Allocations(size) ==
    LET begun == IF heap # <<>> THEN {[heap |-> heap, mapped |-> mapped]}
                 ELSE Grown(<<>>, {}, 0)
        From(g) == LET fit == Fitting(g.heap, size)
                       grown == Grown(g.heap, g.mapped, size)
                   IN  IF fit # {}
                       THEN {Taken(g, CHOOSE k \in fit : \A l \in fit : k <= l, size)}
                       ELSE IF grown # {}
                       THEN {Taken(n, Len(n.heap), size) : n \in grown}
                       ELSE {[heap |-> g.heap, mapped |-> g.mapped, at |-> 0]}
    IN  UNION {From(g) : g \in begun}

Adjacent(c, d) == End(c) = d.addr

\* The turn of free_nolock's pass for the chunk c: its predecessor absorbs it
\* if both are free.  Then the next pair is looked at, so it absorbs no second.
Look(done, c) ==
    LET k == Len(done.heap)
        p == done.heap[k]
    IN  IF k > 0 /\ ~done.grew /\ p.free /\ c.free /\ Adjacent(p, c)
        THEN [heap |-> [done.heap EXCEPT ![k].size = @ + Header + c.size], grew |-> TRUE]
        ELSE [heap |-> Append(done.heap, c), grew |-> FALSE]

\* The chain after its first k chunks have been looked at, for each k.
Pass(h) ==
    LET pass[k \in 0 .. Len(h)] ==
          IF k = 0 THEN [heap |-> <<>>, grew |-> FALSE] ELSE Look(pass[k - 1], h[k])
    IN  pass

Coalesced(h) == Pass(h)[Len(h)].heap

Freed(h, ptr) == Coalesced([h EXCEPT ![ChunkOf(h, ptr)].free = TRUE])

\* aligned_alloc: the front of the chunk becomes a free one of its own.
Shifted(h, k, align) ==
    LET raw == h[k]
        p == Payload(raw) + Header + align - 1
        front == (p - (p % align) - Header) - raw.addr
    IN  ReplaceAt(InsertAt(h, k + 1, Chunk(raw.addr + front, raw.size - front, FALSE)),
                  k, Chunk(raw.addr, front - Header, TRUE))

-----------------------------------------------------------------------------
(***************************************************************************)
(* The lock.                                                               *)
(***************************************************************************)
Enter(t) ==
    /\ pc[t] = "idle"
    /\ Go(t, "spin")
    /\ UNCHANGED <<memory, locked, history>>

\* Mutant: the lock is taken without looking at what it was.
LockBlindly(t) ==
    /\ pc[t] = "spin"
    /\ locked' = TRUE
    /\ Go(t, "inside")
    /\ UNCHANGED <<memory, history>>

Lock(t) ==
    /\ pc[t] = "spin"
    /\ ~locked
    /\ locked' = TRUE
    /\ Go(t, "inside")
    /\ UNCHANGED <<memory, history>>

\* Mutant: it pauses and tries again, however often it has.
Pauses(t) == pc[t] = "spin" /\ locked /\ UNCHANGED vars

\* Any holder may be slower than LOCK_SPIN_LIMIT spins: it may have been
\* preempted, or never release the lock.
BreakOpen(t) ==
    /\ pc[t] = "spin"
    /\ locked
    /\ broken' = TRUE
    /\ Go(t, "inside")
    /\ UNCHANGED <<memory, locked, torn>>

Editors == {t \in Threads : pc[t] = "editing"}

\* The first access to the chain.
Begin(t) ==
    /\ pc[t] = "inside"
    /\ torn' = (torn \/ Editors # {})
    /\ Go(t, "editing")
    /\ UNCHANGED <<memory, locked, broken>>

Unlock(t) ==
    /\ pc[t] = "unlock"
    /\ locked' = FALSE
    /\ Go(t, "idle")
    /\ UNCHANGED <<memory, history>>

\* A thread that holds the lock never gets to release it, wherever it was.
Leak(t) ==
    /\ pc[t] \in {"inside", "editing", "unlock"}
    /\ Cardinality({u \in Threads : pc[u] = "leaked"}) < MaxLeaks
    /\ torn' = (torn \/ pc[t] = "editing")
    /\ Go(t, "leaked")
    /\ UNCHANGED <<memory, locked, broken>>

-----------------------------------------------------------------------------
(***************************************************************************)
(* The calls: the ends of their edits.                                     *)
(***************************************************************************)
EndEdit(t) == pc[t] = "editing" /\ Go(t, "unlock") /\ UNCHANGED <<locked, history>>

Whole(t) == EndEdit(t) /\ ~torn

\* An edit of a torn chain ends, too (CHUNK_SCAN_LIMIT bounds its walks).
Blind(t) == EndEdit(t) /\ torn /\ UNCHANGED memory

Block(ptr, size, align) == [ptr |-> ptr, size |-> size, align |-> align]
Room == Cardinality(allocated) < MaxBlocks

\* The caller asked for size bytes and malloc_nolock looks for n.
Malloc(size, n) ==
    /\ Room
    /\ \E o \in Allocations(Rounded(n)) :
         /\ heap' = o.heap
         /\ mapped' = o.mapped
         /\ allocated' = IF o.at = 0 THEN allocated
                         ELSE allocated \cup {Block(Payload(o.heap[o.at]), size, 16)}

malloc(t) == Whole(t) /\ \E n \in Sizes : Malloc(n, n)

\* Mutant: the product is not checked.
OverflowsUnchecked(x) == FALSE

\* total / nmemb != size
Overflows(x) == x[1] # 0 /\ ((x[1] * x[2]) % SizeSize) \div x[1] # x[2]

\* A product that overflows returns NULL before the lock is taken.
calloc(t) ==
    /\ Whole(t)
    /\ \E x \in Products : ~Overflows(x) /\ Malloc(x[1] * x[2], (x[1] * x[2]) % SizeSize)

\* An alignment of 8 or less makes it malloc.
aligned_alloc(t) ==
    /\ Whole(t)
    /\ Room
    /\ \E n \in Sizes, a \in Alignments : \E o \in Allocations(Rounded(n + a + Header)) :
         /\ heap' = IF o.at = 0 THEN o.heap ELSE Shifted(o.heap, o.at, a)
         /\ mapped' = o.mapped
         /\ allocated' = IF o.at = 0 THEN allocated
                         ELSE allocated \cup {Block(Payload(heap'[o.at + 1]), n, a)}

free(t) ==
    /\ Whole(t)
    /\ \E b \in allocated :
         /\ heap' = Freed(heap, b.ptr)
         /\ allocated' = allocated \ {b}
    /\ UNCHANGED mapped

FitsInPlace(c, size) == c.size >= size

\* In place if the chunk is big enough, else a new one, a copy, and free.
realloc(t) ==
    /\ Whole(t)
    /\ \E b \in allocated, n \in Sizes \ {0} :
         IF FitsInPlace(heap[ChunkOf(heap, b.ptr)], n)
         THEN /\ allocated' = (allocated \ {b}) \cup {Block(b.ptr, n, 16)}
              /\ UNCHANGED <<heap, mapped>>
         ELSE \E o \in Allocations(Rounded(n)) :
                /\ mapped' = o.mapped
                /\ heap' = IF o.at = 0 THEN o.heap ELSE Freed(o.heap, b.ptr)
                /\ allocated' = IF o.at = 0 THEN allocated
                                ELSE (allocated \ {b}) \cup {Block(Payload(o.heap[o.at]), n, 16)}

Work(t) == malloc(t) \/ calloc(t) \/ aligned_alloc(t) \/ free(t) \/ realloc(t)

Next ==
    \E t \in Threads :
        \/ Enter(t) \/ Lock(t) \/ BreakOpen(t) \/ Begin(t)
        \/ Work(t) \/ Blind(t) \/ Unlock(t) \/ Leak(t)

Spec == Init /\ [][Next]_vars

(***************************************************************************)
(* xnu runs every thread, so what it does under the lock ends, and none is *)
(* for ever unlucky with the exchange; one that keeps finding the lock     *)
(* taken comes to its last spin.                                           *)
(***************************************************************************)
FairSpec ==
    /\ Spec
    /\ \A t \in Threads :
         /\ WF_vars(BreakOpen(t))
         /\ WF_vars(Begin(t))
         /\ WF_pc(pc[t] = "editing" /\ Go(t, "unlock"))
         /\ WF_vars(Unlock(t))
         /\ SF_vars(Lock(t))

-----------------------------------------------------------------------------
\* The bytes of a block of memory, as the set of its 16-byte granules.
Granules(addr, size) == {a \in addr .. addr + size - 1 : a % 16 = 0}

(***************************************************************************)
(* The type invariant.  Unless it has been torn, the chunks of the chain   *)
(* tile what mmap has given, without gap or overlap; each chunk in use is  *)
(* the block of one caller, at least as big as asked, and no other is      *)
(* (malloc_nolock, free_nolock and the calls around them).                 *)
(***************************************************************************)
TilesMapped ==
    /\ \A k \in DOMAIN heap : heap[k].size >= 0 /\ heap[k].addr % 16 = 0
    /\ \A k, l \in DOMAIN heap : k # l =>
         End(heap[k]) <= heap[l].addr \/ End(heap[l]) <= heap[k].addr
    /\ UNION {Granules(heap[k].addr, Header + heap[k].size) : k \in DOMAIN heap}
         = UNION {Granules(m.addr, m.size) : m \in mapped}

OwnedByCallers ==
    /\ {Payload(heap[k]) : k \in {l \in DOMAIN heap : ~heap[l].free}}
         = {b.ptr : b \in allocated}
    /\ \A b \in allocated : heap[ChunkOf(heap, b.ptr)].size >= b.size

TypeOK ==
    /\ {locked, broken, torn} \subseteq BOOLEAN
    /\ pc \in [Threads -> {"idle", "spin", "inside", "editing", "unlock", "leaked"}]
    /\ ~torn => TilesMapped /\ OwnedByCallers

(***************************************************************************)
(* The lock excludes until the watchdog breaks it open, for the first time *)
(* or ever: one thread at most has taken it and not released it            *)
(* (malloc_lock, malloc_unlock).                                           *)
(***************************************************************************)
Holders == {t \in Threads : pc[t] \in {"inside", "editing", "unlock", "leaked"}}

LockExcludes == broken \/ \A t, u \in Holders : t = u

(***************************************************************************)
(* The allocator does what Heap promises, as long as the chain is whole: a *)
(* lock that was leaked before or after an edit, and broken open then,     *)
(* takes nothing from that.                                                *)
(***************************************************************************)
Promise == INSTANCE Heap

ImplementsHeap == Promise!Init /\ [][torn' \/ Promise!Next]_allocated

(***************************************************************************)
(* Every call returns, although a thread may have leaked the lock: the     *)
(* watchdog's "guaranteed forward progress".                               *)
(***************************************************************************)
CallsReturn ==
    \A t \in Threads : pc[t] = "spin" ~> pc[t] \in {"idle", "leaked"}

(***************************************************************************)
(* Only a thread that has leaked the lock leaves the chain torn: "breaking *)
(* the lock open ... does not corrupt allocator state any worse than the   *)
(* leak already would have" (malloc.c:55-61).  False: a holder that is     *)
(* only slow is broken into too.                                           *)
(***************************************************************************)
TornByLeakOnly == torn => \E t \in Threads : pc[t] = "leaked"
=============================================================================
