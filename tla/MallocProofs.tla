---------------------------- MODULE MallocProofs ----------------------------
(***************************************************************************)
(* That the lock excludes until it is broken open; and that, unless edits  *)
(* of the chain have overlapped or one was never finished, the blocks      *)
(* malloc.c hands out lie apart and aligned, no byte of an arena is lost,  *)
(* and malloc.c implements Heap, for any sizes, alignments and places of   *)
(* the arenas.  That every call returns stays with TLC.                    *)
(***************************************************************************)
EXTENDS Malloc, FiniteSetTheorems, SequenceTheorems, TLAPS

Multiples == {n \in Nat : n % 16 = 0}
ChunkRec == [addr : Multiples, size : Multiples, free : BOOLEAN]
BlockRec == [ptr : Nat, size : Nat, align : Nat]

\* The byte x is in the chunk c, in some chunk of the chain, in a block of mmap.
Holds(c, x) == c.addr <= x /\ x < End(c)
Lies(h, x) == \E k \in DOMAIN h : Holds(h[k], x)
Maps(m, x) == \E b \in m : b.addr <= x /\ x < b.addr + b.size

Disjoint(h) ==
    \A k, l \in DOMAIN h : k # l => \A x \in Nat : ~(Holds(h[k], x) /\ Holds(h[l], x))

Chain(h) == h \in Seq(ChunkRec) /\ Disjoint(h)

\* The chunks in use, and those but the k-th.
Others(h, k) == {h[j] : j \in {l \in DOMAIN h : l # k /\ ~h[l].free}}
InUse(h) == {h[j] : j \in {l \in DOMAIN h : ~h[l].free}}
UsedAmong(S) == {c \in S : ~c.free}

\* The chain tiles what is mapped.
Tiles(h, m) ==
    /\ Chain(h)
    /\ m \subseteq [addr : Nat, size : Nat]
    /\ \A x \in Nat : Lies(h, x) <=> Maps(m, x)

\* The chunks in use are the callers' blocks.
Owned(h, al) ==
    /\ al \subseteq BlockRec
    /\ \A c \in InUse(h) : \E b \in al : b.ptr = Payload(c)
    /\ \A b \in al : \E c \in InUse(h) : b.ptr = Payload(c) /\ b.size <= c.size
    /\ \A b, c \in al : b.ptr = c.ptr => b = c

MemoryOK(h, m, al) == Tiles(h, m) /\ Owned(h, al)

USE MallocAssumption DEF MallocAssumption

-----------------------------------------------------------------------------
\* What InsertAt returns, position by position.
Inserted(g, s, i, e) ==
    \A k \in 1 .. Len(s) + 1 :
      g[k] = IF k < i THEN s[k] ELSE IF k = i THEN e ELSE s[k - 1]

LEMMA InsertAtElements ==
  ASSUME NEW S, NEW s \in Seq(S), NEW i \in 1 .. Len(s) + 1, NEW e \in S
  PROVE  /\ InsertAt(s, i, e) \in Seq(S)
         /\ Len(InsertAt(s, i, e)) = Len(s) + 1
         /\ Inserted(InsertAt(s, i, e), s, i, e)
  <1> DEFINE front == SubSeq(s, 1, i - 1)
             back == SubSeq(s, i, Len(s))
  <1>1. /\ front \in Seq(S)
        /\ Len(front) = i - 1
        /\ \A k \in 1 .. i - 1 : front[k] = s[k]
    BY SubSeqProperties
  <1>2. /\ back \in Seq(S)
        /\ Len(back) = Len(s) - i + 1
        /\ \A k \in 1 .. Len(s) - i + 1 : back[k] = s[k + i - 1]
    BY SubSeqProperties
  <1>3. InsertAt(s, i, e) = front \o <<e>> \o back
    BY DEF InsertAt
  <1> HIDE DEF front, back
  <1>4. <<e>> \in Seq(S) /\ Len(<<e>>) = 1 /\ <<e>>[1] = e
    OBVIOUS
  <1> DEFINE both == front \o <<e>>
  <1>5. /\ both \in Seq(S)
        /\ Len(both) = i
        /\ \A k \in 1 .. i : both[k] = IF k < i THEN s[k] ELSE e
    BY <1>1, <1>4
  <1>6. InsertAt(s, i, e) = both \o back
    BY <1>3
  <1> HIDE DEF both
  <1>7. /\ both \o back \in Seq(S)
        /\ Len(both \o back) = i + (Len(s) - i + 1)
        /\ \A k \in 1 .. i + (Len(s) - i + 1) :
             (both \o back)[k] = IF k <= i THEN both[k] ELSE back[k - i]
    <2>1. both \in Seq(S) /\ back \in Seq(S)
      BY <1>2, <1>5
    <2>2. /\ both \o back \in Seq(S)
          /\ Len(both \o back) = Len(both) + Len(back)
          /\ \A k \in 1 .. Len(both) + Len(back) :
               (both \o back)[k] = IF k <= Len(both) THEN both[k]
                                   ELSE back[k - Len(both)]
      BY ONLY <2>1, ConcatProperties
    <2> QED
      BY <1>2, <1>5, <2>2
  <1>8. \A k \in 1 .. Len(s) + 1 : k > i => back[k - i] = s[k - 1]
    BY <1>2
  <1> QED
    BY <1>5, <1>6, <1>7, <1>8 DEF Inserted

-----------------------------------------------------------------------------
(***************************************************************************)
(* Arithmetic of sizes and addresses.                                      *)
(***************************************************************************)
LEMMA DivMod ==
  ASSUME NEW y \in Nat, NEW a \in Nat \ {0}
  PROVE  /\ (y % a) \in Nat /\ (y % a) < a
         /\ y = a * (y \div a) + (y % a) /\ y \div a \in Nat
  OBVIOUS

LEMMA RoundedDown ==
  ASSUME NEW p \in Nat, NEW a \in Nat, a > 0
  PROVE  (p - (p % a)) % a = 0
  BY ONLY p \in Nat, a \in Nat, a > 0

LEMMA MultiplesAdd ==
  ASSUME NEW a \in Multiples, NEW b \in Multiples
  PROVE  /\ a + b \in Multiples
         /\ a >= b => a - b \in Multiples
  <1>1. a \in Nat /\ b \in Nat /\ a % 16 = 0 /\ b % 16 = 0
    BY DEF Multiples
  <1>2. PICK i \in Nat : a = 16 * i
    <2>1. a = 16 * (a \div 16) /\ a \div 16 \in Nat
      BY <1>1
    <2> QED
      BY <2>1
  <1>3. PICK j \in Nat : b = 16 * j
    <2>1. b = 16 * (b \div 16) /\ b \div 16 \in Nat
      BY <1>1
    <2> QED
      BY <2>1
  <1>4. a + b = 16 * (i + j) /\ a - b = 16 * (i - j)
    BY <1>2, <1>3
  <1>5. \A k \in Nat : (16 * k) % 16 = 0 /\ 16 * k \in Nat
    OBVIOUS
  <1>6. i + j \in Nat /\ (a >= b => i - j \in Nat)
    BY <1>2, <1>3
  <1> QED
    BY <1>4, <1>5, <1>6 DEF Multiples

\* Rounding down to a multiple of a multiple of 16 gives a multiple of 16.
LEMMA DownIsMultiple ==
  ASSUME NEW p \in Nat, NEW a \in Nat \ {0}, a % 16 = 0
  PROVE  /\ p - (p % a) \in Multiples
         /\ (p - (p % a)) % a = 0
         /\ p - (p % a) <= p /\ p < p - (p % a) + a
  <1>1. p = a * (p \div a) + (p % a) /\ p \div a \in Nat /\ (p % a) \in Nat /\ (p % a) < a
    BY DivMod
  <1>2. PICK q \in Nat : q = p \div a
    BY <1>1
  <1>3. PICK r \in Nat : r = p % a
    BY <1>1
  <1>4. PICK z \in Nat : z = a * q
    BY <1>2
  <1>5. p = z + r
    BY <1>1, <1>2, <1>3, <1>4
  <1>6. p - (p % a) = z
    BY <1>3, <1>5
  <1>7. PICK j \in Nat : a = 16 * j
    <2>1. a = 16 * (a \div 16) /\ a \div 16 \in Nat
      OBVIOUS
    <2> QED
      BY <2>1
  <1>8. PICK i \in Nat : i = j * q
    OBVIOUS
  <1>9. z = 16 * i
    BY <1>4, <1>7, <1>8
  <1>10. (16 * i) % 16 = 0
    OBVIOUS
  <1>11. z \in Multiples
    BY <1>9, <1>10 DEF Multiples
  <1>12. (p - (p % a)) % a = 0
    BY RoundedDown
  <1>13. z <= p /\ p < z + a
    BY <1>1, <1>3, <1>5
  <1> QED
    BY <1>6, <1>11, <1>12, <1>13

LEMMA RoundedUp ==
  ASSUME NEW n \in Nat, n <= SizeSize - 16
  PROVE  Rounded(n) \in Multiples /\ Rounded(n) >= n
  <1>1. \A k \in Nat : k <= SizeSize - 16 =>
          LET m == (k + 15) % SizeSize
          IN  m - (m % 16) >= k /\ (m - (m % 16)) % 16 = 0 /\ m - (m % 16) \in Nat
    OBVIOUS
  <1>2. \A k \in Nat : k <= SizeSize - 16 => Align16(k) >= k /\ Align16(k) \in Multiples
    BY <1>1 DEF Align16, Multiples
  <1>3. Align16(1) \in Multiples
    <2>1. SizeSize = 16 \/ 1 <= SizeSize - 16
      OBVIOUS
    <2>2. CASE SizeSize = 16
      BY <2>2 DEF Align16, Multiples
    <2> QED
      BY <1>2, <2>1, <2>2
  <1>4. Align16(1) >= 0
    BY <1>3 DEF Multiples
  <1> QED
    BY <1>2, <1>3, <1>4 DEF Rounded

\* calloc's test: a product that passes it has not wrapped.
LEMMA ProductFits ==
  ASSUME NEW x \in Products, ~Overflows(x)
  PROVE  /\ x[1] * x[2] \in Nat
         /\ (x[1] * x[2]) % SizeSize \in Nat
         /\ x[1] * x[2] <= (x[1] * x[2]) % SizeSize
  <1>1. PICK a \in Nat, b \in Nat : a = x[1] /\ b = x[2]
    OBVIOUS
  <1>2. a = 0 \/ ((a * b) % SizeSize) \div a = b
    BY <1>1 DEF Overflows
  <1>3. CASE a = 0
    BY <1>1, <1>3
  <1>4. CASE a # 0
    BY <1>1, <1>2, <1>4
  <1> QED
    BY <1>3, <1>4

-----------------------------------------------------------------------------
(***************************************************************************)
(* What the edits of the chain do to the bytes that its chunks hold and to *)
(* the chunks in use.                                                      *)
(***************************************************************************)
LEMMA ChunkFacts ==
  ASSUME NEW c \in ChunkRec
  PROVE  /\ c.addr \in Nat /\ c.addr % 16 = 0 /\ c.size \in Nat /\ c.size % 16 = 0
         /\ c.free \in BOOLEAN
         /\ End(c) \in Nat /\ End(c) = c.addr + 32 + c.size
         /\ Payload(c) \in Nat /\ Payload(c) = c.addr + 32
         /\ Holds(c, c.addr)
  BY DEF ChunkRec, Multiples, End, Payload, Header, Holds

\* In a chain two chunks have two addresses.
LEMMA AddressesDiffer ==
  ASSUME NEW h, Chain(h), NEW k \in DOMAIN h, NEW l \in DOMAIN h, k # l
  PROVE  h[k].addr # h[l].addr
  <1>1. h[k] \in ChunkRec /\ h[l] \in ChunkRec
    BY DEF Chain
  <1>2. Holds(h[k], h[k].addr) /\ Holds(h[l], h[l].addr) /\ h[k].addr \in Nat
    BY <1>1, ChunkFacts
  <1>3. \A x \in Nat : ~(Holds(h[k], x) /\ Holds(h[l], x))
    BY DEF Chain, Disjoint
  <1> QED
    BY <1>2, <1>3

\* A chunk marked free or in use holds what it held.
LEMMA Marked ==
  ASSUME NEW h, Chain(h), NEW k \in DOMAIN h, NEW c \in ChunkRec,
         c.addr = h[k].addr, c.size = h[k].size,
         NEW g, g = [h EXCEPT ![k] = c]
  PROVE  /\ Chain(g)
         /\ \A x \in Nat : Lies(g, x) <=> Lies(h, x)
         /\ InUse(g) = Others(h, k) \cup UsedAmong({c})
         /\ DOMAIN g = DOMAIN h
  <1>1. /\ h \in Seq(ChunkRec) /\ h \in [1 .. Len(h) -> ChunkRec] /\ DOMAIN h = 1 .. Len(h)
        /\ Len(h) \in Nat
    BY DEF Chain
  <1>2. /\ g \in [1 .. Len(h) -> ChunkRec] /\ g[k] = c
        /\ \A j \in DOMAIN h : j # k => g[j] = h[j]
    BY <1>1
  <1>3. g \in Seq(ChunkRec) /\ DOMAIN g = DOMAIN h
    BY <1>1, <1>2
  <1>4. \A j \in DOMAIN h : \A x \in Nat : Holds(g[j], x) <=> Holds(h[j], x)
    <2>1. \A x \in Nat : Holds(c, x) <=> Holds(h[k], x)
      BY DEF Holds, End
    <2> QED
      BY <1>2, <2>1
  <1>5. Disjoint(g)
    BY <1>3, <1>4 DEF Chain, Disjoint
  <1>6. \A x \in Nat : Lies(g, x) <=> Lies(h, x)
    BY <1>3, <1>4 DEF Lies
  <1>7. InUse(g) = Others(h, k) \cup UsedAmong({c})
    BY <1>2, <1>3 DEF InUse, Others, UsedAmong
  <1> QED
    BY <1>3, <1>5, <1>6, <1>7 DEF Chain

\* The edit of malloc_nolock's split and of aligned_alloc's.
Halved(h, k, c, d) == ReplaceAt(InsertAt(h, k + 1, d), k, c)
After(g, k) == g[k + 1]
Busy(c, d) == UsedAmong({c, d})

\* A chunk cut in two holds in its parts what it held.
LEMMA Cut ==
  ASSUME NEW h, Chain(h), NEW k \in DOMAIN h, NEW c \in ChunkRec, NEW d \in ChunkRec,
         c.addr = h[k].addr, End(c) = d.addr, End(d) = End(h[k]),
         NEW g, g = Halved(h, k, c, d)
  PROVE  /\ Chain(g)
         /\ \A x \in Nat : Lies(g, x) <=> Lies(h, x)
         /\ InUse(g) = Others(h, k) \cup Busy(c, d)
         /\ Len(g) = Len(h) + 1 /\ g[k] = c /\ After(g, k) = d
  <1>1. /\ h \in Seq(ChunkRec) /\ h \in [1 .. Len(h) -> ChunkRec] /\ DOMAIN h = 1 .. Len(h)
        /\ Len(h) \in Nat /\ k \in 1 .. Len(h)
    BY DEF Chain
  <1>2. k + 1 \in 1 .. Len(h) + 1
    BY <1>1
  <1>3. /\ InsertAt(h, k + 1, d) \in Seq(ChunkRec)
        /\ Len(InsertAt(h, k + 1, d)) = Len(h) + 1
        /\ \A j \in 1 .. Len(h) + 1 :
             InsertAt(h, k + 1, d)[j] = IF j < k + 1 THEN h[j] ELSE IF j = k + 1 THEN d ELSE h[j - 1]
    <2>1. PICK i \in 1 .. Len(h) + 1 : i = k + 1
      BY <1>2
    <2>2. /\ InsertAt(h, i, d) \in Seq(ChunkRec)
          /\ Len(InsertAt(h, i, d)) = Len(h) + 1
          /\ Inserted(InsertAt(h, i, d), h, i, d)
      <3>1. h \in Seq(ChunkRec) /\ i \in 1 .. Len(h) + 1 /\ d \in ChunkRec
        BY <1>1, <2>1
      <3> QED
        BY ONLY <3>1, InsertAtElements
    <2> QED
      BY <2>1, <2>2 DEF Inserted
  <1>4. PICK s : s = InsertAt(h, k + 1, d)
    OBVIOUS
  <1>5. /\ s \in [1 .. Len(h) + 1 -> ChunkRec]
        /\ \A j \in 1 .. Len(h) + 1 :
             s[j] = IF j < k + 1 THEN h[j] ELSE IF j = k + 1 THEN d ELSE h[j - 1]
    BY <1>3, <1>4
  <1>6. g = [s EXCEPT ![k] = c]
    BY <1>4 DEF Halved, ReplaceAt
  <1>7. /\ g \in [1 .. Len(h) + 1 -> ChunkRec]
        /\ g[k] = c /\ g[k + 1] = d
        /\ \A j \in 1 .. Len(h) + 1 : /\ j < k => g[j] = h[j]
                                      /\ j > k + 1 => g[j] = h[j - 1]
    <2>1. k \in 1 .. Len(h) + 1 /\ k + 1 \in 1 .. Len(h) + 1 /\ k + 1 # k /\ ~(k + 1 < k + 1)
      BY <1>1
    <2>2. /\ g \in [1 .. Len(h) + 1 -> ChunkRec]
          /\ g[k] = c
          /\ \A j \in 1 .. Len(h) + 1 : j # k => g[j] = s[j]
      BY <1>5, <1>6, <2>1
    <2>3. g[k + 1] = s[k + 1] /\ s[k + 1] = d
      BY <1>5, <2>1, <2>2
    <2>4. ASSUME NEW j \in 1 .. Len(h) + 1, j < k PROVE g[j] = h[j]
      <3>1. j # k /\ j < k + 1
        BY <1>1, <2>4
      <3> QED
        BY <1>5, <2>2, <3>1
    <2>5. ASSUME NEW j \in 1 .. Len(h) + 1, j > k + 1 PROVE g[j] = h[j - 1]
      <3>1. j # k /\ ~(j < k + 1) /\ j # k + 1
        BY <1>1, <2>5
      <3> QED
        BY <1>5, <2>2, <3>1
    <2> QED
      BY <2>2, <2>3, <2>4, <2>5
  <1>8. g \in Seq(ChunkRec) /\ Len(g) = Len(h) + 1 /\ DOMAIN g = 1 .. Len(h) + 1
    <2>1. PICK n \in Nat : n = Len(h) + 1
      BY <1>1
    <2>2. g \in [1 .. n -> ChunkRec]
      BY <1>7, <2>1
    <2>3. g \in Seq(ChunkRec) /\ Len(g) = n /\ DOMAIN g = 1 .. n
      BY <2>2
    <2> QED
      BY <2>1, <2>3
  <1>9. \A x \in Nat : /\ Holds(c, x) \/ Holds(d, x) <=> Holds(h[k], x)
                       /\ ~(Holds(c, x) /\ Holds(d, x))
    <2>1. h[k] \in ChunkRec
      BY <1>1
    <2>2. /\ c.addr \in Nat /\ d.addr \in Nat /\ End(c) \in Nat /\ End(d) \in Nat
          /\ c.addr <= End(c) /\ d.addr <= End(d)
      BY ChunkFacts
    <2> QED
      BY <2>2 DEF Holds
  \* From a chunk of g back to the chunk of h it was or was part of.
  <1> DEFINE was(j) == IF j <= k THEN j ELSE j - 1
  <1>10. \A j \in 1 .. Len(h) + 1 : was(j) \in 1 .. Len(h)
    BY <1>1
  <1>11. \A j \in 1 .. Len(h) + 1 : \A x \in Nat : Holds(g[j], x) => Holds(h[was(j)], x)
    <2> SUFFICES ASSUME NEW j \in 1 .. Len(h) + 1, NEW x \in Nat, Holds(g[j], x)
                 PROVE  Holds(h[was(j)], x)
      OBVIOUS
    <2>1. CASE j < k
      <3>1. was(j) = j /\ g[j] = h[j]
        BY <1>1, <1>7, <2>1
      <3> QED
        BY <3>1
    <2>4. CASE j > k + 1
      <3>1. was(j) = j - 1 /\ g[j] = h[j - 1]
        BY <1>1, <1>7, <2>4
      <3> QED
        BY <3>1
    <2>2. CASE j = k
      BY <1>7, <1>9, <2>2
    <2>3. CASE j = k + 1
      <3>1. was(j) = k /\ g[j] = d
        BY <1>1, <1>7, <2>3
      <3> QED
        BY <1>9, <3>1
    <2> QED
      BY <1>1, <2>1, <2>2, <2>3, <2>4
  <1>12. Disjoint(g)
    <2> SUFFICES ASSUME NEW i \in DOMAIN g, NEW j \in DOMAIN g, i # j, NEW x \in Nat,
                        Holds(g[i], x), Holds(g[j], x)
                 PROVE  FALSE
      BY DEF Disjoint
    <2>1. Holds(h[was(i)], x) /\ Holds(h[was(j)], x)
      BY <1>8, <1>11
    <2>2. was(i) = was(j)
      BY <1>1, <1>8, <1>10, <2>1 DEF Chain, Disjoint
    <2>3. (i = k /\ j = k + 1) \/ (i = k + 1 /\ j = k)
      BY <1>1, <1>8, <2>2
    <2>4. g[k] = c /\ g[k + 1] = d
      BY <1>7
    <2> QED
      BY <1>9, <2>3, <2>4
  <1>13. \A x \in Nat : Lies(g, x) <=> Lies(h, x)
    <2> SUFFICES ASSUME NEW x \in Nat PROVE Lies(g, x) <=> Lies(h, x)
      OBVIOUS
    <2>1. Lies(g, x) => Lies(h, x)
      BY <1>1, <1>8, <1>10, <1>11 DEF Lies
    <2>2. ASSUME NEW j \in 1 .. Len(h), Holds(h[j], x) PROVE \E i \in 1 .. Len(h) + 1 : Holds(g[i], x)
      <3>1. CASE j < k
        <4>1. j \in 1 .. Len(h) + 1
          BY <1>1
        <4>2. g[j] = h[j]
          BY <1>7, <3>1, <4>1
        <4> QED
          BY <2>2, <4>1, <4>2
      <3>2. CASE j = k
        <4>1. g[k] = c /\ g[k + 1] = d /\ k \in 1 .. Len(h) + 1 /\ k + 1 \in 1 .. Len(h) + 1
          BY <1>1, <1>2, <1>7
        <4> QED
          BY <1>9, <2>2, <3>2, <4>1
      <3>3. CASE j > k
        <4>1. j + 1 \in 1 .. Len(h) + 1 /\ j + 1 > k + 1 /\ (j + 1) - 1 = j
          BY <1>1, <3>3
        <4>2. g[j + 1] = h[j]
          BY <1>1, <1>7, <4>1
        <4> QED
          BY <2>2, <4>1, <4>2
      <3> QED
        BY <1>1, <3>1, <3>2, <3>3
    <2> QED
      BY <1>1, <1>8, <2>1, <2>2 DEF Lies
  <1>14. InUse(g) = Others(h, k) \cup UsedAmong({c, d})
    <2>1. ASSUME NEW e \in InUse(g) PROVE e \in Others(h, k) \cup UsedAmong({c, d})
      <3>1. PICK j \in 1 .. Len(h) + 1 : e = g[j] /\ ~g[j].free
        BY <1>8 DEF InUse
      <3>2. CASE j < k
        <4>1. j \in 1 .. Len(h) /\ j # k /\ e = h[j]
          BY <1>1, <1>7, <3>1, <3>2
        <4> QED
          BY <1>1, <3>1, <4>1 DEF Others
      <3>3. CASE j = k \/ j = k + 1
        <4>1. e = c \/ e = d
          BY <1>1, <1>7, <3>1, <3>3
        <4> QED
          BY <3>1, <4>1 DEF UsedAmong
      <3>4. CASE j > k + 1
        <4>1. j - 1 \in 1 .. Len(h) /\ j - 1 # k /\ g[j] = h[j - 1]
          BY <1>1, <1>7, <3>4
        <4> QED
          BY <1>1, <3>1, <4>1 DEF Others
      <3> QED
        BY <1>1, <3>2, <3>3, <3>4
    <2>2. ASSUME NEW e \in Others(h, k) \cup UsedAmong({c, d}) PROVE e \in InUse(g)
      <3>1. k \in 1 .. Len(h) + 1 /\ k + 1 \in 1 .. Len(h) + 1 /\ g[k] = c /\ g[k + 1] = d
        BY <1>1, <1>7
      <3>2. CASE e \in UsedAmong({c, d})
        BY <1>8, <3>1, <3>2 DEF UsedAmong, InUse
      <3>3. CASE e \in Others(h, k)
        <4>1. PICK j \in 1 .. Len(h) : j # k /\ e = h[j] /\ ~h[j].free
          BY <1>1, <3>3 DEF Others
        <4>2. CASE j < k
          <5>1. j \in 1 .. Len(h) + 1 /\ g[j] = h[j]
            BY <1>1, <1>7, <4>2
          <5> QED
            BY <1>8, <4>1, <5>1 DEF InUse
        <4>3. CASE j > k
          <5>1. j + 1 \in 1 .. Len(h) + 1 /\ j + 1 > k + 1 /\ (j + 1) - 1 = j
            BY <1>1, <4>3
          <5>2. g[j + 1] = h[j]
            BY <1>1, <1>7, <5>1
          <5> QED
            BY <1>8, <4>1, <5>1, <5>2 DEF InUse
        <4> QED
          BY <1>1, <4>1, <4>2, <4>3
      <3> QED
        BY <2>2, <3>2, <3>3
    <2> QED
      BY <2>1, <2>2
  <1>15. g[k] = c /\ g[k + 1] = d
    BY <1>1, <1>7
  <1> QED
    BY <1>8, <1>12, <1>13, <1>14, <1>15 DEF Chain, After, Busy

\* A chunk that holds no byte of the chain is added at its end.
LEMMA Appended ==
  ASSUME NEW h, Chain(h), NEW c \in ChunkRec,
         \A x \in Nat : ~(Lies(h, x) /\ Holds(c, x)),
         NEW g, g = Append(h, c)
  PROVE  /\ Chain(g)
         /\ \A x \in Nat : Lies(g, x) <=> Lies(h, x) \/ Holds(c, x)
         /\ InUse(g) = InUse(h) \cup UsedAmong({c})
         /\ Len(g) = Len(h) + 1 /\ g[Len(h) + 1] = c
  <1>1. /\ h \in Seq(ChunkRec) /\ DOMAIN h = 1 .. Len(h) /\ Len(h) \in Nat
    BY DEF Chain
  <1>2. PICK n \in Nat : n = Len(h)
    BY <1>1
  <1>3. /\ g \in Seq(ChunkRec) /\ Len(g) = n + 1 /\ DOMAIN g = 1 .. n + 1
        /\ g[n + 1] = c /\ \A j \in 1 .. n : g[j] = h[j]
    BY <1>1, <1>2
  <1>4. \A j \in 1 .. n + 1 : j = n + 1 \/ j \in 1 .. n
    BY <1>2
  <1>5. \A x \in Nat : ~(Holds(c, x) /\ \E j \in 1 .. n : Holds(h[j], x))
    BY <1>1, <1>2 DEF Lies
  <1>6. Disjoint(g)
    <2> SUFFICES ASSUME NEW i \in 1 .. n + 1, NEW j \in 1 .. n + 1, i # j, NEW x \in Nat,
                        Holds(g[i], x), Holds(g[j], x)
                 PROVE  FALSE
      BY <1>3 DEF Disjoint
    <2>1. CASE i \in 1 .. n /\ j \in 1 .. n
      <3>1. Holds(h[i], x) /\ Holds(h[j], x)
        BY <1>3, <2>1
      <3> QED
        BY <1>1, <1>2, <2>1, <3>1 DEF Chain, Disjoint
    <2>2. CASE i = n + 1 /\ j \in 1 .. n
      BY <1>3, <1>5, <2>2
    <2>3. CASE j = n + 1 /\ i \in 1 .. n
      BY <1>3, <1>5, <2>3
    <2> QED
      BY <1>4, <2>1, <2>2, <2>3
  <1>7. \A x \in Nat : Lies(g, x) <=> Lies(h, x) \/ Holds(c, x)
    <2>1. n + 1 \in 1 .. n + 1 /\ 1 .. n \subseteq 1 .. n + 1
      BY <1>2
    <2> QED
      BY <1>1, <1>2, <1>3, <1>4, <2>1 DEF Lies
  <1>8. InUse(g) = InUse(h) \cup UsedAmong({c})
    <2>1. n + 1 \in 1 .. n + 1 /\ 1 .. n \subseteq 1 .. n + 1
      BY <1>2
    <2> QED
      BY <1>1, <1>2, <1>3, <1>4, <2>1 DEF InUse, UsedAmong
  <1> QED
    BY <1>2, <1>3, <1>6, <1>7, <1>8 DEF Chain

\* The last chunk, free, absorbs a free chunk that begins where it ends.
LEMMA Absorbed ==
  ASSUME NEW h, Chain(h), NEW c \in ChunkRec, c.free,
         \A x \in Nat : ~(Lies(h, x) /\ Holds(c, x)),
         Len(h) > 0, h[Len(h)].free, End(h[Len(h)]) = c.addr,
         NEW e \in ChunkRec, e.addr = h[Len(h)].addr, e.free,
         e.size = h[Len(h)].size + 32 + c.size,
         NEW g, g = [h EXCEPT ![Len(h)] = e]
  PROVE  /\ Chain(g)
         /\ \A x \in Nat : Lies(g, x) <=> Lies(h, x) \/ Holds(c, x)
         /\ InUse(g) = InUse(h)
  <1>1. /\ h \in Seq(ChunkRec) /\ h \in [1 .. Len(h) -> ChunkRec]
        /\ DOMAIN h = 1 .. Len(h) /\ Len(h) \in Nat
    BY DEF Chain
  <1>2. PICK n \in Nat : n = Len(h) /\ n \in 1 .. n /\ n \in DOMAIN h
    <2>1. PICK n \in Nat : n = Len(h)
      BY <1>1
    <2>2. n > 0 /\ DOMAIN h = 1 .. n
      BY <1>1, <2>1
    <2>3. n \in 1 .. n
      BY ONLY <2>2, n \in Nat
    <2> QED
      BY <2>1, <2>2, <2>3
  <1>3. PICK p \in ChunkRec : p = h[n] /\ p.free /\ End(p) = c.addr
    BY <1>1, <1>2
  <1>5. /\ e \in ChunkRec /\ e.addr = p.addr /\ e.free = p.free
        /\ e.size = p.size + 32 + c.size
    BY <1>2, <1>3, ChunkFacts
  <1>6. g = [h EXCEPT ![n] = e]
    BY <1>2
  <1>7. /\ g \in [1 .. n -> ChunkRec] /\ g[n] = e
        /\ \A j \in 1 .. n : j # n => g[j] = h[j]
    BY <1>1, <1>2, <1>5, <1>6
  <1>8. g \in Seq(ChunkRec) /\ DOMAIN g = 1 .. n
    <2>1. n \in Nat /\ g \in [1 .. n -> ChunkRec]
      BY <1>1, <1>2, <1>7
    <2> QED
      BY ONLY <2>1
  <1>9. \A x \in Nat : Holds(e, x) <=> Holds(p, x) \/ Holds(c, x)
    <2>1. /\ p.addr \in Nat /\ p.size \in Nat /\ End(p) = p.addr + 32 + p.size
          /\ c.addr \in Nat /\ c.size \in Nat /\ End(c) = c.addr + 32 + c.size
          /\ End(e) = e.addr + 32 + e.size
      <3>1. p \in ChunkRec /\ e \in ChunkRec /\ c \in ChunkRec
        BY <1>3, <1>5
      <3> QED
        BY ONLY <3>1, ChunkFacts
    <2>2. PICK pa \in Nat, ps \in Nat, ca \in Nat, cs \in Nat :
            pa = p.addr /\ ps = p.size /\ ca = c.addr /\ cs = c.size
      BY <2>1
    <2>3. /\ e.addr = pa /\ ca = pa + 32 + ps
          /\ End(e) = pa + 32 + (ps + 32 + cs) /\ End(c) = ca + 32 + cs /\ End(p) = pa + 32 + ps
      BY <1>3, <1>5, <2>1, <2>2
    <2> QED
      BY ONLY <2>2, <2>3 DEF Holds
  <1>10. \A x \in Nat : ~(Holds(c, x) /\ \E j \in 1 .. n : Holds(h[j], x))
    BY <1>1, <1>2 DEF Lies
  <1>11. Disjoint(g)
    <2> SUFFICES ASSUME NEW i \in 1 .. n, NEW j \in 1 .. n, i # j, NEW x \in Nat,
                        Holds(g[i], x), Holds(g[j], x)
                 PROVE  FALSE
      BY <1>8 DEF Disjoint
    <2>1. ASSUME NEW k \in 1 .. n, Holds(g[k], x) PROVE Holds(h[k], x) \/ (k = n /\ Holds(c, x))
      BY <1>3, <1>7, <1>9, <2>1
    <2>2. ~(Holds(h[i], x) /\ Holds(h[j], x))
      BY <1>1, <1>2 DEF Chain, Disjoint
    <2> QED
      BY <1>10, <2>1, <2>2
  <1>12. \A x \in Nat : Lies(g, x) <=> Lies(h, x) \/ Holds(c, x)
    BY <1>1, <1>2, <1>3, <1>7, <1>8, <1>9 DEF Lies
  <1>13. InUse(g) = InUse(h)
    BY <1>1, <1>2, <1>3, <1>5, <1>7, <1>8 DEF InUse
  <1> QED
    BY <1>8, <1>11, <1>12, <1>13 DEF Chain

-----------------------------------------------------------------------------
(***************************************************************************)
(* free_nolock's pass, by induction over the chain.  First that the        *)
(* recursion defines a function, then what the function returns.           *)
(***************************************************************************)
LEMMA LeastExists ==
  ASSUME NEW S, S \subseteq Nat, S # {}
  PROVE  \E i \in S : \A j \in S : i <= j
  <1> DEFINE R == OpToRel(<, Nat)
  <1>1. IsWellFoundedOn(R, Nat)
    BY NatLessThanWellFounded
  <1>2. \A x, y \in Nat : x < y => <<x, y>> \in R
    BY DEF OpToRel
  <1> HIDE DEF R
  <1>3. PICK i \in S : \A j \in S : ~(<<j, i>> \in R)
    BY <1>1, WFMin
  <1>4. ASSUME NEW j \in S PROVE i <= j
    <2>1. i \in Nat /\ j \in Nat /\ ~(<<j, i>> \in R)
      BY <1>3
    <2> QED
      BY <1>2, <2>1
  <1> QED
    BY <1>4

\* Induction over an interval, for a property given as the set that has it.
LEMMA IntervalInduction ==
  ASSUME NEW n \in Nat, NEW S, 0 \in S, \A k \in 1 .. n : k - 1 \in S => k \in S
  PROVE  0 .. n \subseteq S
  <1> SUFFICES ASSUME (0 .. n) \ S # {} PROVE FALSE
    OBVIOUS
  <1>1. PICK k \in (0 .. n) \ S : \A j \in (0 .. n) \ S : k <= j
    <2>1. (0 .. n) \ S \subseteq Nat
      OBVIOUS
    <2> QED
      BY <2>1, LeastExists
  <1>2. k \in 1 .. n
    <2>1. k # 0
      BY <1>1
    <2> QED
      BY <2>1
  <1>3. k - 1 \in 0 .. n /\ ~(k <= k - 1)
    BY <1>2
  <1>4. k - 1 \in S
    BY <1>1, <1>3
  <1> QED
    BY <1>1, <1>2, <1>4

Begun == [heap |-> <<>>, grew |-> FALSE]
Turns(h, n, f) == f = [k \in 0 .. n |-> IF k = 0 THEN Begun ELSE Look(f[k - 1], h[k])]

LEMMA PassUnfolds ==
  ASSUME NEW h, Len(h) \in Nat
  PROVE  /\ Pass(h)[0] = Begun
         /\ \A k \in 1 .. Len(h) : Pass(h)[k] = Look(Pass(h)[k - 1], h[k])
  <1>1. PICK n \in Nat : n = Len(h)
    OBVIOUS
  <1> DEFINE S == {k \in 0 .. n : \E f : Turns(h, k, f)}
  <1>2. 0 \in S
    <2>1. Turns(h, 0, [k \in 0 .. 0 |-> Begun])
      BY DEF Turns
    <2> QED
      BY <1>1, <2>1
  <1>3. ASSUME NEW k \in 1 .. n, k - 1 \in S PROVE k \in S
    <2>1. PICK f : Turns(h, k - 1, f)
      BY <1>3
    <2>2. /\ DOMAIN f = 0 .. k - 1
          /\ \A j \in 0 .. k - 1 : f[j] = IF j = 0 THEN Begun ELSE Look(f[j - 1], h[j])
      BY <2>1 DEF Turns
    <2> DEFINE g == [j \in 0 .. k |-> IF j = k THEN Look(f[k - 1], h[k]) ELSE f[j]]
    <2>3. \A j \in 0 .. k : g[j] = IF j = 0 THEN Begun ELSE Look(g[j - 1], h[j])
      <3> SUFFICES ASSUME NEW j \in 0 .. k
                   PROVE  g[j] = IF j = 0 THEN Begun ELSE Look(g[j - 1], h[j])
        OBVIOUS
      <3>1. CASE j = 0
        <4>1. j # k /\ j \in 0 .. k - 1
          BY <3>1
        <4> QED
          BY <2>2, <3>1, <4>1
      <3>2. CASE j \in 1 .. k - 1
        <4>1. j # k /\ j \in 0 .. k - 1 /\ j # 0 /\ j - 1 \in 0 .. k /\ j - 1 # k
          BY <3>2
        <4> QED
          BY <2>2, <4>1
      <3>3. CASE j = k
        <4>1. j # 0 /\ k - 1 \in 0 .. k /\ k - 1 # k
          BY <3>3
        <4> QED
          BY <3>3, <4>1
      <3> QED
        BY <3>1, <3>2, <3>3
    <2>4. DOMAIN g = 0 .. k /\ g = [j \in 0 .. k |-> g[j]]
      OBVIOUS
    <2> HIDE DEF g
    <2>5. Turns(h, k, g)
      BY <2>3, <2>4 DEF Turns
    <2> QED
      BY <2>5
  <1>4. n \in S
    <2>1. PICK T : T = S
      OBVIOUS
    <2>2. 0 \in T /\ \A k \in 1 .. n : k - 1 \in T => k \in T
      BY <1>2, <1>3, <2>1
    <2>3. 0 .. n \subseteq T
      BY ONLY <2>2, n \in Nat, IntervalInduction
    <2>4. n \in 0 .. n
      OBVIOUS
    <2> QED
      BY ONLY <2>1, <2>3, <2>4
  <1>5. \E f : Turns(h, n, f)
    BY <1>4
  <1>6. Pass(h) = CHOOSE f : Turns(h, n, f)
    BY <1>1 DEF Pass, Turns, Begun
  <1>7. Turns(h, n, Pass(h))
    BY <1>5, <1>6
  <1> QED
    BY <1>1, <1>7 DEF Turns

\* What the pass has done when it has looked at the first n chunks: it holds
\* their bytes, and those of them that are in use.
Before(h, n, x) == \E j \in 1 .. n : Holds(h[j], x)
UsedBefore(h, n) == {h[j] : j \in {l \in 1 .. n : ~h[l].free}}
LookedAt(h, n, done) ==
    /\ Chain(done.heap)
    /\ \A x \in Nat : Lies(done.heap, x) <=> Before(h, n, x)
    /\ InUse(done.heap) = UsedBefore(h, n)

LEMMA LookKeeps ==
  ASSUME NEW h, Chain(h), NEW k \in 1 .. Len(h), NEW done, LookedAt(h, k - 1, done)
  PROVE  LookedAt(h, k, Look(done, h[k]))
  <1>1. PICK c \in ChunkRec : c = h[k]
    BY DEF Chain
  <1>2. Len(h) \in Nat /\ DOMAIN h = 1 .. Len(h) /\ k \in Nat
    BY DEF Chain
  <1>3. \A j \in 1 .. k : j = k \/ j \in 1 .. k - 1
    BY <1>2
  <1>4. k \in 1 .. k /\ 1 .. k - 1 \subseteq 1 .. k /\ 1 .. k \subseteq DOMAIN h
    BY <1>2
  <1>5. \A x \in Nat : ~(Lies(done.heap, x) /\ Holds(c, x))
    <2>1. \A j \in 1 .. k - 1 : j # k
      BY <1>2
    <2> QED
      BY <1>1, <1>4, <2>1 DEF LookedAt, Before, Chain, Disjoint
  <1>6. \A x \in Nat : Before(h, k, x) <=> Before(h, k - 1, x) \/ Holds(c, x)
    BY <1>1, <1>3, <1>4 DEF Before
  <1>7. UsedBefore(h, k) = UsedBefore(h, k - 1) \cup UsedAmong({c})
    BY <1>1, <1>3, <1>4 DEF UsedBefore, UsedAmong
  <1> DEFINE n == Len(done.heap)
             absorbs == n > 0 /\ ~done.grew /\ done.heap[n].free /\ c.free
                          /\ Adjacent(done.heap[n], c)
  <1>8. CASE absorbs
    <2>1. PICK d : d = done.heap
      OBVIOUS
    <2>2. /\ Chain(d) /\ c.free /\ Len(d) \in DOMAIN d /\ Len(d) > 0
          /\ d[Len(d)].free /\ End(d[Len(d)]) = c.addr
          /\ \A x \in Nat : ~(Lies(d, x) /\ Holds(c, x))
      BY <1>5, <1>8, <2>1 DEF LookedAt, Adjacent, Chain
    <2>3. PICK p \in ChunkRec : p = d[Len(d)]
      BY <2>2 DEF Chain
    <2>4. PICK e : e = [p EXCEPT !.size = p.size + Header + c.size]
      OBVIOUS
    <2>5. /\ e \in ChunkRec /\ e.addr = p.addr /\ e.free /\ e.size = p.size + 32 + c.size
      <3>1. p.size \in Multiples /\ c.size \in Multiples /\ 32 \in Multiples
        BY DEF ChunkRec, Multiples
      <3>2. p.size + 32 + c.size \in Multiples
        BY <3>1, MultiplesAdd
      <3> QED
        BY <2>2, <2>3, <2>4, <3>2 DEF ChunkRec, Header
    <2>6. PICK g : g = [d EXCEPT ![Len(d)] = e]
      OBVIOUS
    <2>7. Look(done, h[k]).heap = g
      BY <1>1, <1>8, <2>1, <2>3, <2>4, <2>6 DEF Look
    <2>8. /\ Chain(g)
          /\ \A x \in Nat : Lies(g, x) <=> Lies(d, x) \/ Holds(c, x)
          /\ InUse(g) = InUse(d)
      <3>1. e.addr = d[Len(d)].addr /\ e.size = d[Len(d)].size + 32 + c.size
        BY <2>3, <2>5
      <3>2. /\ Chain(d) /\ c \in ChunkRec /\ c.free
            /\ \A x \in Nat : ~(Lies(d, x) /\ Holds(c, x))
            /\ Len(d) > 0 /\ d[Len(d)].free /\ End(d[Len(d)]) = c.addr
            /\ e \in ChunkRec /\ e.addr = d[Len(d)].addr /\ e.free
            /\ e.size = d[Len(d)].size + 32 + c.size
            /\ g = [d EXCEPT ![Len(d)] = e]
        BY ONLY <1>1, <2>2, <2>5, <2>6, <3>1
      <3> QED
        BY ONLY <3>2, Absorbed
    <2>9. UsedAmong({c}) = {}
      BY <2>2 DEF UsedAmong
    <2> QED
      BY <1>6, <1>7, <2>1, <2>7, <2>8, <2>9 DEF LookedAt
  <1>9. CASE ~absorbs
    <2>1. PICK g : g = Append(done.heap, c)
      OBVIOUS
    <2>2. Look(done, h[k]).heap = g
      BY <1>1, <1>9, <2>1 DEF Look
    <2>3. /\ Chain(done.heap) /\ c \in ChunkRec
          /\ \A x \in Nat : ~(Lies(done.heap, x) /\ Holds(c, x))
      BY <1>5 DEF LookedAt
    <2>4. /\ Chain(g)
          /\ \A x \in Nat : Lies(g, x) <=> Lies(done.heap, x) \/ Holds(c, x)
          /\ InUse(g) = InUse(done.heap) \cup UsedAmong({c})
      <3>1. PICK d : d = done.heap
        OBVIOUS
      <3>2. /\ Chain(g)
            /\ \A x \in Nat : Lies(g, x) <=> Lies(d, x) \/ Holds(c, x)
            /\ InUse(g) = InUse(d) \cup UsedAmong({c})
        <4>1. /\ Chain(d) /\ c \in ChunkRec /\ g = Append(d, c)
              /\ \A x \in Nat : ~(Lies(d, x) /\ Holds(c, x))
          BY ONLY <2>1, <2>3, <3>1
        <4> QED
          BY ONLY <4>1, Appended
      <3> QED
        BY ONLY <3>1, <3>2
    <2> QED
      BY <1>6, <1>7, <2>2, <2>4 DEF LookedAt
  <1> QED
    BY <1>8, <1>9

\* The pass of free_nolock neither loses nor doubles a byte, and leaves the
\* chunks in use as they are.
LEMMA CoalescedKeeps ==
  ASSUME NEW h, Chain(h)
  PROVE  /\ Chain(Coalesced(h))
         /\ \A x \in Nat : Lies(Coalesced(h), x) <=> Lies(h, x)
         /\ InUse(Coalesced(h)) = InUse(h)
  <1>1. PICK n \in Nat : n = Len(h) /\ DOMAIN h = 1 .. n
    BY DEF Chain
  <1>2. PICK p : p = Pass(h)
    OBVIOUS
  <1>3. p[0] = Begun /\ \A k \in 1 .. n : p[k] = Look(p[k - 1], h[k])
    <2>1. Len(h) \in Nat
      BY <1>1
    <2> QED
      BY <1>1, <1>2, <2>1, PassUnfolds
  <1> DEFINE S == {k \in 0 .. n : LookedAt(h, k, p[k])}
  <1>4. 0 \in S
    <2>1. Begun.heap = <<>> /\ << >> \in Seq(ChunkRec) /\ DOMAIN << >> = {}
      BY DEF Begun
    <2>2. Chain(<<>>) /\ \A x \in Nat : ~Lies(<<>>, x)
      BY <2>1 DEF Chain, Disjoint, Lies
    <2>3. InUse(<<>>) = {}
      BY <2>1 DEF InUse
    <2>4. UsedBefore(h, 0) = {} /\ \A x \in Nat : ~Before(h, 0, x)
      BY DEF UsedBefore, Before
    <2>5. p[0].heap = << >>
      BY <1>3, <2>1
    <2>6. LookedAt(h, 0, p[0])
      BY <2>2, <2>3, <2>4, <2>5 DEF LookedAt
    <2> QED
      BY <2>6
  <1>5. \A k \in 1 .. n : k - 1 \in S => k \in S
    <2> SUFFICES ASSUME NEW k \in 1 .. n, k - 1 \in S PROVE LookedAt(h, k, p[k])
      OBVIOUS
    <2>1. Chain(h) /\ k \in 1 .. Len(h) /\ LookedAt(h, k - 1, p[k - 1])
      BY <1>1
    <2>2. PICK done : done = p[k - 1]
      OBVIOUS
    <2>3. LookedAt(h, k, Look(done, h[k]))
      <3>1. LookedAt(h, k - 1, done)
        BY <2>1, <2>2
      <3> QED
        BY ONLY <2>1, <3>1, LookKeeps
    <2> QED
      BY <1>3, <2>2, <2>3
  <1>6. n \in S
    <2>1. PICK T : T = S
      OBVIOUS
    <2>2. 0 \in T /\ \A k \in 1 .. n : k - 1 \in T => k \in T
      BY <1>4, <1>5, <2>1
    <2>3. 0 .. n \subseteq T
      BY ONLY <2>2, n \in Nat, IntervalInduction
    <2>4. n \in 0 .. n
      OBVIOUS
    <2> QED
      BY ONLY <2>1, <2>3, <2>4
  <1>7. LookedAt(h, n, p[n]) /\ Coalesced(h) = p[n].heap
    BY <1>1, <1>2, <1>6 DEF Coalesced
  <1>8. UsedBefore(h, n) = InUse(h) /\ \A x \in Nat : Before(h, n, x) <=> Lies(h, x)
    BY <1>1 DEF Before, UsedBefore, Lies, InUse
  <1> QED
    BY <1>7, <1>8 DEF LookedAt

-----------------------------------------------------------------------------
(***************************************************************************)
(* What each operation leaves of the chain's tiling and of its owners.     *)
(***************************************************************************)
\* Chunks of a chain, and the blocks in them, lie apart.
LEMMA ChunksApart ==
  ASSUME NEW h, Chain(h), NEW k \in DOMAIN h, NEW l \in DOMAIN h, k # l
  PROVE  End(h[k]) <= h[l].addr \/ End(h[l]) <= h[k].addr
  <1>1. PICK c \in ChunkRec, d \in ChunkRec : c = h[k] /\ d = h[l]
    BY DEF Chain
  <1>2. \A x \in Nat : ~(Holds(c, x) /\ Holds(d, x))
    BY <1>1 DEF Chain, Disjoint
  <1>3. /\ c.addr \in Nat /\ d.addr \in Nat /\ End(c) \in Nat /\ End(d) \in Nat
        /\ c.addr < End(c) /\ d.addr < End(d)
    BY ChunkFacts DEF Holds
  <1>4. ~(Holds(c, c.addr) /\ Holds(d, c.addr)) /\ ~(Holds(c, d.addr) /\ Holds(d, d.addr))
    BY <1>2, <1>3
  <1> QED
    BY <1>1, <1>3, <1>4 DEF Holds

LEMMA OthersDiffer ==
  ASSUME NEW h, Chain(h), NEW k \in DOMAIN h, NEW d \in Others(h, k)
  PROVE  /\ d \in ChunkRec /\ ~d.free /\ ~Holds(h[k], d.addr)
         /\ End(d) <= h[k].addr \/ End(h[k]) <= d.addr
  <1>1. PICK j \in DOMAIN h : j # k /\ d = h[j] /\ ~h[j].free
    BY DEF Others
  <1>2. d \in ChunkRec
    BY <1>1 DEF Chain
  <1>3. d.addr \in Nat /\ Holds(d, d.addr)
    BY <1>2, ChunkFacts
  <1>4. ~Holds(h[k], d.addr)
    BY <1>1, <1>3 DEF Chain, Disjoint
  <1>5. End(d) <= h[k].addr \/ End(h[k]) <= d.addr
    BY <1>1, ChunksApart
  <1> QED
    BY <1>1, <1>2, <1>4, <1>5

LEMMA OthersOfUsed ==
  ASSUME NEW h, Chain(h), NEW k \in DOMAIN h
  PROVE  /\ InUse(h) = Others(h, k) \cup UsedAmong({h[k]})
         /\ h[k].free => InUse(h) = Others(h, k)
         /\ h[k] \notin Others(h, k)
  <1>1. InUse(h) = Others(h, k) \cup UsedAmong({h[k]})
    BY DEF InUse, Others, UsedAmong
  <1>2. h[k].free => UsedAmong({h[k]}) = {}
    BY DEF UsedAmong
  <1>3. Holds(h[k], h[k].addr)
    BY ChunkFacts DEF Chain
  <1>4. h[k] \notin Others(h, k)
    BY <1>3, OthersDiffer
  <1> QED
    BY <1>1, <1>2, <1>4

\* arena_grow adds a free chunk as big as was asked for, apart from the rest.
LEMMA GrownTiles ==
  ASSUME NEW h, NEW m, Tiles(h, m), NEW n \in Multiples, NEW g \in Grown(h, m, n)
  PROVE  /\ Tiles(g.heap, g.mapped)
         /\ InUse(g.heap) = InUse(h)
         /\ Len(g.heap) \in DOMAIN g.heap
         /\ g.heap[Len(g.heap)].free /\ g.heap[Len(g.heap)].size >= n
  <1>1. PICK b \in Places(m, BlockSize(n)) :
          g = [heap |-> Append(h, Chunk(b, BlockSize(n) - Header, TRUE)),
               mapped |-> m \cup {[addr |-> b, size |-> BlockSize(n)]}]
    BY DEF Grown
  <1>2. n \in Nat /\ n % 16 = 0 /\ n \in Multiples /\ 32 \in Multiples /\ ARENA_SIZE \in Multiples
    BY DEF Multiples
  <1>3. PICK z \in Multiples : z = BlockSize(n) /\ z >= n + 32 /\ z >= 32
    <2>1. n + 32 \in Multiples
      BY <1>2, MultiplesAdd
    <2> QED
      BY <1>2, <2>1 DEF BlockSize, Header
  <1>4. b \in Nat /\ b \in Multiples /\ \A y \in m : b + z <= y.addr \/ y.addr + y.size <= b
    BY <1>1, <1>3 DEF Places, Multiples
  <1>5. PICK c : c = Chunk(b, z - 32, TRUE)
    OBVIOUS
  <1>6. /\ c \in ChunkRec /\ c.free /\ c.addr = b /\ c.size = z - 32 /\ c.size >= n
        /\ End(c) = b + z
    <2>1. z - 32 \in Multiples
      BY <1>2, <1>3, MultiplesAdd
    <2>2. z \in Nat /\ z - 32 >= n /\ b + 32 + (z - 32) = b + z
      BY <1>2, <1>3, <1>4 DEF Multiples
    <2> QED
      BY <1>4, <1>5, <2>1, <2>2 DEF Chunk, ChunkRec, End, Header
  <1>7. g.heap = Append(h, c) /\ g.mapped = m \cup {[addr |-> b, size |-> z]}
    BY <1>1, <1>3, <1>5 DEF Header
  <1>8. z \in Nat /\ m \subseteq [addr : Nat, size : Nat] /\ Chain(h)
    BY <1>3 DEF Multiples, Tiles
  <1>9. \A x \in Nat : Holds(c, x) <=> b <= x /\ x < b + z
    BY <1>6 DEF Holds
  <1>10. \A x \in Nat : ~(Lies(h, x) /\ Holds(c, x))
    <2> SUFFICES ASSUME NEW x \in Nat, Lies(h, x), Holds(c, x) PROVE FALSE
      OBVIOUS
    <2>1. PICK y \in m : y.addr <= x /\ x < y.addr + y.size
      BY DEF Tiles, Maps
    <2>2. b + z <= y.addr \/ y.addr + y.size <= b
      BY <1>4
    <2>3. y.addr \in Nat /\ y.size \in Nat /\ b <= x /\ x < b + z
      BY <1>8, <1>9
    <2> QED
      BY ONLY <2>1, <2>2, <2>3, <1>4, <1>8, x \in Nat
  <1>11. /\ Chain(g.heap)
         /\ \A x \in Nat : Lies(g.heap, x) <=> Lies(h, x) \/ Holds(c, x)
         /\ InUse(g.heap) = InUse(h) \cup UsedAmong({c})
         /\ Len(g.heap) = Len(h) + 1 /\ g.heap[Len(h) + 1] = c
    <2>1. PICK d : d = g.heap
      OBVIOUS
    <2>2. Chain(h) /\ c \in ChunkRec /\ d = Append(h, c)
      BY <1>6, <1>7, <1>8, <2>1
    <2>3. /\ Chain(d)
          /\ \A x \in Nat : Lies(d, x) <=> Lies(h, x) \/ Holds(c, x)
          /\ InUse(d) = InUse(h) \cup UsedAmong({c})
          /\ Len(d) = Len(h) + 1 /\ d[Len(h) + 1] = c
      BY ONLY <1>10, <2>2, Appended
    <2> QED
      BY <2>1, <2>3
  <1>12. UsedAmong({c}) = {}
    BY <1>6 DEF UsedAmong
  <1>13. \A x \in Nat : Lies(g.heap, x) <=> Maps(g.mapped, x)
    <2>1. ASSUME NEW x \in Nat
          PROVE  Maps(g.mapped, x) <=> Maps(m, x) \/ (b <= x /\ x < b + z)
      <3>1. PICK y : y = [addr |-> b, size |-> z]
        OBVIOUS
      <3>2. y.addr = b /\ y.size = z /\ g.mapped = m \cup {y}
        BY <1>7, <3>1
      <3> QED
        BY ONLY <3>2 DEF Maps
    <2> QED
      BY <1>9, <1>11, <2>1 DEF Tiles
  <1>14. g.mapped \subseteq [addr : Nat, size : Nat]
    BY <1>4, <1>7, <1>8
  <1>15. Len(g.heap) \in DOMAIN g.heap
    BY <1>8, <1>11 DEF Chain
  <1> QED
    BY <1>6, <1>11, <1>12, <1>13, <1>14, <1>15 DEF Tiles

LEMMA SameRest ==
  ASSUME NEW A, NEW B, NEW u, A \cup {u} = B \cup {u}, u \notin A, u \notin B
  PROVE  A = B
  <1>1. \A z : z \in A \cup {u} <=> z \in B \cup {u}
    OBVIOUS
  <1>2. \A z : z \in A <=> z \in B
    BY <1>1
  <1> QED
    BY <1>2

\* malloc_nolock's choice of a chunk puts it in use, and no other.
LEMMA CarveTiles ==
  ASSUME NEW h, NEW m, Tiles(h, m), NEW k \in DOMAIN h, h[k].free,
         NEW n \in Multiples, h[k].size >= n,
         NEW g, g = Carve(h, k, n)
  PROVE  /\ Tiles(g, m)
         /\ k \in DOMAIN g /\ ~g[k].free /\ g[k].size >= n
         /\ Others(g, k) = InUse(h)
  <1>1. Chain(h) /\ h \in Seq(ChunkRec) /\ DOMAIN h = 1 .. Len(h) /\ Len(h) \in Nat
    BY DEF Tiles, Chain
  <1>2. PICK c \in ChunkRec : c = h[k] /\ c.free /\ c.size >= n
    BY <1>1
  <1>3. /\ c.addr \in Multiples /\ c.size \in Multiples /\ 32 \in Multiples
        /\ c.addr \in Nat /\ c.size \in Nat /\ n \in Nat
    BY DEF ChunkRec, Multiples
  <1>4. SUFFICES /\ Chain(g) /\ \A x \in Nat : Lies(g, x) <=> Lies(h, x)
                 /\ InUse(g) = Others(h, k) \cup {g[k]}
                 /\ k \in DOMAIN g /\ ~g[k].free /\ g[k].size >= n /\ g[k].addr = c.addr
    <2>1. Holds(h[k], g[k].addr)
      BY <1>2, <1>4, ChunkFacts
    <2>2. g[k] \notin Others(h, k)
      BY <1>1, <2>1, OthersDiffer
    <2>3. InUse(h) = Others(h, k)
      BY <1>1, OthersOfUsed
    <2>4. InUse(g) = Others(g, k) \cup {g[k]} /\ g[k] \notin Others(g, k)
      <3>1. UsedAmong({g[k]}) = {g[k]}
        BY <1>4 DEF UsedAmong
      <3> QED
        BY <1>4, <3>1, OthersOfUsed
    <2>5. Others(g, k) = InUse(h)
      <3>2. Others(g, k) \cup {g[k]} = Others(h, k) \cup {g[k]}
        BY <1>4, <2>4
      <3>3. Others(g, k) = Others(h, k)
        BY ONLY <2>2, <2>4, <3>2, SameRest
      <3> QED
        BY <2>3, <3>3
    <2>6. Tiles(g, m)
      BY <1>4 DEF Tiles
    <2> QED
      BY <1>4, <2>5, <2>6
  <1>5. CASE Splits(c, n)
    <2>1. PICK d : d = Chunk(c.addr + 32 + n, c.size - n - 32, TRUE)
      OBVIOUS
    <2>2. PICK e : e = Chunk(c.addr, n, FALSE)
      OBVIOUS
    <2>3. c.addr + 32 \in Multiples /\ c.addr + 32 + n \in Multiples
      BY <1>3, MultiplesAdd
    <2>4. c.size - n \in Multiples
      BY <1>2, <1>3, MultiplesAdd
    <2>5. c.size - n >= 32
      BY <1>3, <1>5 DEF Splits, Header
    <2>6. c.size - n - 32 \in Multiples
      BY <1>3, <2>4, <2>5, MultiplesAdd
    <2>7. d \in ChunkRec /\ e \in ChunkRec
      BY <1>3, <2>1, <2>2, <2>3, <2>6 DEF Chunk, ChunkRec
    <2>8. /\ d.addr = c.addr + 32 + n /\ d.size = c.size - n - 32 /\ d.free
          /\ e.addr = c.addr /\ e.size = n /\ ~e.free
      BY <2>1, <2>2 DEF Chunk
    <2>9. End(e) = d.addr /\ End(d) = End(h[k]) /\ e.addr = h[k].addr
      <3>1. /\ End(e) = e.addr + 32 + e.size /\ End(d) = d.addr + 32 + d.size
            /\ End(h[k]) = c.addr + 32 + c.size
        BY <1>2 DEF End, Header
      <3>2. (c.addr + 32 + n) + 32 + (c.size - n - 32) = c.addr + 32 + c.size
        BY <1>3
      <3> QED
        BY <1>2, <2>8, <3>1, <3>2
    <2>10. g = ReplaceAt(InsertAt(h, k + 1, d), k, e)
      BY <1>2, <1>5, <2>1, <2>2 DEF Carve, Payload, Header
    <2>11. /\ Chain(g)
           /\ \A x \in Nat : Lies(g, x) <=> Lies(h, x)
           /\ InUse(g) = Others(h, k) \cup Busy(e, d)
           /\ Len(g) = Len(h) + 1 /\ g[k] = e
      <3>1. /\ Chain(h) /\ k \in DOMAIN h /\ e \in ChunkRec /\ d \in ChunkRec
            /\ e.addr = h[k].addr /\ End(e) = d.addr /\ End(d) = End(h[k])
            /\ g = Halved(h, k, e, d)
        BY <1>1, <2>7, <2>9, <2>10 DEF Halved
      <3> QED
        BY ONLY <3>1, Cut
    <2>12. Busy(e, d) = {e}
      BY <2>8 DEF Busy, UsedAmong
    <2>13. k \in DOMAIN g
      BY <1>1, <2>11 DEF Chain
    <2>14. n >= n
      BY <1>3
    <2> QED
      BY <2>8, <2>11, <2>12, <2>13, <2>14
  <1>6. CASE ~Splits(c, n)
    <2>1. PICK e : e = [c EXCEPT !.free = FALSE]
      OBVIOUS
    <2>2. e \in ChunkRec /\ e.addr = c.addr /\ e.size = c.size /\ ~e.free
      BY <2>1 DEF ChunkRec
    <2>3. g = [h EXCEPT ![k] = e]
      BY <1>1, <1>2, <1>6, <2>1 DEF Carve
    <2>4. /\ Chain(g)
          /\ \A x \in Nat : Lies(g, x) <=> Lies(h, x)
          /\ InUse(g) = Others(h, k) \cup UsedAmong({e})
          /\ DOMAIN g = DOMAIN h
      <3>1. e.addr = h[k].addr /\ e.size = h[k].size
        BY <1>2, <2>2
      <3> QED
        <4>1. /\ Chain(h) /\ k \in DOMAIN h /\ e \in ChunkRec
              /\ e.addr = h[k].addr /\ e.size = h[k].size /\ g = [h EXCEPT ![k] = e]
          BY <1>1, <2>2, <2>3, <3>1
        <4> QED
          BY ONLY <4>1, Marked
    <2>5. g[k] = e
      BY <1>1, <2>3
    <2>6. UsedAmong({e}) = {e}
      BY <2>2 DEF UsedAmong
    <2> QED
      BY <1>2, <2>2, <2>4, <2>5, <2>6
  <1> QED
    BY <1>5, <1>6

LEMMA EmptyTiles ==
  /\ Chain(<<>>) /\ InUse(<<>>) = {}
  /\ \A x \in Nat : ~Lies(<<>>, x)
  /\ Tiles(<<>>, {})
  <1>1. << >> \in Seq(ChunkRec) /\ DOMAIN << >> = {}
    OBVIOUS
  <1>2. Chain(<<>>) /\ \A x \in Nat : ~Lies(<<>>, x)
    BY <1>1 DEF Chain, Disjoint, Lies
  <1>3. InUse(<<>>) = {}
    BY <1>1 DEF InUse
  <1>4. \A x \in Nat : ~Maps({}, x)
    BY DEF Maps
  <1> QED
    BY <1>2, <1>3, <1>4 DEF Tiles

\* malloc_nolock: the chain tiles what is mapped when it returns, and nothing
\* changes owner but the chunk it returns.
LEMMA AllocationsTile ==
  ASSUME Tiles(heap, mapped), NEW n \in Multiples, NEW o \in Allocations(n)
  PROVE  /\ Tiles(o.heap, o.mapped)
         /\ o.at = 0 => InUse(o.heap) = InUse(heap)
         /\ o.at # 0 => /\ o.at \in DOMAIN o.heap
                        /\ ~o.heap[o.at].free /\ o.heap[o.at].size >= n
                        /\ Others(o.heap, o.at) = InUse(heap)
  <1> DEFINE begun == IF heap # <<>> THEN {[heap |-> heap, mapped |-> mapped]}
                      ELSE Grown(<<>>, {}, 0)
             From(g) == LET fit == Fitting(g.heap, n)
                            grown == Grown(g.heap, g.mapped, n)
                        IN  IF fit # {}
                            THEN {Taken(g, CHOOSE k \in fit : \A l \in fit : k <= l, n)}
                            ELSE IF grown # {}
                            THEN {Taken(w, Len(w.heap), n) : w \in grown}
                            ELSE {[heap |-> g.heap, mapped |-> g.mapped, at |-> 0]}
  <1>1. PICK g \in begun : o \in From(g)
    BY DEF Allocations
  <1>2. Tiles(g.heap, g.mapped) /\ InUse(g.heap) = InUse(heap)
    <2>1. CASE heap # <<>>
      <3>1. g = [heap |-> heap, mapped |-> mapped]
        BY <1>1, <2>1
      <3>2. g.heap = heap /\ g.mapped = mapped
        BY ONLY <3>1
      <3> QED
        BY <3>2
    <2>2. CASE heap = <<>>
      <3>1. g \in Grown(<<>>, {}, 0) /\ 0 \in Multiples
        BY <1>1, <2>2 DEF Multiples
      <3> QED
        BY <2>2, <3>1, EmptyTiles, GrownTiles
    <2> QED
      BY <2>1, <2>2
  \* Taking a free chunk that is big enough is a Carve.
  <1>3. ASSUME NEW w, Tiles(w.heap, w.mapped), InUse(w.heap) = InUse(heap),
               NEW k, k \in DOMAIN w.heap, w.heap[k].free, w.heap[k].size >= n,
               o = Taken(w, k, n)
        PROVE  /\ Tiles(o.heap, o.mapped)
               /\ o.at \in DOMAIN o.heap
               /\ o.at # 0
               /\ ~o.heap[o.at].free /\ o.heap[o.at].size >= n
               /\ Others(o.heap, o.at) = InUse(heap)
    <2>1. PICK h, m, g1 : h = w.heap /\ m = w.mapped /\ g1 = Carve(h, k, n)
      OBVIOUS
    <2>2. o.heap = g1 /\ o.mapped = m /\ o.at = k
      BY <1>3, <2>1 DEF Taken
    <2>3. Tiles(h, m) /\ k \in DOMAIN h /\ h[k].free /\ h[k].size >= n
      BY <1>3, <2>1
    <2>4. /\ Tiles(g1, m) /\ k \in DOMAIN g1 /\ ~g1[k].free /\ g1[k].size >= n
          /\ Others(g1, k) = InUse(h)
      BY ONLY n \in Multiples, <2>1, <2>3, CarveTiles
    <2>5. k # 0
      <3>1. DOMAIN h = 1 .. Len(h)
        BY <2>3 DEF Tiles, Chain
      <3> QED
        BY <2>3, <3>1
    <2> QED
      BY <1>3, <2>1, <2>2, <2>4, <2>5
  <1> DEFINE fit == Fitting(g.heap, n)
             grown == Grown(g.heap, g.mapped, n)
  <1>4. CASE fit # {}
    <2>1. fit \subseteq Nat
      <3>1. DOMAIN g.heap \subseteq Nat
        BY <1>2 DEF Tiles, Chain
      <3> QED
        BY <3>1 DEF Fitting
    <2>2. PICK k : k = CHOOSE i \in fit : \A l \in fit : i <= l
      OBVIOUS
    <2>3. k \in fit
      BY <1>4, <2>1, <2>2, LeastExists
    <2>4. k \in DOMAIN g.heap /\ g.heap[k].free /\ g.heap[k].size >= n
      BY <2>3 DEF Fitting
    <2>5. o = Taken(g, k, n)
      BY <1>1, <1>4, <2>2
    <2> QED
      BY <1>2, <1>3, <2>4, <2>5
  <1>5. CASE fit = {} /\ grown # {}
    <2>1. PICK w \in grown : o = Taken(w, Len(w.heap), n)
      BY <1>1, <1>5
    <2>2. /\ Tiles(w.heap, w.mapped) /\ InUse(w.heap) = InUse(g.heap)
          /\ Len(w.heap) \in DOMAIN w.heap
          /\ w.heap[Len(w.heap)].free /\ w.heap[Len(w.heap)].size >= n
      <3>1. PICK h, m : h = g.heap /\ m = g.mapped
        OBVIOUS
      <3>2. Tiles(h, m) /\ w \in Grown(h, m, n)
        BY <1>2, <2>1, <3>1
      <3>3. /\ Tiles(w.heap, w.mapped) /\ InUse(w.heap) = InUse(h)
            /\ Len(w.heap) \in DOMAIN w.heap
            /\ w.heap[Len(w.heap)].free /\ w.heap[Len(w.heap)].size >= n
        BY ONLY <3>2, n \in Multiples, GrownTiles
      <3> QED
        BY <3>1, <3>3
    <2> QED
      BY <1>2, <1>3, <2>1, <2>2
  <1>6. CASE fit = {} /\ grown = {}
    <2>1. o = [heap |-> g.heap, mapped |-> g.mapped, at |-> 0]
      BY <1>1, <1>6
    <2>2. o.heap = g.heap /\ o.mapped = g.mapped /\ o.at = 0
      BY ONLY <2>1
    <2> QED
      BY <1>2, <2>2
  <1> QED
    BY <1>4, <1>5, <1>6

\* The l-th chunk of g is in use, aligned to a and has n bytes; the others in
\* use are those of S.
AlignedAt(g, m, l, n, a, S) ==
    /\ Tiles(g, m)
    /\ l \in DOMAIN g /\ ~g[l].free /\ g[l].size >= n
    /\ Payload(g[l]) % a = 0
    /\ Others(g, l) = S

\* aligned_alloc: the front it cuts off is a free chunk, and what is left is
\* aligned and still big enough.
LEMMA ShiftedTiles ==
  ASSUME NEW h, NEW m, Tiles(h, m), NEW k \in DOMAIN h, ~h[k].free,
         NEW n \in Nat, NEW a \in Nat \ {0}, a % 16 = 0, h[k].size >= n + a + 32,
         NEW g, g = Shifted(h, k, a)
  PROVE  AlignedAt(g, m, k + 1, n, a, Others(h, k))
  <1>1. Chain(h) /\ h \in Seq(ChunkRec) /\ DOMAIN h = 1 .. Len(h) /\ Len(h) \in Nat
    BY DEF Tiles, Chain
  <1>2. PICK c \in ChunkRec : c = h[k] /\ ~c.free /\ c.size >= n + a + 32
    BY <1>1
  <1>3. /\ c.addr \in Multiples /\ c.size \in Multiples /\ 32 \in Multiples
        /\ c.addr \in Nat /\ c.size \in Nat
    BY DEF ChunkRec, Multiples
  <1>4. PICK p \in Nat : p = c.addr + 32 + 32 + a - 1
    BY <1>3
  <1>5. PICK q : q = p - (p % a)
    OBVIOUS
  <1>6. /\ q \in Multiples /\ q \in Nat /\ q % a = 0 /\ q <= p /\ p < q + a
    BY <1>4, <1>5, DownIsMultiple DEF Multiples
  <1>7. PICK f : f = q - 32 - c.addr
    OBVIOUS
  <1>8. /\ f \in Nat /\ f >= 32 /\ f <= 31 + a /\ q = c.addr + f + 32
    BY <1>3, <1>4, <1>6, <1>7
  <1>9. f \in Multiples
    <2>1. q - 32 \in Multiples
      BY <1>3, <1>6, <1>8, MultiplesAdd
    <2>2. q - 32 >= c.addr
      BY <1>3, <1>8
    <2> QED
      BY <1>3, <1>7, <2>1, <2>2, MultiplesAdd
  <1>10. /\ c.addr + f \in Multiples /\ f - 32 \in Multiples /\ c.size - f \in Multiples
         /\ c.size - f >= n
    <2>1. c.size >= f /\ c.size - f >= n
      BY <1>2, <1>3, <1>8
    <2> QED
      BY <1>3, <1>8, <1>9, <2>1, MultiplesAdd
  <1>11. PICK d : d = Chunk(c.addr + f, c.size - f, FALSE)
    OBVIOUS
  <1>12. PICK e : e = Chunk(c.addr, f - 32, TRUE)
    OBVIOUS
  <1>13. /\ d \in ChunkRec /\ d.addr = c.addr + f /\ d.size = c.size - f /\ ~d.free
         /\ e \in ChunkRec /\ e.addr = c.addr /\ e.size = f - 32 /\ e.free
    BY <1>3, <1>10, <1>11, <1>12 DEF Chunk, ChunkRec
  <1>14. End(e) = d.addr /\ End(d) = End(h[k]) /\ e.addr = h[k].addr /\ Payload(d) = q
    <2>1. /\ End(e) = e.addr + 32 + e.size /\ End(d) = d.addr + 32 + d.size
          /\ End(h[k]) = c.addr + 32 + c.size /\ Payload(d) = d.addr + 32
      BY <1>2 DEF End, Payload, Header
    <2>2. /\ c.addr + 32 + (f - 32) = c.addr + f
          /\ (c.addr + f) + 32 + (c.size - f) = c.addr + 32 + c.size
      BY <1>3, <1>8
    <2> QED
      BY <1>2, <1>8, <1>13, <2>1, <2>2
  <1>15. g = ReplaceAt(InsertAt(h, k + 1, d), k, e)
    <2>1. Payload(c) + Header + a - 1 = p
      BY <1>3, <1>4 DEF Payload, Header
    <2>2. p - (p % a) - Header - c.addr = f
      BY <1>5, <1>7 DEF Header
    <2> QED
      BY <1>2, <1>11, <1>12, <2>1, <2>2 DEF Shifted, Header
  <1>16. /\ Chain(g)
         /\ \A x \in Nat : Lies(g, x) <=> Lies(h, x)
         /\ InUse(g) = Others(h, k) \cup UsedAmong({e, d})
         /\ Len(g) = Len(h) + 1 /\ g[k] = e /\ g[k + 1] = d
    <2>1. /\ Chain(h) /\ k \in DOMAIN h /\ e \in ChunkRec /\ d \in ChunkRec
          /\ e.addr = h[k].addr /\ End(e) = d.addr /\ End(d) = End(h[k])
          /\ g = Halved(h, k, e, d)
      BY <1>1, <1>13, <1>14, <1>15 DEF Halved
    <2>2. /\ Chain(g)
          /\ \A x \in Nat : Lies(g, x) <=> Lies(h, x)
          /\ InUse(g) = Others(h, k) \cup Busy(e, d)
          /\ Len(g) = Len(h) + 1 /\ g[k] = e /\ After(g, k) = d
      BY ONLY <2>1, Cut
    <2> QED
      BY <2>2 DEF After, Busy
  <1>17. k + 1 \in DOMAIN g
    BY <1>1, <1>16 DEF Chain
  <1>18. UsedAmong({e, d}) = {d} /\ UsedAmong({g[k + 1]}) = {d}
    BY <1>13, <1>16 DEF UsedAmong
  <1>19. d \notin Others(h, k)
    <2>1. Holds(h[k], d.addr)
      <3>1. h[k].addr <= d.addr /\ d.addr < End(h[k])
        <4>1. d.addr \in Nat /\ d.size \in Nat /\ End(d) = d.addr + 32 + d.size
          BY <1>13, ChunkFacts
        <4> QED
          BY <1>2, <1>3, <1>8, <1>13, <1>14, <4>1
      <3> QED
        BY <3>1 DEF Holds
    <2> QED
      BY <1>1, <2>1, OthersDiffer
  <1>20. Others(g, k + 1) = Others(h, k)
    <2>1. InUse(g) = Others(g, k + 1) \cup {d} /\ d \notin Others(g, k + 1)
      BY <1>16, <1>17, <1>18, OthersOfUsed
    <2>2. InUse(g) = Others(h, k) \cup {d}
      BY <1>16, <1>18
    <2>3. Others(g, k + 1) \cup {d} = Others(h, k) \cup {d}
      BY <2>1, <2>2
    <2> QED
      BY ONLY <1>19, <2>1, <2>3, SameRest
  <1>21. Tiles(g, m)
    BY <1>16 DEF Tiles
  <1> QED
    BY <1>6, <1>10, <1>13, <1>14, <1>16, <1>17, <1>20, <1>21 DEF AlignedAt

\* ChunkOf finds the chunk of a block that a caller has.
LEMMA OwnerFound ==
  ASSUME NEW h, Chain(h), NEW al, Owned(h, al), NEW b \in al,
         NEW k, k = ChunkOf(h, b.ptr)
  PROVE  /\ k \in DOMAIN h /\ h[k] \in ChunkRec /\ ~h[k].free
         /\ Payload(h[k]) = b.ptr /\ b.size <= h[k].size
  <1>1. PICK j \in DOMAIN h : ~h[j].free /\ Payload(h[j]) = b.ptr /\ b.size <= h[j].size
    BY DEF Owned, InUse
  <1>2. k \in DOMAIN h /\ Payload(h[k]) = b.ptr
    BY <1>1 DEF ChunkOf
  <1>3. h[j] \in ChunkRec /\ h[k] \in ChunkRec
    BY <1>1, <1>2 DEF Chain
  <1>4. h[j].addr = h[k].addr
    <2>1. /\ Payload(h[j]) = h[j].addr + 32 /\ h[j].addr \in Nat
          /\ Payload(h[k]) = h[k].addr + 32 /\ h[k].addr \in Nat
      BY <1>3, ChunkFacts
    <2> QED
      BY <1>1, <1>2, <2>1
  <1>5. j = k
    BY <1>1, <1>2, <1>4, AddressesDiffer
  <1> QED
    BY <1>1, <1>2, <1>3, <1>5

\* free gives back the chunk of one block, and the others keep theirs.
LEMMA FreedKeeps ==
  ASSUME NEW h, NEW m, NEW al, MemoryOK(h, m, al), NEW b \in al,
         NEW g, g = Freed(h, b.ptr)
  PROVE  MemoryOK(g, m, al \ {b})
  <1>1. PICK k : k = ChunkOf(h, b.ptr)
    OBVIOUS
  <1>2. Chain(h) /\ Owned(h, al) /\ Tiles(h, m)
    BY DEF MemoryOK, Tiles
  <1>3. /\ k \in DOMAIN h /\ h[k] \in ChunkRec /\ ~h[k].free
        /\ Payload(h[k]) = b.ptr /\ b.size <= h[k].size
    BY ONLY <1>1, <1>2, b \in al, OwnerFound
  <1>4. PICK c : c = h[k]
    OBVIOUS
  <1>5. PICK e : e = [c EXCEPT !.free = TRUE]
    OBVIOUS
  <1>6. e \in ChunkRec /\ e.addr = c.addr /\ e.size = c.size /\ e.free
    BY <1>3, <1>4, <1>5 DEF ChunkRec
  <1>7. PICK w : w = [h EXCEPT ![k] = e]
    OBVIOUS
  <1>8. g = Coalesced(w)
    <2>1. w = [h EXCEPT ![k].free = TRUE]
      BY <1>3, <1>4, <1>5, <1>7
    <2> QED
      BY <1>1, <2>1 DEF Freed
  <1>9. /\ Chain(w)
        /\ \A x \in Nat : Lies(w, x) <=> Lies(h, x)
        /\ InUse(w) = Others(h, k) \cup UsedAmong({e})
    <2>1. /\ Chain(h) /\ k \in DOMAIN h /\ e \in ChunkRec
          /\ e.addr = h[k].addr /\ e.size = h[k].size /\ w = [h EXCEPT ![k] = e]
      BY <1>2, <1>3, <1>4, <1>6, <1>7
    <2> QED
      BY ONLY <2>1, Marked
  <1>10. UsedAmong({e}) = {}
    BY <1>6 DEF UsedAmong
  <1>11. /\ Chain(g)
         /\ \A x \in Nat : Lies(g, x) <=> Lies(h, x)
         /\ InUse(g) = Others(h, k)
    BY <1>8, <1>9, <1>10, CoalescedKeeps
  <1>12. Tiles(g, m)
    BY <1>11 DEF MemoryOK, Tiles
  <1>13. InUse(h) = Others(h, k) \cup {c} /\ c \notin Others(h, k)
    <2>1. UsedAmong({c}) = {c}
      BY <1>3, <1>4 DEF UsedAmong
    <2> QED
      BY <1>2, <1>3, <1>4, <2>1, OthersOfUsed
  \* The block of another chunk is another block, and the other way round.
  <1>14. \A d \in Others(h, k) : Payload(d) # b.ptr
    <2> SUFFICES ASSUME NEW d \in Others(h, k), Payload(d) = b.ptr PROVE FALSE
      OBVIOUS
    <2>1. d \in ChunkRec /\ ~Holds(c, d.addr)
      BY <1>2, <1>3, <1>4, OthersDiffer
    <2>2. /\ Payload(d) = d.addr + 32 /\ d.addr \in Nat
          /\ Payload(c) = c.addr + 32 /\ c.addr \in Nat /\ Holds(c, c.addr)
      BY <1>3, <1>4, <2>1, ChunkFacts
    <2>3. d.addr = c.addr
      BY <1>3, <1>4, <2>2
    <2> QED
      BY <2>1, <2>2, <2>3
  <1>15. Owned(g, al \ {b})
    <2>1. ASSUME NEW d \in InUse(g) PROVE \E x \in al \ {b} : x.ptr = Payload(d)
      <3>1. d \in InUse(h) /\ d \in Others(h, k)
        BY <1>11, <1>13
      <3>2. PICK x \in al : x.ptr = Payload(d)
        BY <1>2, <3>1 DEF Owned
      <3> QED
        BY <1>14, <3>1, <3>2
    <2>2. ASSUME NEW x \in al \ {b}
          PROVE  \E d \in InUse(g) : x.ptr = Payload(d) /\ x.size <= d.size
      <3>1. PICK d \in InUse(h) : x.ptr = Payload(d) /\ x.size <= d.size
        BY <1>2 DEF Owned
      <3>2. d # c
        BY <1>2, <1>3, <1>4, <3>1 DEF Owned
      <3> QED
        BY <1>11, <1>13, <3>1, <3>2
    <2> QED
      BY <1>2, <2>1, <2>2 DEF Owned
  <1> QED
    BY <1>12, <1>15 DEF MemoryOK

\* A chunk put in use becomes the block of one caller, at an address that no
\* other block has, and apart from all of them.
LEMMA OwnedGains ==
  ASSUME NEW h, NEW al, Owned(h, al), NEW g, Chain(g), NEW k \in DOMAIN g,
         ~g[k].free, Others(g, k) = InUse(h),
         NEW b \in BlockRec, b.ptr = Payload(g[k]), b.size <= g[k].size
  PROVE  /\ Owned(g, al \cup {b})
         /\ \A x \in al : /\ x.ptr # b.ptr
                          /\ b.ptr + b.size <= x.ptr \/ x.ptr + x.size <= b.ptr
  <1>1. PICK c \in ChunkRec : c = g[k] /\ ~c.free
    BY DEF Chain
  <1>2. InUse(g) = InUse(h) \cup {c}
    <2>1. UsedAmong({c}) = {c}
      BY <1>1 DEF UsedAmong
    <2> QED
      BY <1>1, <2>1, OthersOfUsed
  <1>3. ASSUME NEW x \in al
        PROVE  /\ x.ptr # b.ptr
               /\ b.ptr + b.size <= x.ptr \/ x.ptr + x.size <= b.ptr
    <2>1. PICK d \in InUse(h) : x.ptr = Payload(d) /\ x.size <= d.size
      BY DEF Owned
    <2>2. /\ d \in ChunkRec /\ ~Holds(c, d.addr)
          /\ End(d) <= c.addr \/ End(c) <= d.addr
      BY <1>1, <2>1, OthersDiffer
    <2>3. /\ d.addr \in Nat /\ d.size \in Nat /\ Payload(d) = d.addr + 32 /\ End(d) = d.addr + 32 + d.size
          /\ c.addr \in Nat /\ c.size \in Nat /\ Payload(c) = c.addr + 32 /\ End(c) = c.addr + 32 + c.size
      BY <1>1, <2>2, ChunkFacts
    <2>4. x.size \in Nat /\ b.size \in Nat /\ b.size <= c.size /\ b.ptr = c.addr + 32
      BY <1>1, <2>3 DEF Owned, BlockRec
    <2> QED
      BY ONLY <2>1, <2>2, <2>3, <2>4
  <1>4. \A d \in InUse(g) : \E x \in al \cup {b} : x.ptr = Payload(d)
    BY <1>1, <1>2 DEF Owned
  <1>5. \A x \in al \cup {b} : \E d \in InUse(g) : x.ptr = Payload(d) /\ x.size <= d.size
    BY <1>1, <1>2 DEF Owned
  <1>6. \A x, y \in al \cup {b} : x.ptr = y.ptr => x = y
    BY <1>3 DEF Owned
  <1> QED
    BY <1>3, <1>4, <1>5, <1>6 DEF Owned

-----------------------------------------------------------------------------
(***************************************************************************)
(* The invariant: the memory is in order whatever the lock does, and until *)
(* a thread has leaked the lock, who is inside holds it, alone.            *)
(***************************************************************************)
HeapOK == MemoryOK(heap, mapped, allocated)

PcOK ==
    /\ {locked, broken, torn} \subseteq BOOLEAN
    /\ pc \in [Threads -> {"idle", "spin", "inside", "editing", "unlock", "leaked"}]

\* Who holds the lock holds it alone, and it is locked, until it is broken.
HeldAlone == broken \/ \A t \in Holders : locked /\ Holders = {t}

\* A call that the model takes in one step had the chain to itself.
EditsApart == torn \/ \A t, u \in Editors : t = u

\* What tears the chain: a broken lock, or a leaked one.
TornMeans == torn => broken \/ \E t \in Threads : pc[t] = "leaked"

LockOK == PcOK /\ HeldAlone /\ EditsApart /\ TornMeans

MallocInv == (torn \/ HeapOK) /\ LockOK

-----------------------------------------------------------------------------
(***************************************************************************)
(* The calls: each keeps the memory in order, and is a step of Heap or     *)
(* changes no block.                                                       *)
(***************************************************************************)
Kept == HeapOK' /\ (Promise!Next \/ UNCHANGED allocated)

\* What both malloc and the calls built on it do when malloc_nolock fails.
LEMMA FailureKeeps ==
  ASSUME HeapOK, NEW n \in Multiples, NEW o \in Allocations(n), o.at = 0,
         heap' = o.heap, mapped' = o.mapped, allocated' = allocated
  PROVE  Kept
  <1>1. Tiles(o.heap, o.mapped) /\ InUse(o.heap) = InUse(heap)
    BY AllocationsTile DEF HeapOK, MemoryOK
  <1>2. Owned(o.heap, allocated)
    BY <1>1 DEF HeapOK, MemoryOK, Owned
  <1> QED
    BY <1>1, <1>2 DEF Kept, HeapOK, MemoryOK

\* What it means for Heap that a chunk is put in use as a new block.
LEMMA NewBlock ==
  ASSUME NEW h, NEW m, NEW al, Owned(h, al), NEW g, Tiles(g, m), NEW k \in DOMAIN g,
         ~g[k].free, Others(g, k) = InUse(h),
         NEW b \in BlockRec, b.ptr = Payload(g[k]), b.size <= g[k].size
  PROVE  /\ MemoryOK(g, m, al \cup {b})
         /\ Promise!Apart(b, al)
         /\ \A x \in al : x.ptr # b.ptr
  <1>1. Chain(g)
    BY DEF Tiles
  <1>2. /\ Owned(g, al \cup {b})
        /\ \A x \in al : /\ x.ptr # b.ptr
                         /\ b.ptr + b.size <= x.ptr \/ x.ptr + x.size <= b.ptr
    BY <1>1, OwnedGains
  <1> QED
    BY <1>2 DEF MemoryOK, Promise!Apart

\* Every payload is aligned to 16 bytes.
LEMMA PayloadAligned ==
  ASSUME NEW c \in ChunkRec
  PROVE  Payload(c) \in Nat /\ Payload(c) % 16 = 0
  <1>1. c.addr \in Multiples /\ 32 \in Multiples
    BY DEF ChunkRec, Multiples
  <1>2. c.addr + 32 \in Multiples
    BY <1>1, MultiplesAdd
  <1> QED
    BY <1>2, ChunkFacts DEF Multiples

LEMMA MallocKeeps ==
  ASSUME HeapOK, NEW size \in Nat, NEW n \in Nat, n <= SizeSize - 16, size <= n,
         Malloc(size, n)
  PROVE  Kept
  <1>1. PICK r \in Multiples : r = Rounded(n) /\ r >= size
    <2>1. Rounded(n) \in Multiples /\ Rounded(n) >= n
      BY RoundedUp
    <2>2. Rounded(n) \in Nat
      BY <2>1 DEF Multiples
    <2> QED
      BY <2>1, <2>2
  <1>2. PICK o \in Allocations(r) :
          /\ heap' = o.heap
          /\ mapped' = o.mapped
          /\ allocated' = IF o.at = 0 THEN allocated
                          ELSE allocated \cup {Block(Payload(o.heap[o.at]), size, 16)}
    BY <1>1 DEF Malloc
  <1>3. CASE o.at = 0
    BY <1>2, <1>3, FailureKeeps
  <1>4. CASE o.at # 0
    <2>1. PICK g, m, k : g = o.heap /\ m = o.mapped /\ k = o.at
      OBVIOUS
    <2>2. /\ Tiles(g, m) /\ k \in DOMAIN g /\ ~g[k].free /\ g[k].size >= r
          /\ Others(g, k) = InUse(heap)
      BY <1>2, <1>4, <2>1, AllocationsTile DEF HeapOK, MemoryOK
    <2>3. g[k] \in ChunkRec
      BY <2>2 DEF Tiles, Chain
    <2>4. PICK b : b = Block(Payload(g[k]), size, 16)
      OBVIOUS
    <2>5. /\ b \in BlockRec /\ b.ptr = Payload(g[k]) /\ b.size = size /\ b.align = 16
      BY <2>3, <2>4, PayloadAligned DEF Block, BlockRec
    <2>6. size <= g[k].size
      BY <1>1, <2>2, <2>3 DEF ChunkRec, Multiples
    <2>7. Owned(heap, allocated)
      BY DEF HeapOK, MemoryOK
    <2>8. MemoryOK(g, m, allocated \cup {b}) /\ Promise!Apart(b, allocated)
      BY <2>2, <2>5, <2>6, <2>7, NewBlock
    <2>9. allocated' = allocated \cup {b}
      BY <1>2, <1>4, <2>1, <2>4
    <2>10. HeapOK'
      BY <1>2, <2>1, <2>8, <2>9 DEF HeapOK
    <2>11. Promise!Aligned(b)
      BY <2>3, <2>5, PayloadAligned DEF Promise!Aligned
    <2>12. Promise!Next
      BY <2>8, <2>9, <2>11 DEF Promise!Next, Promise!Allocate
    <2> QED
      BY <2>10, <2>12 DEF Kept
  <1> QED
    BY <1>3, <1>4

LEMMA AlignedAllocKeeps ==
  ASSUME HeapOK, NEW t \in Threads, aligned_alloc(t)
  PROVE  Kept
  <1>1. PICK n \in Sizes, a \in Alignments : \E o \in Allocations(Rounded(n + a + Header)) :
          /\ heap' = IF o.at = 0 THEN o.heap ELSE Shifted(o.heap, o.at, a)
          /\ mapped' = o.mapped
          /\ allocated' = IF o.at = 0 THEN allocated
                          ELSE allocated \cup {Block(Payload(heap'[o.at + 1]), n, a)}
    BY DEF aligned_alloc
  <1>2. n \in Nat /\ a \in Nat \ {0} /\ a % 16 = 0 /\ n + a + 32 <= SizeSize - 16
    BY DEF Header
  <1>3. PICK r \in Multiples : r = Rounded(n + a + Header) /\ r >= n + a + 32
    <2>1. PICK s \in Nat : s = n + a + Header /\ s = n + a + 32 /\ s <= SizeSize - 16
      BY <1>2 DEF Header
    <2>2. Rounded(s) \in Multiples /\ Rounded(s) >= s
      BY <2>1, RoundedUp
    <2> QED
      BY <2>1, <2>2
  <1>4. PICK o \in Allocations(r) :
          /\ heap' = IF o.at = 0 THEN o.heap ELSE Shifted(o.heap, o.at, a)
          /\ mapped' = o.mapped
          /\ allocated' = IF o.at = 0 THEN allocated
                          ELSE allocated \cup {Block(Payload(heap'[o.at + 1]), n, a)}
    BY <1>1, <1>3
  <1>5. CASE o.at = 0
    BY <1>4, <1>5, FailureKeeps
  <1>6. CASE o.at # 0
    <2>1. PICK h, m, k : h = o.heap /\ m = o.mapped /\ k = o.at
      OBVIOUS
    <2>2. /\ Tiles(h, m) /\ k \in DOMAIN h /\ ~h[k].free /\ h[k].size >= r
          /\ Others(h, k) = InUse(heap)
      BY <1>4, <1>6, <2>1, AllocationsTile DEF HeapOK, MemoryOK
    <2>3. PICK g, l : g = Shifted(h, k, a) /\ l = k + 1
      OBVIOUS
    <2>4. h[k].size >= n + a + 32
      <3>1. h[k] \in ChunkRec
        BY <2>2 DEF Tiles, Chain
      <3>2. h[k].size \in Nat /\ r \in Nat
        BY <3>1 DEF ChunkRec, Multiples
      <3> QED
        BY <1>2, <1>3, <2>2, <3>2
    <2>5. /\ Tiles(g, m) /\ l \in DOMAIN g /\ ~g[l].free /\ g[l].size >= n
          /\ Payload(g[l]) % a = 0 /\ Others(g, l) = Others(h, k)
      <3>1. /\ Tiles(h, m) /\ k \in DOMAIN h /\ ~h[k].free
            /\ n \in Nat /\ a \in Nat \ {0} /\ a % 16 = 0
            /\ h[k].size >= n + a + 32 /\ g = Shifted(h, k, a)
        BY <1>2, <2>2, <2>3, <2>4
      <3>2. AlignedAt(g, m, k + 1, n, a, Others(h, k))
        BY ONLY <3>1, ShiftedTiles
      <3> QED
        BY ONLY <2>3, <3>2 DEF AlignedAt
    <2>6. g[l] \in ChunkRec
      BY <2>5 DEF Tiles, Chain
    <2>7. PICK b : b = Block(Payload(g[l]), n, a)
      OBVIOUS
    <2>8. /\ b \in BlockRec /\ b.ptr = Payload(g[l]) /\ b.size = n /\ b.align = a
      BY <1>2, <2>6, <2>7, PayloadAligned DEF Block, BlockRec
    <2>9. n <= g[l].size
      BY <1>2, <2>5, <2>6 DEF ChunkRec, Multiples
    <2>10. Owned(heap, allocated) /\ Others(g, l) = InUse(heap)
      BY <2>2, <2>5 DEF HeapOK, MemoryOK
    <2>11. MemoryOK(g, m, allocated \cup {b}) /\ Promise!Apart(b, allocated)
      <3>1. /\ Owned(heap, allocated) /\ Tiles(g, m) /\ l \in DOMAIN g /\ ~g[l].free
            /\ Others(g, l) = InUse(heap)
            /\ b \in BlockRec /\ b.ptr = Payload(g[l]) /\ b.size <= g[l].size
        BY <2>5, <2>8, <2>9, <2>10
      <3> QED
        BY ONLY <3>1, NewBlock
    <2>12. heap' = g /\ mapped' = m /\ allocated' = allocated \cup {b}
      BY <1>4, <1>6, <2>1, <2>3, <2>7
    <2>13. HeapOK'
      BY <2>11, <2>12 DEF HeapOK
    <2>14. Promise!Aligned(b)
      BY <2>5, <2>8 DEF Promise!Aligned
    <2>15. Promise!Next
      BY <2>11, <2>12, <2>14 DEF Promise!Next, Promise!Allocate
    <2> QED
      BY <2>13, <2>15 DEF Kept
  <1> QED
    BY <1>5, <1>6

LEMMA FreeKeeps ==
  ASSUME HeapOK, NEW t \in Threads, free(t)
  PROVE  Kept
  <1>1. PICK b \in allocated : /\ heap' = Freed(heap, b.ptr)
                               /\ allocated' = allocated \ {b}
                               /\ mapped' = mapped
    BY DEF free
  <1>2. MemoryOK(Freed(heap, b.ptr), mapped, allocated \ {b})
    BY FreedKeeps DEF HeapOK
  <1>3. HeapOK'
    BY <1>1, <1>2 DEF HeapOK
  <1>4. Promise!Next
    BY <1>1 DEF Promise!Next, Promise!Release
  <1> QED
    BY <1>3, <1>4 DEF Kept

LEMMA ReallocKeeps ==
  ASSUME HeapOK, NEW t \in Threads, realloc(t)
  PROVE  Kept
  <1>1. PICK b \in allocated, n \in Sizes \ {0} :
         IF FitsInPlace(heap[ChunkOf(heap, b.ptr)], n)
         THEN /\ allocated' = (allocated \ {b}) \cup {Block(b.ptr, n, 16)}
              /\ UNCHANGED <<heap, mapped>>
         ELSE \E o \in Allocations(Rounded(n)) :
                /\ mapped' = o.mapped
                /\ heap' = IF o.at = 0 THEN o.heap ELSE Freed(o.heap, b.ptr)
                /\ allocated' = IF o.at = 0 THEN allocated
                                ELSE (allocated \ {b}) \cup {Block(Payload(o.heap[o.at]), n, 16)}
    BY DEF realloc
  <1>2. n \in Nat /\ n <= SizeSize - 16
    OBVIOUS
  <1>3. PICK k : k = ChunkOf(heap, b.ptr)
    OBVIOUS
  <1>4. Chain(heap) /\ Tiles(heap, mapped) /\ Owned(heap, allocated)
    BY DEF HeapOK, MemoryOK, Tiles
  <1>5. /\ k \in DOMAIN heap /\ heap[k] \in ChunkRec /\ ~heap[k].free
        /\ Payload(heap[k]) = b.ptr /\ b.size <= heap[k].size
    BY ONLY <1>3, <1>4, b \in allocated, OwnerFound
  <1>6. CASE FitsInPlace(heap[k], n)
    <2>1. PICK c : c = Block(b.ptr, n, 16)
      OBVIOUS
    <2>2. /\ c \in BlockRec /\ c.ptr = b.ptr /\ c.size = n /\ c.align = 16
          /\ c.ptr = Payload(heap[k]) /\ c.size <= heap[k].size
      BY <1>2, <1>5, <1>6, <2>1, PayloadAligned DEF Block, BlockRec, FitsInPlace
    <2>3. allocated' = (allocated \ {b}) \cup {c} /\ heap' = heap /\ mapped' = mapped
      BY <1>1, <1>3, <1>6, <2>1
    <2>4. \A x \in allocated \ {b} : x.ptr # b.ptr
      BY <1>4 DEF Owned
    <2>5. Owned(heap, (allocated \ {b}) \cup {c})
      <3>1. \A d \in InUse(heap) : \E x \in (allocated \ {b}) \cup {c} : x.ptr = Payload(d)
        BY <1>4, <2>2 DEF Owned
      <3>2. \A x \in (allocated \ {b}) \cup {c} :
              \E d \in InUse(heap) : x.ptr = Payload(d) /\ x.size <= d.size
        <4>1. heap[k] \in InUse(heap)
          BY <1>5 DEF InUse
        <4> QED
          BY <1>4, <2>2, <4>1 DEF Owned
      <3>3. \A x, y \in (allocated \ {b}) \cup {c} : x.ptr = y.ptr => x = y
        BY <1>4, <2>2, <2>4 DEF Owned
      <3> QED
        BY <1>4, <2>2, <3>1, <3>2, <3>3 DEF Owned
    <2>6. HeapOK'
      BY <1>4, <2>3, <2>5 DEF HeapOK, MemoryOK
    <2>7. Promise!Apart(c, allocated \ {b})
      <3> SUFFICES ASSUME NEW x \in allocated \ {b}
                   PROVE  c.ptr + c.size <= x.ptr \/ x.ptr + x.size <= c.ptr
        BY DEF Promise!Apart
      <3>1. PICK d \in InUse(heap) : x.ptr = Payload(d) /\ x.size <= d.size
        BY <1>4 DEF Owned
      <3>2. PICK j \in DOMAIN heap : d = heap[j]
        BY DEF InUse
      <3>3. j # k
        BY <1>5, <2>4, <3>1, <3>2
      <3>4. d \in ChunkRec
        BY <1>4, <3>2 DEF Chain
      <3>5. End(heap[k]) <= d.addr \/ End(d) <= heap[k].addr
        BY <1>4, <1>5, <3>2, <3>3, ChunksApart
      <3>6. PICK e \in ChunkRec : e = heap[k]
        BY <1>5
      <3>7. /\ d.addr \in Nat /\ d.size \in Nat /\ Payload(d) = d.addr + 32 /\ End(d) = d.addr + 32 + d.size
            /\ e.addr \in Nat /\ e.size \in Nat /\ Payload(e) = e.addr + 32 /\ End(e) = e.addr + 32 + e.size
        BY <3>4, ChunkFacts
      <3>8. x.size \in Nat /\ c.size \in Nat /\ c.size <= e.size /\ c.ptr = Payload(e)
        BY <1>2, <1>4, <2>2, <3>6 DEF Owned, BlockRec
      <3>9. End(e) <= d.addr \/ End(d) <= e.addr
        BY <3>5, <3>6
      <3> QED
        BY ONLY <3>1, <3>7, <3>8, <3>9
    <2>8. Promise!Aligned(c)
      BY <1>5, <2>2, PayloadAligned DEF Promise!Aligned
    <2>9. Promise!Next
      <3>1. c \in allocated'
        BY <2>3
      <3> QED
        BY <2>2, <2>3, <2>7, <2>8, <3>1 DEF Promise!Next, Promise!Resize
    <2> QED
      BY <2>6, <2>9 DEF Kept
  <1>7. CASE ~FitsInPlace(heap[k], n)
    <2>1. PICK r \in Multiples : r = Rounded(n) /\ r >= n
      BY <1>2, RoundedUp
    <2>2. PICK o \in Allocations(r) :
            /\ mapped' = o.mapped
            /\ heap' = IF o.at = 0 THEN o.heap ELSE Freed(o.heap, b.ptr)
            /\ allocated' = IF o.at = 0 THEN allocated
                            ELSE (allocated \ {b}) \cup {Block(Payload(o.heap[o.at]), n, 16)}
      BY <1>1, <1>3, <1>7, <2>1
    <2>3. CASE o.at = 0
      BY <2>2, <2>3, FailureKeeps
    <2>4. CASE o.at # 0
      <3>1. PICK g, m, l : g = o.heap /\ m = o.mapped /\ l = o.at
        OBVIOUS
      <3>2. /\ Tiles(g, m) /\ l \in DOMAIN g /\ ~g[l].free /\ g[l].size >= r
            /\ Others(g, l) = InUse(heap)
        BY <2>2, <2>4, <3>1, AllocationsTile DEF HeapOK, MemoryOK
      <3>3. g[l] \in ChunkRec
        BY <3>2 DEF Tiles, Chain
      <3>4. PICK c : c = Block(Payload(g[l]), n, 16)
        OBVIOUS
      <3>5. /\ c \in BlockRec /\ c.ptr = Payload(g[l]) /\ c.size = n /\ c.align = 16
        BY <1>2, <3>3, <3>4, PayloadAligned DEF Block, BlockRec
      <3>6. c.size <= g[l].size
        BY <1>2, <2>1, <3>2, <3>3, <3>5 DEF ChunkRec, Multiples
      <3>7. /\ MemoryOK(g, m, allocated \cup {c}) /\ Promise!Apart(c, allocated)
            /\ \A x \in allocated : x.ptr # c.ptr
        <4>1. /\ Owned(heap, allocated) /\ Tiles(g, m) /\ l \in DOMAIN g /\ ~g[l].free
              /\ Others(g, l) = InUse(heap)
              /\ c \in BlockRec /\ c.ptr = Payload(g[l]) /\ c.size <= g[l].size
          BY <1>4, <3>2, <3>5, <3>6
        <4> QED
          BY ONLY <4>1, NewBlock
      <3>8. PICK al : al = allocated \cup {c} /\ b \in al
        OBVIOUS
      <3>9. PICK w : w = Freed(g, b.ptr)
        OBVIOUS
      <3>10. MemoryOK(w, m, al \ {b})
        <4>1. MemoryOK(g, m, al) /\ b \in al /\ w = Freed(g, b.ptr)
          BY <3>7, <3>8, <3>9
        <4> QED
          BY ONLY <4>1, FreedKeeps
      <3>11. b.ptr # c.ptr
        BY <3>7
      <3>12. al \ {b} = (allocated \ {b}) \cup {c}
        BY <3>8, <3>11
      <3>13. heap' = w /\ mapped' = m /\ allocated' = (allocated \ {b}) \cup {c}
        BY <2>2, <2>4, <3>1, <3>4, <3>9
      <3>14. HeapOK'
        BY <3>10, <3>12, <3>13 DEF HeapOK
      <3>15. Promise!Aligned(c)
        BY <3>3, <3>5, PayloadAligned DEF Promise!Aligned
      <3>16. Promise!Next
        <4>1. c \in allocated'
          BY <3>13
        <4> QED
          BY <3>7, <3>11, <3>13, <3>15, <4>1 DEF Promise!Next, Promise!Resize
      <3> QED
        BY <3>14, <3>16 DEF Kept
    <2> QED
      BY <2>3, <2>4
  <1> QED
    BY <1>6, <1>7

\* Every step of a thread, as long as the chain is whole.
LEMMA HeapStep ==
  ASSUME HeapOK, [Next]_vars
  PROVE  Kept
  <1>1. CASE UNCHANGED memory
    BY <1>1 DEF Kept, memory, HeapOK
  <1>2. ASSUME NEW t \in Threads, Work(t) PROVE Kept
    <2>1. CASE malloc(t)
      <3>1. PICK n \in Sizes : Malloc(n, n)
        BY <2>1 DEF malloc
      <3>2. n \in Nat /\ n <= SizeSize - 16 /\ n <= n
        OBVIOUS
      <3> QED
        BY <3>1, <3>2, MallocKeeps
    <2>2. CASE calloc(t)
      <3>1. PICK x \in Products : ~Overflows(x) /\ Malloc(x[1] * x[2], (x[1] * x[2]) % SizeSize)
        BY <2>2 DEF calloc
      <3>2. PICK size, n : size = x[1] * x[2] /\ n = (x[1] * x[2]) % SizeSize
        OBVIOUS
      <3>3. size \in Nat /\ n \in Nat /\ size <= n
        BY <3>1, <3>2, ProductFits
      <3>4. n <= SizeSize - 16
        BY <3>2
      <3>5. Malloc(size, n)
        BY <3>1, <3>2
      <3> QED
        BY <3>3, <3>4, <3>5, MallocKeeps
    <2>3. CASE aligned_alloc(t)
      BY <2>3, AlignedAllocKeeps
    <2>4. CASE free(t)
      BY <2>4, FreeKeeps
    <2>5. CASE realloc(t)
      BY <2>5, ReallocKeeps
    <2> QED
      BY <1>2, <2>1, <2>2, <2>3, <2>4, <2>5 DEF Work
  <1> QED
    BY <1>1, <1>2 DEF Next, vars, Enter, Lock, BreakOpen, Begin, Blind, Leak, Unlock

\* Once torn, the chain stays torn.
LEMMA TornStays ==
  ASSUME PcOK, [Next]_vars, torn
  PROVE  torn'
  BY DEF PcOK, Next, vars, history, Enter, Lock, BreakOpen, Begin, Blind, Leak, Unlock,
         Work, malloc, calloc, aligned_alloc, free, realloc, Whole, EndEdit

-----------------------------------------------------------------------------
(***************************************************************************)
(* The lock.                                                               *)
(***************************************************************************)
LEMMA LockStep ==
  ASSUME LockOK, [Next]_vars
  PROVE  LockOK'
  <1> USE DEF LockOK, HeldAlone, EditsApart, TornMeans, Holders, Editors
  <1>1. ASSUME UNCHANGED vars PROVE LockOK'
    BY <1>1 DEF vars, history, PcOK
  <1>2. ASSUME NEW t \in Threads, Enter(t) PROVE LockOK'
    BY <1>2 DEF Enter, Go, history, PcOK
  <1>3. ASSUME NEW t \in Threads, Lock(t) PROVE LockOK'
    BY <1>3 DEF Lock, Go, history, PcOK
  <1>4. ASSUME NEW t \in Threads, BreakOpen(t) PROVE LockOK'
    BY <1>4 DEF BreakOpen, Go, PcOK
  <1>5. ASSUME NEW t \in Threads, Begin(t) PROVE LockOK'
    BY <1>5 DEF Begin, Go, PcOK
  <1>6. ASSUME NEW t \in Threads, EndEdit(t) PROVE LockOK'
    BY <1>6 DEF EndEdit, Go, history, PcOK
  <1>7. ASSUME NEW t \in Threads, Unlock(t) PROVE LockOK'
    BY <1>7 DEF Unlock, Go, history, PcOK
  <1>8. ASSUME NEW t \in Threads, Leak(t) PROVE LockOK'
    BY <1>8 DEF Leak, Go, PcOK
  <1>9. ASSUME NEW t \in Threads, Work(t) \/ Blind(t) PROVE EndEdit(t)
    BY <1>9 DEF Work, Blind, Whole, malloc, calloc, aligned_alloc, free, realloc
  <1> QED
    BY <1>1, <1>2, <1>3, <1>4, <1>5, <1>6, <1>7, <1>8, <1>9 DEF Next

-----------------------------------------------------------------------------
\* Nothing is mapped at the start, and nobody is inside.
LEMMA Initially ==
  ASSUME Init
  PROVE  MallocInv
  <1>1. Owned(<<>>, {})
    BY EmptyTiles DEF Owned
  <1>2. HeapOK
    BY <1>1, EmptyTiles DEF Init, HeapOK, MemoryOK
  <1>3. LockOK
    BY DEF Init, LockOK, PcOK, HeldAlone, EditsApart, TornMeans, Holders, Editors
  <1> QED
    BY <1>2, <1>3 DEF MallocInv

(***************************************************************************)
(* Whatever the sizes, alignments and places of the arenas, and whoever    *)
(* breaks the lock open or leaks it: until it is broken, the one who has   *)
(* it is alone; the chain is torn only once it was broken or leaked; and   *)
(* until it is torn, a call has it to itself, its chunks tile what mmap    *)
(* gave, and each in use is one caller's block, at least as big as asked   *)
(* (malloc_lock, malloc_nolock and free_nolock of malloc.c).               *)
(***************************************************************************)
THEOREM MallocInvariance == Spec => []MallocInv
  <1>1. Init => MallocInv
    BY Initially
  <1>2. MallocInv /\ [Next]_vars => MallocInv'
    BY HeapStep, TornStays, LockStep DEF MallocInv, LockOK, Kept
  <1> QED
    BY <1>1, <1>2, PTL DEF Spec

(***************************************************************************)
(* Until the watchdog breaks it open, the lock excludes: one thread at     *)
(* most has taken it and not released it.                                  *)
(***************************************************************************)
THEOREM MallocLockExcludes == Spec => []LockExcludes
  <1>1. MallocInv => LockExcludes
    BY DEF MallocInv, LockOK, HeldAlone, LockExcludes
  <1> QED
    BY <1>1, MallocInvariance, PTL

\* What TypeOK says of the chain, from the bytes that the chunks hold.
LEMMA GranulesAgree ==
  ASSUME Tiles(heap, mapped)
  PROVE  UNION {Granules(heap[k].addr, Header + heap[k].size) : k \in DOMAIN heap}
           = UNION {Granules(m.addr, m.size) : m \in mapped}
  <1>1. ASSUME NEW k \in DOMAIN heap, NEW x
        PROVE  x \in Granules(heap[k].addr, Header + heap[k].size)
                 <=> x \in Nat /\ x % 16 = 0 /\ Holds(heap[k], x)
    <2>1. PICK c \in ChunkRec : c = heap[k]
      BY DEF Tiles, Chain
    <2>2. c.addr \in Nat /\ c.size \in Nat /\ End(c) = c.addr + 32 + c.size
      BY ChunkFacts
    <2>3. x \in c.addr .. c.addr + (32 + c.size) - 1
            <=> x \in Nat /\ c.addr <= x /\ x < c.addr + 32 + c.size
      BY <2>2
    <2> QED
      BY <2>1, <2>2, <2>3 DEF Granules, Holds, Header
  <1>2. ASSUME NEW m \in mapped, NEW x
        PROVE  x \in Granules(m.addr, m.size)
                 <=> x \in Nat /\ x % 16 = 0 /\ m.addr <= x /\ x < m.addr + m.size
    <2>1. m.addr \in Nat /\ m.size \in Nat
      BY DEF Tiles
    <2>2. x \in m.addr .. m.addr + m.size - 1
            <=> x \in Nat /\ m.addr <= x /\ x < m.addr + m.size
      BY <2>1
    <2> QED
      BY <2>2 DEF Granules
  <1>3. ASSUME NEW x
        PROVE  (\E k \in DOMAIN heap : x \in Granules(heap[k].addr, Header + heap[k].size))
                 <=> \E m \in mapped : x \in Granules(m.addr, m.size)
    <2>1. CASE x \in Nat /\ x % 16 = 0
      <3>1. Lies(heap, x) <=> Maps(mapped, x)
        BY <2>1 DEF Tiles
      <3> QED
        BY <1>1, <1>2, <2>1, <3>1 DEF Lies, Maps
    <2>2. CASE ~(x \in Nat /\ x % 16 = 0)
      BY <1>1, <1>2, <2>2
    <2> QED
      BY <2>1, <2>2
  <1> QED
    BY <1>3

(***************************************************************************)
(* TypeOK: unless it is torn, the chain tiles what mmap gave and its       *)
(* chunks in use are the callers' blocks.                                  *)
(***************************************************************************)
THEOREM MallocTypeCorrect == Spec => []TypeOK
  <1>1. MallocInv /\ ~torn => TilesMapped /\ OwnedByCallers
    <2> SUFFICES ASSUME MallocInv, ~torn PROVE TilesMapped /\ OwnedByCallers
      OBVIOUS
    <2>1. Chain(heap) /\ Tiles(heap, mapped) /\ Owned(heap, allocated)
      BY DEF MallocInv, HeapOK, MemoryOK, Tiles
    <2>2. \A k \in DOMAIN heap : heap[k].size >= 0 /\ heap[k].addr % 16 = 0
      <3> SUFFICES ASSUME NEW k \in DOMAIN heap
                   PROVE  heap[k].size >= 0 /\ heap[k].addr % 16 = 0
        OBVIOUS
      <3>1. PICK c \in ChunkRec : c = heap[k]
        BY <2>1 DEF Chain
      <3>2. c.size >= 0 /\ c.addr % 16 = 0
        BY DEF ChunkRec, Multiples
      <3> QED
        BY <3>1, <3>2
    <2>3. \A k, l \in DOMAIN heap : k # l =>
            End(heap[k]) <= heap[l].addr \/ End(heap[l]) <= heap[k].addr
      BY <2>1, ChunksApart
    <2>4. UNION {Granules(heap[k].addr, Header + heap[k].size) : k \in DOMAIN heap}
            = UNION {Granules(m.addr, m.size) : m \in mapped}
      BY <2>1, GranulesAgree
    <2>5. {Payload(heap[k]) : k \in {l \in DOMAIN heap : ~heap[l].free}}
            = {b.ptr : b \in allocated}
      BY <2>1 DEF Owned, InUse
    <2>6. \A b \in allocated : heap[ChunkOf(heap, b.ptr)].size >= b.size
      <3> SUFFICES ASSUME NEW b \in allocated PROVE heap[ChunkOf(heap, b.ptr)].size >= b.size
        OBVIOUS
      <3>1. PICK k : k = ChunkOf(heap, b.ptr)
        OBVIOUS
      <3>2. heap[k] \in ChunkRec /\ b.size <= heap[k].size
        BY ONLY <2>1, <3>1, b \in allocated, OwnerFound
      <3>3. b.size \in Nat /\ heap[k].size \in Nat
        BY <2>1, <3>2 DEF Owned, BlockRec, ChunkRec, Multiples
      <3> QED
        BY <3>1, <3>2, <3>3
    <2> QED
      BY <2>2, <2>3, <2>4, <2>5, <2>6 DEF TilesMapped, OwnedByCallers
  <1>2. MallocInv => TypeOK
    BY <1>1 DEF TypeOK, MallocInv, LockOK, PcOK
  <1> QED
    BY <1>2, MallocInvariance, PTL

(***************************************************************************)
(* malloc.c implements Heap, with any number of threads and leaks, until   *)
(* the chain is torn: a block handed out lies apart from every other,      *)
(* aligned, and stays until its owner frees or resizes it.                 *)
(***************************************************************************)
THEOREM MallocImplementsHeap == Spec => ImplementsHeap
  <1>1. Init => Promise!Init
    BY DEF Init, Promise!Init
  <1>2. MallocInv /\ [Next]_vars => [torn' \/ Promise!Next]_allocated
    BY HeapStep, TornStays DEF MallocInv, LockOK, Kept
  <1> QED
    BY <1>1, <1>2, MallocInvariance, PTL DEF Spec, ImplementsHeap
=============================================================================
