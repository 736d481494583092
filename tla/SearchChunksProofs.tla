-------------------------- MODULE SearchChunksProofs --------------------------
(***************************************************************************)
(* Proofs about SearchChunks, for chunks of every size and in either byte  *)
(* order: no routine loads from a granule that it may not, and each of     *)
(* them takes only the steps that Search allows.                           *)
(***************************************************************************)
EXTENDS SearchChunks, SimdProofs

-----------------------------------------------------------------------------
\* Bytes and granules.

\* F is the first byte of C from address p on.
IsFirst(F, p, C) == /\ F \in DOMAIN mem /\ F \in Nat /\ p <= F /\ mem[F] \in C
                    /\ \A x \in DOMAIN mem : x >= p /\ mem[x] \in C => F <= x

LEMMA FirstIs ==
    ASSUME mem \in Memories, NEW a \in Nat, NEW C, \E x \in DOMAIN mem : x >= a /\ mem[x] \in C
    PROVE  IsFirst(First(a, C), a, C)
<1> DEFINE T == {x \in DOMAIN mem : x >= a /\ mem[x] \in C}
<1>1. DOMAIN mem \subseteq Nat
  <2>1. PICK n \in DOMAIN mem : DOMAIN mem = 0 .. n
    BY MemoriesAssumption
  <2>. QED
    BY <2>1
<1>2. T \subseteq Nat /\ T # {}
  BY <1>1
<1>3. Min(T) \in T /\ \A y \in T : Min(T) <= y
  BY <1>2, MinExists
<1>4. First(a, C) = Min(T)
  BY DEF First
<1>. QED
  BY <1>1, <1>3, <1>4 DEF IsFirst

\* The first chunk.
LEMMA HeadIs ==
    ASSUME NEW p \in Nat
    PROVE  /\ p - (p % W) \in Nat /\ (p - (p % W)) % W = 0
           /\ p - (p % W) <= p /\ p < (p - (p % W)) + W
<1> DEFINE r == p % W
<1>1. p = W * (p \div W) + r /\ p \div W \in Int /\ r \in 0 .. (W - 1)
  BY WAssumption, DivMod
<1>2. p \div W >= 0
  BY <1>1, WAssumption
<1>3. W * (p \div W) \in Nat
  BY <1>1, <1>2, WAssumption
<1>4. (p - r) % W = 0
  BY WAssumption, ModOfAligned
<1>. QED
  BY <1>1, <1>3, <1>4, WAssumption

\* A chunk of which a later byte is in memory is in it.
LEMMA InMemory ==
    ASSUME mem \in Memories, NEW a \in Nat, a % W = 0, NEW x \in DOMAIN mem, a <= x,
           NEW g \in Lanes
    PROVE  a + g \in DOMAIN mem
<1>1. PICK n \in DOMAIN mem : DOMAIN mem = 0 .. n /\ (n + 1) % W = 0
  BY MemoriesAssumption
<1>2. n \in Nat /\ x \in 0 .. n /\ W \in Nat /\ W > 0 /\ g \in 0 .. (W - 1)
  <2>1. n \in 0 .. n
    BY <1>1
  <2>2. n \in Nat
    BY <2>1
  <2>. QED
    BY <1>1, <2>2, WAssumption DEF Lanes
<1>3. SUFFICES ASSUME a + g > n PROVE FALSE
  BY <1>1, <1>2
<1>4. n + 1 <= (a + g) - ((a + g) % W)
  <2>1. n + 1 \in Int /\ a + g \in Int /\ n + 1 <= a + g
    BY <1>2, <1>3
  <2>. QED
    BY <1>1, <1>2, <2>1, Chunks
<1>5. (a + g) % W = g
  <2>1. a = W * (a \div W) + 0 /\ a \div W \in Int
    BY <1>2, DivMod
  <2>2. a + g = W * (a \div W) + g /\ a + g \in Int
    BY <1>2, <2>1
  <2>. QED
    BY <1>2, <2>1, <2>2, DivModIs
<1>. QED
  BY <1>2, <1>4, <1>5

\* What the loop of a routine does with the chunk at a, if p is the pointer and F
\* the first byte of C: it passes over a chunk without one, and stops at F.
LEMMA ChunkPassed ==
    ASSUME NEW p, NEW C, NEW F, IsFirst(F, p, C),
           NEW a \in Int, a <= F, ChunkClean(mem, a, C)
    PROVE  a + W <= F
<1>3. F \in Int /\ mem[F] \in C
  BY DEF IsFirst
<1>1. SUFFICES ASSUME F < a + W PROVE FALSE
  BY <1>3, WAssumption
<1>2. F - a \in Lanes /\ a + (F - a) = F
  BY <1>1, <1>3, WAssumption DEF Lanes
<1>. QED
  BY <1>2, <1>3 DEF ChunkClean

LEMMA ChunkStops ==
    ASSUME mem \in Memories, NEW p \in Nat, NEW C, NEW F, IsFirst(F, p, C),
           NEW a \in Nat, a % W = 0, p <= a, a <= F,
           NEW f \in Lanes, Leads(mem, a, f, C)
    PROVE  F = a + f
<1>1. F \in DOMAIN mem /\ F \in Nat /\ mem[F] \in C
  BY DEF IsFirst
<1>2. a + f \in DOMAIN mem /\ f \in 0 .. (W - 1) /\ W \in Nat
  BY <1>1, InMemory, WAssumption DEF Lanes
<1>3. F <= a + f
  BY <1>2 DEF IsFirst, Leads
<1>4. SUFFICES ASSUME F < a + f PROVE FALSE
  BY <1>1, <1>2, <1>3
<1>5. F - a \in 0 .. (f - 1) /\ a + (F - a) = F
  BY <1>1, <1>2, <1>4
<1>. QED
  BY <1>1, <1>5 DEF Leads

LEMMA HeadPassed ==
    ASSUME NEW p \in Nat, NEW C, NEW F, IsFirst(F, p, C), HeadClean(mem, p, C)
    PROVE  (p - (p % W)) + W <= F
<1>1. p % W \in 0 .. (W - 1) /\ W \in Nat /\ F \in Nat /\ mem[F] \in C /\ p <= F
  BY WAssumption, DivMod DEF IsFirst
<1>2. SUFFICES ASSUME F < (p - (p % W)) + W PROVE FALSE
  BY <1>1
<1>3. F - p \in 0 .. ((W - 1) - (p % W)) /\ p + (F - p) = F
  BY <1>1, <1>2
<1>. QED
  BY <1>1, <1>3 DEF HeadClean

LEMMA HeadStops ==
    ASSUME mem \in Memories, NEW p \in Nat, NEW C, NEW F, IsFirst(F, p, C),
           NEW f \in 0 .. ((W - 1) - (p % W)), Leads(mem, p, f, C)
    PROVE  F = p + f
<1> DEFINE Y == p - (p % W)
<1>1. Y \in Nat /\ Y % W = 0 /\ Y <= p /\ p < Y + W
  BY HeadIs
<1>2. F \in DOMAIN mem /\ F \in Nat /\ mem[F] \in C /\ p <= F
  BY DEF IsFirst
<1>3. f \in Nat /\ f <= (W - 1) - (p - Y) /\ W \in Nat
  <2>1. p % W \in 0 .. (W - 1) /\ W \in Nat
    BY DivMod, WAssumption
  <2>. QED
    BY <2>1
<1> HIDE DEF Y
<1>4. p + f \in DOMAIN mem
  <2>1. (p - Y) + f \in Lanes /\ Y <= F /\ Y + ((p - Y) + f) = p + f
    BY <1>1, <1>2, <1>3 DEF Lanes
  <2>. QED
    BY <1>1, <1>2, <2>1, InMemory
<1>5. F <= p + f
  BY <1>3, <1>4 DEF IsFirst, Leads
<1>6. SUFFICES ASSUME F < p + f PROVE FALSE
  BY <1>2, <1>3, <1>5
<1>7. F - p \in 0 .. (f - 1) /\ p + (F - p) = F
  BY <1>2, <1>3, <1>6
<1>. QED
  BY <1>2, <1>7 DEF Leads

\* A chunk no further than F's is one that may be loaded.
LEMMA MayLoad ==
    ASSUME NEW p \in Nat, NEW F \in Nat, NEW a \in Int, a % W = 0, p - (p % W) <= a, a <= F
    PROVE  Chunk(a, W) \subseteq Granules(p, F, W)
<1>1. a <= F - (F % W) /\ W \in Nat
  BY Chunks, WAssumption
<1>2. p % W \in Int /\ F % W \in Int
  BY DivMod, WAssumption
<1>. QED
  BY <1>1, <1>2 DEF Chunk, Granules

-----------------------------------------------------------------------------
\* strlen.

\* The operators of the instance are those of the modules it extends.
LEMMA StrlenNames ==
    /\ strlen!Lanes = Lanes
    /\ \A m, a : strlen!ld1(m, a) = ld1(m, a)
    /\ \A m, a, b : strlen!ldrq(m, a, b) = ldrq(m, a, b)
    /\ \A v, c : strlen!cmeq(v, c) = cmeq(v, c)
    /\ \A V : strlen!shrn(V) = shrn(V) /\ strlen!addhn(V) = addhn(V)
    /\ \A X, n : strlen!lsr(X, n) = lsr(X, n)
    /\ \A X : strlen!clz(X) = clz(X) /\ strlen!rbit(X) = rbit(X)
    /\ \A a, C : strlen!First(a, C) = First(a, C)
    /\ \A l, h, g : strlen!Granules(l, h, g) = Granules(l, h, g)
    /\ \A a, n : strlen!Chunk(a, n) = Chunk(a, n) /\ strlen!Aligned(a, n) = Aligned(a, n)
  BY DEF strlen!Lanes, strlen!ld1, strlen!ldrq, strlen!cmeq, strlen!shrn, strlen!addhn,
         strlen!lsr, strlen!clz, strlen!rbit, strlen!First, strlen!Granules, strlen!Chunk,
         strlen!Aligned, strlen!AllOnes, strlen!Max, strlen!Min, strlen!XBits,
         Lanes, ld1, ldrq, cmeq, shrn, addhn, lsr, clz, rbit, First, Granules, Chunk,
         Aligned, AllOnes, Max, Min, XBits

\* The arguments of a call.
GivenOK == mem \in Memories /\ srcin \in Pointers /\ big \in BOOLEAN
SameGiven == mem' = mem /\ srcin' = srcin /\ big' = big

LEMMA FirstSame ==
    ASSUME SameGiven, NEW C
    PROVE  First(srcin, C)' = First(srcin, C)
  BY DEF SameGiven, First

\* The first byte that is looked for, from the pointer on.
LEMMA ByteIs ==
    ASSUME GivenOK, NEW C, NEW c \in C, c \in Chars \cup {0}
    PROVE  srcin \in Nat /\ IsFirst(First(srcin, C), srcin, C)
<1>1. PICK x \in DOMAIN mem : x >= srcin /\ mem[x] = c
  BY EndsAssumption DEF GivenOK
<1>2. srcin \in Nat /\ mem \in Memories
  BY PointersAssumption DEF GivenOK
<1>3. mem[x] \in C
  BY <1>1
<1>. QED
  BY <1>1, <1>2, <1>3, FirstIs

LEMMA StrlenInv ==
    ASSUME GivenOK, strlen!IInv, strlen!Next
    PROVE  strlen!IInv'
<1> DEFINE F == First(srcin, {0})
<1>1. srcin \in Nat /\ IsFirst(F, srcin, {0}) /\ F \in Nat /\ srcin <= F
  BY ByteIs DEF IsFirst
<1>2. mem \in Memories /\ big \in BOOLEAN
  BY DEF GivenOK
<1>3. SameGiven
  BY DEF SameGiven, strlen!Next, strlen!Entry, strlen!Next16, strlen!Loop, strlen!LoopHalf,
         strlen!LoopEnd, strlen!given
<1>4. F' = F /\ F \in Int
  BY <1>1, <1>3, FirstSame
<1> HIDE DEF F
<1>5. strlen!Length = F - srcin /\ strlen!Length' = F - srcin
  BY <1>3, <1>4 DEF strlen!Length, strlen!First, strlen!Min, First, Min, F, SameGiven
<1> DEFINE Y == srcin - (srcin % W)
<1>6. Y \in Nat /\ Y % W = 0 /\ Y <= srcin /\ srcin < Y + W
  BY <1>1, HeadIs
<1>7. W \in Nat /\ W > 0
  BY WAssumption
<1>8. /\ src \in Nat /\ src % W = 0 /\ Y <= src
      /\ pc = "entry" => src = Y
      /\ pc \in {"next16", "loop_half"} => src + W <= F
      /\ pc = "loop" => src + 2 * W <= F
      /\ pc = "loop_end" => /\ srcin <= src /\ src <= F
                            /\ vdata = ldrq(mem, src, big)
                            /\ \E i \in Lanes : mem[src + i] = 0
  BY <1>1, <1>4, <1>5, StrlenNames DEF strlen!IInv, Aligned
<1>9. (src + W) % W = 0 /\ (src + 2 * W) % W = 0
  <2>1. (src + W) % W = 0
    BY <1>7, <1>8, ModPlus
  <2>2. ((src + W) + W) % W = 0
    BY <1>7, <1>8, <2>1, ModPlus
  <2>. QED
    BY <1>7, <1>8, <2>1, <2>2
<1>10. ASSUME NEW a \in Nat, a % W = 0, Y <= a, a <= F, rd' = Chunk(a, W)
       PROVE  strlen!Footprint'
  <2>1. Chunk(a, W) \subseteq Granules(srcin, F, W)
    BY <1>1, <1>10, MayLoad
  <2>2. srcin' + (F - srcin) = F
    BY <1>1, <1>3, <1>4 DEF SameGiven
  <2>. QED
    BY <1>3, <1>5, <1>10, <2>1, <2>2, StrlenNames DEF strlen!Footprint, SameGiven, Granules
<1> DEFINE Rest == /\ src' \in Nat /\ src' % W = 0 /\ Y <= src'
                   /\ pc' \in {"next16", "loop", "loop_half", "loop_end", "ret"}
                   /\ pc' \in {"next16", "loop_half"} => src' + W <= F
                   /\ pc' = "loop" => src' + 2 * W <= F
                   /\ pc' = "loop_end" => /\ srcin <= src' /\ src' <= F
                                          /\ vdata' = ldrq(mem, src', big)
                                          /\ \E i \in Lanes : mem[src' + i] = 0
                   /\ pc' = "ret" => result' = F - srcin
<1>11. ASSUME Rest, strlen!Footprint' PROVE strlen!IInv'
  <2>1. srcin + (F - srcin) = F
    BY <1>1, <1>4
  <2>. QED
    BY <1>3, <1>5, <1>11, <2>1, StrlenNames DEF strlen!IInv, SameGiven, Aligned
<1> HIDE DEF Y
<1>12. CASE strlen!Entry
  <2> DEFINE X == lsr(Quads(Having(ld1(mem, Y), {0})), 4 * srcin)
  <2>1. /\ pc = "entry" /\ src = Y /\ src' = Y
        /\ rd' = Chunk(Y, W)
        /\ vdata' = ld1(mem, Y)
    BY <1>8, <1>12, StrlenNames DEF strlen!Entry, strlen!Ld1
  <2>2. shrn(cmeq(ld1(mem, Y), 0)) = Quads(Having(ld1(mem, Y), {0}))
    BY cmeqIs, shrnMask
  <2>3. IF X = {} THEN pc' = "next16" ELSE pc' = "ret" /\ result' = clz(rbit(X)) \div 4
    BY <1>12, <2>1, <2>2, StrlenNames DEF strlen!Entry, strlen!vhas_nul
  <2>4. X = {} <=> HeadClean(mem, srcin, {0})
    BY <1>1, ld1Empty DEF Y, Quads
  <2>5. strlen!Footprint'
    BY <1>1, <1>6, <1>10, <2>1
  <2>6. CASE X = {}
    <3>1. Y + W <= F
      BY <1>1, <2>4, <2>6, HeadPassed DEF Y
    <3>. QED
      BY <1>6, <1>11, <2>1, <2>3, <2>5, <2>6, <3>1
  <2>7. CASE X # {}
    <3> DEFINE f == clz(rbit(X))
    <3>1. /\ f \div 4 \in 0 .. ((W - 1) - (srcin % W))
          /\ Leads(mem, srcin, f \div 4, {0} \cup {0})
      <4>1. X = lsr(Pairs(Having(ld1(mem, srcin - (srcin % W)), {0}),
                          Having(ld1(mem, srcin - (srcin % W)), {0})), 4 * srcin)
        BY DEF Quads, Y
      <4> HIDE DEF X
      <4>2. srcin \in Int /\ f = clz(rbit(X))
        BY <1>1
      <4> HIDE DEF f
      <4>3. Leads(mem, srcin, f \div 4, {0} \cup {0})
        BY <2>7, <4>1, <4>2, ld1First
      <4>4. f \div 4 \in 0 .. ((W - 1) - (srcin % W))
        BY <2>7, <4>1, <4>2, ld1First
      <4>. QED
        BY <4>3, <4>4
    <3> HIDE DEF X, f
    <3>2. F = srcin + (f \div 4)
      BY <1>1, <1>2, <3>1, HeadStops
    <3>3. result' = f \div 4 /\ pc' = "ret"
      BY <2>3, <2>7 DEF f
    <3>4. f \div 4 \in Int
      BY <3>1
    <3>. QED
      BY <1>1, <1>6, <1>11, <2>1, <2>5, <3>2, <3>3, <3>4
  <2>. QED
    BY <2>6, <2>7
<1>13. CASE strlen!Next16
  <2> DEFINE a == src + W
             X == Quads(Having(ldrq(mem, a, big), {0}))
  <2>8. pc = "next16" /\ rd' = Chunk(a, W) /\ vdata' = ldrq(mem, a, big)
    BY <1>13, StrlenNames DEF strlen!Next16, strlen!LdrQ
  <2>1. a \in Nat /\ a % W = 0 /\ Y <= a /\ srcin <= a /\ a <= F
    BY <1>1, <1>6, <1>7, <1>8, <1>9, <2>8
  <2>9. a + W = src + 2 * W
    BY <1>7, <1>8
  <2>2. shrn(cmeq(ldrq(mem, a, big), 0)) = X
    BY cmeqIs, shrnMask
  <2>3. IF X = {} THEN pc' = "loop" /\ src' = src
        ELSE /\ pc' = "ret" /\ src' = a
             /\ result' = (a - srcin) + (clz(IF big THEN X ELSE rbit(X)) \div 4)
    BY <1>13, <2>8, <2>2, StrlenNames DEF strlen!Next16, strlen!vhas_nul, strlen!FirstOf
  <2> HIDE DEF a
  <2>4. X = {} <=> ChunkClean(mem, a, {0})
    BY <1>2, <2>1, QuadsEmpty, ldrqClean
  <2>5. strlen!Footprint'
    BY <1>10, <2>1, <2>8
  <2>6. CASE X = {}
    <3>1. a + W <= F
      BY <1>4, <1>1, <2>1, <2>4, <2>6, ChunkPassed
    <3>. QED
      BY <1>7, <1>8, <1>11, <2>3, <2>5, <2>6, <2>9, <3>1
  <2>7. CASE X # {}
    <3> DEFINE f == clz(IF big THEN X ELSE rbit(X)) \div 4
    <3>1. f \in Lanes /\ Leads(mem, a, f, {0})
      BY <1>2, <2>1, <2>4, <2>7, QuadsFirst
    <3>2. result' = (a - srcin) + f /\ pc' = "ret" /\ src' = a
      BY <2>3, <2>7
    <3> HIDE DEF X, f
    <3>5. a \in Nat /\ a % W = 0 /\ srcin <= a /\ a <= F
      BY <2>1
    <3>3. F = a + f
      BY <1>1, <1>2, <3>1, <3>5, ChunkStops
    <3>4. f \in Int
      BY <3>1 DEF Lanes
    <3>. QED
      BY <1>1, <1>11, <2>1, <2>5, <3>2, <3>3, <3>4
  <2>. QED
    BY <2>6, <2>7
<1>14. ASSUME NEW a \in Nat, a % W = 0, Y <= a, srcin <= a, a <= F, vdata' = ldrq(mem, a, big)
       PROVE  /\ strlen!synd(vdata') = {} <=> ChunkClean(mem, a, {0})
              /\ strlen!synd(vdata') = {} => a + W <= F
              /\ strlen!synd(vdata') # {} => \E i \in Lanes : mem[a + i] = 0
  <2> DEFINE M == Having(ldrq(mem, a, big), {0})
  <2>1. strlen!synd(vdata') = Narrow(M)
    BY <1>14, cmeqIs, addhnMask, StrlenNames DEF strlen!synd, strlen!vhas_nul, Having
  <2>2. M = {} <=> ChunkClean(mem, a, {0})
    BY <1>2, <1>14, ldrqClean
  <2>3. Narrow(M) = {} <=> M = {}
    BY NarrowEmpty DEF Having
  <2>4. ChunkClean(mem, a, {0}) => a + W <= F
    BY <1>4, <1>1, <1>14, ChunkPassed
  <2>. QED
    BY <2>1, <2>2, <2>3, <2>4 DEF ChunkClean
<1>15. CASE strlen!Loop
  <2> DEFINE a == src + 2 * W
  <2>1. /\ pc = "loop" /\ rd' = Chunk(a, W) /\ vdata' = ldrq(mem, a, big)
        /\ src' = a /\ pc' = IF strlen!synd(vdata') = {} THEN "loop_half" ELSE "loop_end"
    BY <1>15, StrlenNames DEF strlen!Loop, strlen!LdrQ
  <2>2. a \in Nat /\ a % W = 0 /\ Y <= a /\ srcin <= a /\ a <= F
    BY <1>1, <1>6, <1>7, <1>8, <1>9, <2>1
  <2> HIDE DEF a
  <2>3. strlen!Footprint'
    BY <1>10, <2>1, <2>2
  <2>. QED
    BY <1>11, <1>14, <2>1, <2>2, <2>3
<1>16. CASE strlen!LoopHalf
  <2> DEFINE a == src + W
  <2>1. /\ pc = "loop_half" /\ rd' = Chunk(a, W) /\ vdata' = ldrq(mem, a, big)
        /\ IF strlen!synd(vdata') = {} THEN pc' = "loop" /\ src' = src
           ELSE pc' = "loop_end" /\ src' = a
    BY <1>16, StrlenNames DEF strlen!LoopHalf, strlen!LdrQ
  <2>2. a \in Nat /\ a % W = 0 /\ Y <= a /\ srcin <= a /\ a <= F /\ a + W = src + 2 * W
    BY <1>1, <1>6, <1>7, <1>8, <1>9, <2>1
  <2> HIDE DEF a
  <2>3. strlen!Footprint'
    BY <1>10, <2>1, <2>2
  <2>. QED
    BY <1>8, <1>11, <1>14, <2>1, <2>2, <2>3
<1>17. CASE strlen!LoopEnd
  <2> DEFINE X == Narrow(Having(ldrq(mem, src, big), {0}))
             c == clz(IF big THEN X ELSE rbit(X))
             f == (c + (IF big THEN 0 ELSE 3)) \div 4
  <2>1. /\ pc = "loop_end" /\ pc' = "ret" /\ rd' = {} /\ src' = src
        /\ vdata = ldrq(mem, src, big) /\ ~ChunkClean(mem, src, {0})
    BY <1>8, <1>17 DEF strlen!LoopEnd, ChunkClean
  <2>2. strlen!synd(vdata) = X
    BY <2>1, cmeqIs, addhnMask, StrlenNames DEF strlen!synd, strlen!vhas_nul, Having
  <2>3. result' = (c - (IF big THEN 4 * (srcin - src) ELSE 4 * (srcin - src) - 3)) \div 4
    BY <1>17, <2>2, StrlenNames DEF strlen!LoopEnd, strlen!FirstOf, strlen!Biased
  <2>4. f \in Lanes /\ Leads(mem, src, f, {0})
    BY <1>2, <1>8, <2>1, NarrowFirst
  <2>5. c \in Int
    <3>2. Having(ldrq(mem, src, big), {0}) \in SUBSET Lanes
      BY DEF Having
    <3>3. Having(ldrq(mem, src, big), {0}) # {}
      BY <1>2, <1>8, <2>1, ldrqClean
    <3>1. X \in SUBSET XBits /\ X # {}
      BY <3>2, <3>3, NarrowEmpty
    <3>. QED
      BY <3>1, clzIs, clzRbitIs DEF XBits
  <2> HIDE DEF c, X
  <2>6. result' = f + (src - srcin)
    BY <1>1, <1>2, <1>8, <2>3, <2>5
  <2> HIDE DEF f
  <2>7. F = src + f
    BY <1>1, <1>2, <1>8, <2>1, <2>4, ChunkStops
  <2>8. f \in Int
    BY <2>4 DEF Lanes
  <2>9. strlen!Footprint'
    BY <2>1 DEF strlen!Footprint
  <2>. QED
    BY <1>1, <1>8, <1>11, <2>1, <2>6, <2>7, <2>8, <2>9
<1>. QED
  BY <1>12, <1>13, <1>15, <1>16, <1>17 DEF strlen!Next

-----------------------------------------------------------------------------
\* memchr and strnlen.

LEMMA MemchrNames ==
    /\ memchr!Lanes = Lanes
    /\ \A m, a : memchr!ld1(m, a) = ld1(m, a)
    /\ \A m, a, b : memchr!ldrq(m, a, b) = ldrq(m, a, b)
    /\ \A v, c : memchr!cmeq(v, c) = cmeq(v, c)
    /\ \A V : memchr!shrn(V) = shrn(V) /\ memchr!fmov(V) = fmov(V)
    /\ \A U, V : memchr!umaxp(U, V) = umaxp(U, V)
    /\ \A X, n : memchr!lsr(X, n) = lsr(X, n)
    /\ \A X : memchr!clz(X) = clz(X) /\ memchr!rbit(X) = rbit(X)
    /\ \A a, C : memchr!First(a, C) = First(a, C)
    /\ \A l, h, g : memchr!Granules(l, h, g) = Granules(l, h, g)
    /\ \A a, n : memchr!Chunk(a, n) = Chunk(a, n) /\ memchr!Aligned(a, n) = Aligned(a, n)
                 /\ memchr!AtMost(a, n) = AtMost(a, n)
  BY DEF memchr!Lanes, memchr!ld1, memchr!ldrq, memchr!cmeq, memchr!shrn, memchr!fmov,
         memchr!umaxp, memchr!lsr, memchr!clz, memchr!rbit, memchr!First, memchr!Granules,
         memchr!Chunk, memchr!Aligned, memchr!AllOnes, memchr!Max, memchr!Min, memchr!XBits,
         memchr!AtMost, memchr!Pairwise, memchr!LargerByte, memchr!SymmetricDiff,
         Lanes, ld1, ldrq, cmeq, shrn, fmov, umaxp, lsr, clz, rbit, First, Granules, Chunk,
         Aligned, AllOnes, Max, Min, XBits, AtMost, Pairwise, LargerByte, SymmetricDiff

CharOK == chrin \in Chars \cup {0}
CountOK == cntin \in 0 .. (Size - 1) /\ Size \in Nat

\* What a routine does with a vector of which the lanes with a byte of C matter.
LEMMA Compared ==
    ASSUME NEW v, NEW c
    PROVE  /\ shrn(cmeq(v, c)) = Quads(Having(v, {c}))
           /\ fmov(umaxp(cmeq(v, c), cmeq(v, c))) = {} <=> Having(v, {c}) = {}
           /\ Quads(Having(v, {c})) = {} <=> Having(v, {c}) = {}
<1>1. Having(v, {c}) \in SUBSET Lanes
  BY DEF Having
<1>. QED
  BY <1>1, cmeqIs, shrnMask, FoundMask, QuadsEmpty

\* A syndrome without a bit set counts as one past the chunk.
LEMMA FirstOfNone ==
    clz({}) \div 4 = W /\ rbit({}) = {}
  BY WAssumption DEF clz, rbit

LEMMA MemchrInv ==
    ASSUME GivenOK, CharOK, CountOK, routine \in Memchrs, memchr!IInv, memchr!Next
    PROVE  memchr!IInv'
<1> DEFINE F == First(srcin, {chrin})
           E == srcin + cntin
           Y == srcin - (srcin % W)
           K(k) == IF routine = "memchr" THEN (IF cntin > k THEN srcin + k ELSE 0)
                   ELSE (IF cntin <= k THEN cntin ELSE k)
           A == IF routine = "memchr" THEN (IF F < E THEN F ELSE 0)
                ELSE (IF F - srcin < cntin THEN F - srcin ELSE cntin)
           L == IF F < E - 1 THEN F ELSE E - 1
           Halves(a, c) == /\ (E - 1) - a >= 0 /\ (((E - 1) - a) \div W) % 2 = 0
                           /\ c = (E - 1) - a \/ c = ((E - 1) - a) + W
<1>1. srcin \in Nat /\ IsFirst(F, srcin, {chrin}) /\ F \in Nat /\ srcin <= F
  BY ByteIs DEF IsFirst, CharOK
<1>2. mem \in Memories /\ big \in BOOLEAN /\ cntin \in Nat /\ cntin < Size /\ Size \in Nat
  BY DEF GivenOK, CountOK
<1>3. SameGiven /\ chrin' = chrin /\ cntin' = cntin /\ routine' = routine
  BY DEF SameGiven, memchr!Next, memchr!ZeroLength, memchr!Entry, memchr!StartLoop,
         memchr!Loop32, memchr!Loop32_2, memchr!End, memchr!given, memchr!args
<1>4. F' = F /\ E \in Nat /\ E' = E
  BY <1>1, <1>2, <1>3, FirstSame DEF SameGiven
<1>5. memchr!Match = F /\ memchr!Match' = F
  BY <1>3, <1>4 DEF memchr!Match, memchr!First, memchr!Min, First, Min, SameGiven
<1>6. Y \in Nat /\ Y % W = 0 /\ Y <= srcin /\ srcin < Y + W
  BY <1>1, HeadIs
<1>7. W \in Nat /\ W > 0
  BY WAssumption
<1> HIDE DEF F, Y
<1>8. memchr!Answer = A /\ memchr!Answer' = A
  BY <1>1, <1>2, <1>3, <1>5 DEF memchr!Answer, memchr!Stop, memchr!AtMost, SameGiven, Memchrs
<1>9. /\ memchr!Footprint <=> IF cntin = 0 THEN rd = {} ELSE rd \subseteq Granules(srcin, L, W)
      /\ memchr!Footprint' <=> IF cntin = 0 THEN rd' = {} ELSE rd' \subseteq Granules(srcin, L, W)
  <2>1. memchr!AtMost(F, srcin + cntin - 1) = L
    BY <1>1, <1>2 DEF memchr!AtMost
  <2>2. memchr!Granules(srcin, L, W) = Granules(srcin, L, W)
    BY DEF memchr!Granules, Granules
  <2>3. memchr!Footprint' <=> IF cntin = 0 THEN rd' = {}
             ELSE rd' \subseteq memchr!Granules(srcin, memchr!AtMost(F, srcin + cntin - 1), W)
    BY <1>3, <1>5 DEF memchr!Footprint, SameGiven
  <2>4. memchr!Footprint <=> IF cntin = 0 THEN rd = {}
             ELSE rd \subseteq memchr!Granules(srcin, memchr!AtMost(F, srcin + cntin - 1), W)
    BY <1>5 DEF memchr!Footprint
  <2>. QED
    BY <2>1, <2>2, <2>3, <2>4
<1>10. /\ src \in Int /\ src % W = 0 /\ cntrem \in Nat /\ cntrem < Size
       /\ pc \in {"entry", "start_loop"} => src = Y
       /\ pc = "entry" => rd = {}
       /\ pc \in {"start_loop", "loop32_2"} => cntin > 0 /\ src + W <= F /\ srcin < src + W
       /\ pc = "loop32" => cntin > 0 /\ src + 2 * W <= F /\ srcin < src + 2 * W
       /\ pc = "loop32_2" => Halves(src + W, cntrem)
       /\ pc = "loop32" => Halves(src + 3 * W, cntrem)
       /\ pc = "end" => /\ cntin > 0 /\ srcin <= src /\ src <= F
                        /\ vdata = ldrq(mem, src, big)
                        /\ (E - 1) - src >= 0
                        /\ (E - 1) - src < W \/ ~ChunkClean(mem, src, {chrin})
  <2>1. /\ src \in Int /\ src % W = 0 /\ cntrem \in Nat /\ cntrem < Size
        /\ pc \in {"entry", "start_loop"} => src = Y
        /\ pc = "entry" => rd = {}
    BY <1>2, MemchrNames DEF memchr!IInv, Aligned, Y
  <2>2. /\ pc \in {"start_loop", "loop32_2"} => cntin > 0 /\ src + W <= F /\ srcin < src + W
        /\ pc = "loop32" => cntin > 0 /\ src + 2 * W <= F /\ srcin < src + 2 * W
    BY <1>5 DEF memchr!IInv, memchr!ToLoad
  <2>3. /\ pc = "loop32_2" => Halves(src + W, cntrem)
        /\ pc = "loop32" => Halves(src + 3 * W, cntrem)
    BY <1>1, <1>2, <2>1 DEF memchr!IInv, memchr!Halves, memchr!LeftAfter
  <2>4. pc = "end" => /\ cntin > 0 /\ srcin <= src /\ src <= F
                      /\ vdata = ldrq(mem, src, big)
                      /\ (E - 1) - src >= 0
                      /\ (E - 1) - src < W \/ ~ChunkClean(mem, src, {chrin})
    BY <1>1, <1>2, <1>5, <2>1, MemchrNames DEF memchr!IInv, memchr!LeftAfter, ChunkClean
  <2>. QED
    BY <2>1, <2>2, <2>3, <2>4
<1> DEFINE Typed == src' \in Int /\ src' % W = 0 /\ cntrem' \in 0 .. (Size - 1)
           Start == pc' = "start_loop" /\ src' = Y /\ src' + W <= F /\ srcin < src' + W
           Loop == /\ pc' = "loop32" /\ src' + 2 * W <= F /\ srcin < src' + 2 * W
                   /\ Halves(src' + 3 * W, cntrem')
           Loop2 == /\ pc' = "loop32_2" /\ src' + W <= F /\ srcin < src' + W
                    /\ Halves(src' + W, cntrem')
           End == /\ pc' = "end" /\ srcin <= src' /\ src' <= F
                  /\ vdata' = ldrq(mem, src', big)
                  /\ (E - 1) - src' >= 0
                  /\ (E - 1) - src' < W \/ ~ChunkClean(mem, src', {chrin})
           Ret == pc' = "ret" /\ result' = A
<1>11. ASSUME Typed, cntin > 0, Start \/ Loop \/ Loop2 \/ End \/ Ret, memchr!Footprint'
       PROVE  memchr!IInv'
  <2>1. memchr!Aligned(srcin, W)' = Y
    BY <1>3 DEF memchr!Aligned, Y, SameGiven
  <2>2. memchr!Lanes' = Lanes
    BY DEF memchr!Lanes, Lanes
  <2>3. CASE Start
    BY <1>3, <1>5, <1>11, <2>1, <2>3 DEF memchr!IInv, memchr!ToLoad, SameGiven
  <2>4. CASE Loop
    BY <1>1, <1>2, <1>3, <1>5, <1>11, <2>4 DEF memchr!IInv, memchr!ToLoad, memchr!Halves, memchr!LeftAfter, SameGiven
  <2>5. CASE Loop2
    BY <1>1, <1>2, <1>3, <1>5, <1>11, <2>5 DEF memchr!IInv, memchr!ToLoad, memchr!Halves, memchr!LeftAfter, SameGiven
  <2>6. CASE End
    <3>1. memchr!ldrq(mem', src', big') = ldrq(mem, src', big)
      BY <1>3, MemchrNames DEF SameGiven
    <3>2. ~ChunkClean(mem, src', {chrin}) => \E i \in memchr!Lanes : mem'[src' + i] = chrin'
      BY <1>3, MemchrNames DEF SameGiven, ChunkClean
    <3>3. memchr!LeftAfter(src)' = (E - 1) - src'
      BY <1>1, <1>2, <1>3, <1>11 DEF memchr!LeftAfter, SameGiven
    <3>. QED
      BY <1>3, <1>5, <1>11, <2>2, <2>6, <3>1, <3>2, <3>3 DEF memchr!IInv, SameGiven
  <2>7. CASE Ret
    BY <1>3, <1>8, <1>11, <2>7 DEF memchr!IInv
  <2>. QED
    BY <1>11, <2>3, <2>4, <2>5, <2>6, <2>7
<1>12. ASSUME NEW a \in Int, a % W = 0, Y <= a, a <= F, a <= E - 1, cntin > 0, rd' = Chunk(a, W)
       PROVE  memchr!Footprint'
  <2>1. L \in Nat /\ a <= L
    BY <1>1, <1>2, <1>4, <1>12
  <2>2. Chunk(a, W) \subseteq Granules(srcin, L, W)
    BY <1>1, <1>12, <2>1, MayLoad DEF Y
  <2>. QED
    BY <1>2, <1>9, <1>12, <2>2
<1>13. ASSUME NEW k \in Int, F = srcin + k \/ (F >= E /\ srcin + k >= E)
       PROVE  K(k) = A
  BY <1>1, <1>2, <1>4, <1>13
<1>14. ASSUME NEW k, result' = memchr!Result(k)
       PROVE  result' = K(k)
  BY <1>14 DEF memchr!Result, memchr!Within, memchr!Limited
<1> HIDE DEF K, L, Halves
<1>15. CASE memchr!ZeroLength
  <2>1. /\ pc = "entry" /\ cntin = 0 /\ pc' = "ret" /\ src' = src /\ rd' = rd /\ cntrem' = cntrem
        /\ result' = IF routine = "memchr" THEN 0 ELSE cntin
    BY <1>15 DEF memchr!ZeroLength, memchr!NoMatch
  <2>2. result' = A
    BY <1>1, <1>2, <1>4, <2>1
  <2>3. memchr!Footprint'
    BY <1>9, <1>10, <2>1
  <2>. QED
    BY <1>3, <1>8, <1>10, <2>1, <2>2, <2>3 DEF memchr!IInv
<1>16. CASE memchr!Entry
  <2> DEFINE X == lsr(Quads(Having(ld1(mem, Y), {chrin})), 4 * srcin)
  <2>1. /\ pc = "entry" /\ cntin > 0 /\ src = Y /\ src' = Y
        /\ rd' = Chunk(Y, W) /\ cntrem' = cntrem
        /\ vdata' = ld1(mem, Y)
    BY <1>2, <1>10, <1>16, MemchrNames DEF memchr!Entry, memchr!Ld1
  <2>2. IF X = {} THEN pc' = "start_loop" ELSE pc' = "ret" /\ result' = memchr!Result(clz(rbit(X)) \div 4)
    BY <1>16, <2>1, Compared, MemchrNames DEF memchr!Entry, memchr!vhas_chr
  <2>3. X = {} <=> HeadClean(mem, srcin, {chrin})
    BY <1>1, ld1Empty DEF Y, Quads
  <2>4. memchr!Footprint'
    BY <1>1, <1>2, <1>6, <1>12, <2>1
  <2>5. Typed
    BY <1>2, <1>6, <1>10, <2>1
  <2>6. CASE X = {}
    <3>1. Y + W <= F
      BY <1>1, <2>3, <2>6, HeadPassed DEF Y
    <3>2. Start
      BY <1>6, <2>1, <2>2, <2>6, <3>1
    <3>. QED
      BY <1>11, <2>1, <2>4, <2>5, <3>2
  <2>7. CASE X # {}
    <3> DEFINE f == clz(rbit(X))
    <3>1. /\ f \div 4 \in 0 .. ((W - 1) - (srcin % W))
          /\ Leads(mem, srcin, f \div 4, {chrin})
      <4>1. X = lsr(Pairs(Having(ld1(mem, srcin - (srcin % W)), {chrin}),
                          Having(ld1(mem, srcin - (srcin % W)), {chrin})), 4 * srcin)
        BY DEF Quads, Y
      <4> HIDE DEF X
      <4>2. srcin \in Int /\ f = clz(rbit(X))
        BY <1>1
      <4> HIDE DEF f
      <4>3. Leads(mem, srcin, f \div 4, {chrin} \cup {chrin})
        BY <2>7, <4>1, <4>2, ld1First
      <4>4. f \div 4 \in 0 .. ((W - 1) - (srcin % W))
        BY <2>7, <4>1, <4>2, ld1First
      <4>5. {chrin} \cup {chrin} = {chrin}
        OBVIOUS
      <4>. QED
        BY <4>3, <4>4, <4>5
    <3>2. result' = memchr!Result(f \div 4) /\ pc' = "ret"
      BY <2>2, <2>7
    <3> HIDE DEF X, f
    <3>3. F = srcin + (f \div 4)
      BY <1>1, <1>2, <3>1, HeadStops
    <3>4. Ret
      BY <1>13, <1>14, <3>1, <3>2, <3>3
    <3>. QED
      BY <1>11, <2>1, <2>4, <2>5, <3>4
  <2>. QED
    BY <2>6, <2>7
<1>17. CASE memchr!StartLoop
  <2> DEFINE left == (E - 1) - (src + W)
  <2>1. pc = "start_loop" /\ rd' = {} /\ src = Y /\ cntin > 0 /\ src + W <= F /\ srcin < src + W
    BY <1>10, <1>17 DEF memchr!StartLoop
  <2>2. memchr!Left = left /\ left \in Int
    BY <1>1, <1>2, <1>7, <1>10 DEF memchr!Left
  <2>3. IF left < 0 THEN /\ src' = src /\ cntrem' = cntrem /\ pc' = "ret"
                         /\ result' = IF routine = "memchr" THEN 0 ELSE cntin
        ELSE /\ cntrem' = left
             /\ IF (left \div W) % 2 = 0 THEN pc' = "loop32_2" /\ src' = src
                ELSE pc' = "loop32" /\ src' = src - W
    BY <1>17, <2>2 DEF memchr!StartLoop, memchr!NoMatch
  <2>4. memchr!Footprint'
    BY <1>9, <2>1
  <2>5. left < cntin
    BY <1>1, <1>2, <1>7, <1>10, <2>1
  <2>6. CASE left < 0
    <3>1. Typed
      BY <1>2, <1>10, <2>3, <2>6
    <3>2. Ret
      BY <1>1, <1>2, <1>4, <1>7, <1>10, <2>1, <2>3, <2>6
    <3>. QED
      BY <1>11, <2>1, <2>4, <3>1, <3>2
  <2>7. CASE left >= 0 /\ (left \div W) % 2 = 0
    <3>1. cntrem' = left /\ pc' = "loop32_2" /\ src' = src
      BY <2>2, <2>3, <2>7
    <3>2. Typed
      BY <1>2, <1>10, <2>2, <2>5, <2>7, <3>1
    <3>3. Halves(src + W, left)
      BY <2>7 DEF Halves
    <3>4. Loop2
      BY <2>1, <3>1, <3>3
    <3>. QED
      BY <1>11, <2>1, <2>4, <3>2, <3>4
  <2>8. CASE left >= 0 /\ (left \div W) % 2 # 0
    <3>1. cntrem' = left /\ pc' = "loop32" /\ src' = src - W
      BY <2>2, <2>3, <2>8
    <3>2. (src - W) % W = 0 /\ src - W \in Int
      BY <1>7, <1>10, ModPlus
    <3>3. Typed
      BY <1>2, <2>2, <2>5, <2>8, <3>1, <3>2
    <3>4. left - W >= 0 /\ ((left - W) \div W) % 2 = 0
      BY <1>7, <2>2, <2>8, OddChunks
    <3>5. (E - 1) - ((src - W) + 3 * W) = left - W /\ (src - W) + 2 * W = src + W
      BY <1>4, <1>7, <1>10
    <3>6. left = (left - W) + W
      BY <1>7, <2>2
    <3>7. Halves((src - W) + 3 * W, left)
      BY <3>4, <3>5, <3>6 DEF Halves
    <3>8. Loop
      BY <2>1, <3>1, <3>5, <3>7
    <3>. QED
      BY <1>11, <2>1, <2>4, <3>3, <3>8
  <2>. QED
    BY <2>2, <2>6, <2>7, <2>8
<1>18. CASE memchr!Loop32
  <2> DEFINE a == src + 2 * W
  <2>1. /\ pc = "loop32" /\ src' = a /\ rd' = Chunk(a, W) /\ cntrem' = cntrem
        /\ vdata' = ldrq(mem, a, big)
        /\ a \in Int /\ a <= F /\ srcin < a /\ cntin > 0 /\ Halves(a + W, cntrem)
    <3>1. /\ pc = "loop32" /\ src' = src + 2 * W /\ rd' = Chunk(src + 2 * W, W)
          /\ cntrem' = cntrem /\ vdata' = ldrq(mem, src + 2 * W, big)
      BY <1>18, MemchrNames DEF memchr!Loop32, memchr!LdrQ
    <3>2. src + 3 * W = (src + 2 * W) + W /\ src + 2 * W \in Int
      BY <1>7, <1>10
    <3>. QED
      BY <1>10, <3>1, <3>2
  <2>2. a % W = 0
    <3>1. (src + W) % W = 0 /\ src + W \in Int
      BY <1>7, <1>10, ModPlus
    <3>2. ((src + W) + W) % W = 0
      BY <1>7, <3>1, ModPlus
    <3>3. (src + W) + W = src + 2 * W
      BY <1>7, <1>10
    <3>. QED
      BY <3>2, <3>3
  <2>3. pc' = IF Having(vdata', {chrin}) # {} THEN "end" ELSE "loop32_2"
    BY <1>18, Compared, MemchrNames DEF memchr!Loop32, memchr!Found, memchr!vhas_chr
  <2>4. Having(vdata', {chrin}) = {} <=> ChunkClean(mem, a, {chrin})
    BY <2>1, <1>2, ldrqClean
  <2> HIDE DEF a
  <2>5. (E - 1) - (a + W) >= 0 /\ a + W \in Int
    BY <1>7, <2>1 DEF Halves
  <2>6. memchr!Footprint'
    <3>1. Y <= a /\ a <= E - 1
      BY <1>1, <1>4, <1>6, <1>7, <2>1, <2>5
    <3>. QED
      BY <1>12, <2>1, <2>2, <3>1
  <2>7. Typed
    BY <1>2, <1>10, <2>1, <2>2
  <2>8. CASE ChunkClean(mem, a, {chrin})
    <3>1. a + W <= F
      BY <1>1, <2>1, <2>8, ChunkPassed
    <3>2. srcin < a + W
      BY <1>1, <1>7, <2>1
    <3>3. Loop2
      BY <2>1, <2>3, <2>4, <2>8, <3>1, <3>2
    <3>. QED
      BY <1>11, <2>1, <2>6, <2>7, <3>3
  <2>9. CASE ~ChunkClean(mem, a, {chrin})
    <3>1. srcin <= a /\ (E - 1) - a >= 0
      BY <1>1, <1>4, <1>7, <2>1, <2>5
    <3>2. End
      BY <2>1, <2>3, <2>4, <2>9, <3>1
    <3>. QED
      BY <1>11, <2>1, <2>6, <2>7, <3>2
  <2>. QED
    BY <2>8, <2>9
<1>19. CASE memchr!Loop32_2
  <2> DEFINE a == src + W
             left == (E - 1) - a
  <2>1. /\ pc = "loop32_2" /\ rd' = Chunk(a, W) /\ vdata' = ldrq(mem, a, big)
        /\ a \in Int /\ a <= F /\ srcin < a /\ cntin > 0 /\ Halves(a, cntrem)
    BY <1>7, <1>10, <1>19, MemchrNames DEF memchr!Loop32_2, memchr!LdrQ
  <2>2. a % W = 0
    BY <1>7, <1>10, ModPlus
  <2>3. /\ cntrem' = (cntrem - 2 * W) % Size
        /\ IF cntrem < 2 * W \/ Having(vdata', {chrin}) # {}
           THEN pc' = "end" /\ src' = a ELSE pc' = "loop32" /\ src' = src
    BY <1>19, Compared, MemchrNames DEF memchr!Loop32_2, memchr!Found, memchr!vhas_chr
  <2>4. Having(vdata', {chrin}) = {} <=> ChunkClean(mem, a, {chrin})
    BY <2>1, <1>2, ldrqClean
  <2>5. left \in Nat /\ (left \div W) % 2 = 0 /\ (cntrem = left \/ cntrem = left + W)
    <3>1. left \in Int /\ left >= 0
      BY <1>4, <2>1 DEF Halves
    <3>. QED
      BY <2>1, <3>1 DEF Halves
  <2>6. memchr!Footprint'
    <3>1. Y <= a /\ a <= E - 1
      BY <1>1, <1>4, <1>6, <2>1, <2>5
    <3>. QED
      BY <1>12, <2>1, <2>2, <3>1
  <2>7. Typed
    <3>1. cntrem' \in 0 .. (Size - 1)
      <4>1. cntrem - 2 * W \in Int /\ Size > 0
        BY <1>2, <1>7, <1>10
      <4>. QED
        BY <1>2, <2>3, <4>1, DivMod
    <3>. QED
      BY <1>7, <1>10, <2>1, <2>2, <2>3, <3>1
  <2>8. CASE pc' = "end"
    <3>1. src' = a
      BY <2>3, <2>8
    <3>2. left < W \/ ~ChunkClean(mem, a, {chrin})
      <4>1. CASE cntrem < 2 * W
        <5>1. left < 2 * W
          BY <1>7, <2>5, <4>1
        <5>2. left < W
          <6>1. SUFFICES ASSUME left >= W PROVE FALSE
            BY <1>7, <2>5
          <6> HIDE DEF left
          <6>2. left - 2 * W >= 0
            BY <1>7, <2>5, <6>1, EvenChunks
          <6>. QED
            BY <1>7, <2>5, <5>1, <6>2
        <5>. QED
          BY <5>2
      <4>. QED
        BY <2>3, <2>4, <2>8, <4>1
    <3>3. srcin <= a /\ left >= 0
      BY <1>1, <2>1, <2>5
    <3>4. End
      BY <2>1, <2>8, <3>1, <3>2, <3>3
    <3>. QED
      BY <1>11, <2>1, <2>6, <2>7, <3>4
  <2>9. CASE pc' # "end"
    <3>1. pc' = "loop32" /\ src' = src /\ cntrem >= 2 * W /\ ChunkClean(mem, a, {chrin})
      <4>1. ~(cntrem < 2 * W) /\ Having(vdata', {chrin}) = {}
        BY <2>3, <2>9
      <4>2. cntrem >= 2 * W
        BY <1>7, <1>10, <4>1
      <4>. QED
        BY <2>3, <2>4, <4>1, <4>2
    <3>2. a + W <= F
      BY <1>1, <2>1, <3>1, ChunkPassed
    <3>3. cntrem' = cntrem - 2 * W
      <4>1. cntrem - 2 * W \in 0 .. (Size - 1)
        BY <1>2, <1>7, <1>10, <3>1
      <4>. QED
        BY <1>2, <2>3, <4>1, ModSmall
    <3>4. left - 2 * W >= 0 /\ ((left - 2 * W) \div W) % 2 = 0
      <4>1. left >= W
        BY <1>7, <1>10, <2>5, <3>1
      <4> HIDE DEF left
      <4>. QED
        BY <1>7, <2>5, <4>1, EvenChunks
    <3>5. (E - 1) - (src + 3 * W) = left - 2 * W /\ src + 2 * W = a + W
      BY <1>4, <1>7, <1>10
    <3>6. cntrem' = left - 2 * W \/ cntrem' = (left - 2 * W) + W
      BY <1>7, <1>10, <2>5, <3>3
    <3> HIDE DEF left, a
    <3>7. Halves(src + 3 * W, cntrem')
      BY <3>4, <3>5, <3>6 DEF Halves
    <3>8. srcin < a + W
      BY <1>1, <1>7, <2>1
    <3>9. Loop
      BY <3>1, <3>2, <3>5, <3>7, <3>8
    <3>. QED
      BY <1>11, <2>1, <2>6, <2>7, <3>9
  <2>. QED
    BY <2>8, <2>9
<1>20. CASE memchr!End
  <2> DEFINE X == Quads(Having(vdata, {chrin}))
             f == clz(IF big THEN X ELSE rbit(X)) \div 4
  <2>1. /\ pc = "end" /\ src' = src /\ cntrem' = cntrem /\ rd' = {} /\ pc' = "ret"
        /\ cntin > 0 /\ srcin <= src /\ src <= F /\ vdata = ldrq(mem, src, big)
        /\ (E - 1) - src < W \/ ~ChunkClean(mem, src, {chrin})
    BY <1>10, <1>20 DEF memchr!End
  <2>2. result' = memchr!Result((src - srcin) + f)
    BY <1>20, Compared, MemchrNames DEF memchr!End, memchr!FirstOf, memchr!vhas_chr
  <2>3. memchr!Footprint'
    BY <1>9, <2>1
  <2>4. Typed
    BY <1>2, <1>10, <2>1
  <2>5. f \in Int /\ (F = srcin + ((src - srcin) + f) \/ (F >= E /\ srcin + ((src - srcin) + f) >= E))
    <3>1. CASE ChunkClean(mem, src, {chrin})
      <4>1. Having(vdata, {chrin}) = {}
        BY <1>2, <1>10, <2>1, <3>1, ldrqClean
      <4>2. f = W
        BY <4>1, Compared, FirstOfNone
      <4> HIDE DEF f
      <4>3. src + W <= F
        BY <1>1, <1>10, <2>1, <3>1, ChunkPassed
      <4>. QED
        BY <1>1, <1>4, <1>7, <1>10, <2>1, <3>1, <4>2, <4>3
    <3>2. CASE ~ChunkClean(mem, src, {chrin})
      <4>1. f \in Lanes /\ Leads(mem, src, f, {chrin})
        BY <1>2, <1>10, <2>1, <3>2, QuadsFirst
      <4> HIDE DEF f
      <4>2. F = src + f
        <5>1. src \in Nat
          BY <1>1, <1>10, <2>1
        <5>. QED
          BY <1>1, <1>2, <1>10, <2>1, <4>1, <5>1, ChunkStops
      <4>3. f \in Int
        BY <4>1, <1>7 DEF Lanes
      <4>. QED
        BY <1>1, <1>10, <4>2, <4>3
    <3>. QED
      BY <3>1, <3>2
  <2> HIDE DEF f
  <2>6. Ret
    <3>1. (src - srcin) + f \in Int
      BY <1>1, <1>10, <2>5
    <3>. QED
      BY <1>13, <1>14, <2>1, <2>2, <2>5, <3>1
  <2>. QED
    BY <1>11, <2>1, <2>3, <2>4, <2>6
<1>. QED
  BY <1>15, <1>16, <1>17, <1>18, <1>19, <1>20 DEF memchr!Next

-----------------------------------------------------------------------------
\* strchr and strchrnul.

LEMMA StrchrNames ==
    /\ strchr!Lanes = Lanes
    /\ \A m, a : strchr!ld1(m, a) = ld1(m, a)
    /\ \A m, a, b : strchr!ldrq(m, a, b) = ldrq(m, a, b)
    /\ \A v, c : strchr!cmeq(v, c) = cmeq(v, c)
    /\ \A V, v : strchr!cmhs(V, v) = cmhs(V, v)
    /\ \A D, V, m : strchr!bit(D, V, m) = bit(D, V, m) /\ strchr!bif(D, V, m) = bif(D, V, m)
    /\ \A P : strchr!Repeated(P) = Repeated(P)
    /\ \A V : strchr!shrn(V) = shrn(V) /\ strchr!fmov(V) = fmov(V)
    /\ \A U, V : strchr!umaxp(U, V) = umaxp(U, V)
    /\ \A X, n : strchr!lsr(X, n) = lsr(X, n)
    /\ \A X : strchr!clz(X) = clz(X) /\ strchr!rbit(X) = rbit(X)
    /\ \A a, C : strchr!First(a, C) = First(a, C)
    /\ \A l, h, g : strchr!Granules(l, h, g) = Granules(l, h, g)
    /\ \A a, n : strchr!Chunk(a, n) = Chunk(a, n) /\ strchr!Aligned(a, n) = Aligned(a, n)
  BY DEF strchr!Lanes, strchr!ld1, strchr!ldrq, strchr!cmeq, strchr!cmhs, strchr!bit,
         strchr!bif, strchr!Repeated, strchr!shrn, strchr!fmov, strchr!umaxp, strchr!lsr,
         strchr!clz, strchr!rbit, strchr!First, strchr!Granules, strchr!Chunk, strchr!Aligned,
         strchr!AllOnes, strchr!Max, strchr!Min, strchr!XBits, strchr!Pairwise,
         strchr!LargerByte, strchr!SymmetricDiff,
         Lanes, ld1, ldrq, cmeq, cmhs, bit, bif, Repeated, shrn, fmov, umaxp, lsr, clz, rbit,
         First, Granules, Chunk, Aligned, AllOnes, Max, Min, XBits, Pairwise, LargerByte,
         SymmetricDiff

\* The syndromes of strchr: two bits of a byte's four for a match, two for a NUL.
LEMMA BitPairs ==
    ASSUME NEW M, NEW P
    PROVE  /\ shrn(bit(MaskOf(P), MaskOf(M), Repeated({0, 1, 4, 5}))) = Pairs(M, P)
           /\ shrn(bif(MaskOf(P), MaskOf(M), Repeated({0, 1, 4, 5}))) = Pairs(P, M)
<1> DEFINE B == bit(MaskOf(P), MaskOf(M), Repeated({0, 1, 4, 5}))
           C == bif(MaskOf(P), MaskOf(M), Repeated({0, 1, 4, 5}))
<1>1. ASSUME NEW k \in XBits
      PROVE  /\ Bit(k) \in B[k \div 4] <=> k \div 4 \in (IF k % 4 < 2 THEN M ELSE P)
             /\ Bit(k) \in C[k \div 4] <=> k \div 4 \in (IF k % 4 < 2 THEN P ELSE M)
  <2>1. Bit(k) \in AllOnes /\ k \div 4 \in Lanes /\ k % 4 \in 0 .. 3
    BY BitRange
  <2>2. Bit(k) \in {0, 1, 4, 5} <=> k % 4 < 2
    BY <2>1 DEF Bit
  <2> HIDE DEF Bit
  <2>3. /\ B[k \div 4] = (MaskOf(P)[k \div 4] \ {0, 1, 4, 5}) \cup (MaskOf(M)[k \div 4] \cap {0, 1, 4, 5})
        /\ C[k \div 4] = (MaskOf(P)[k \div 4] \cap {0, 1, 4, 5}) \cup (MaskOf(M)[k \div 4] \ {0, 1, 4, 5})
    BY <2>1 DEF bit, bif, Repeated
  <2>4. /\ Bit(k) \in MaskOf(M)[k \div 4] <=> k \div 4 \in M
        /\ Bit(k) \in MaskOf(P)[k \div 4] <=> k \div 4 \in P
    BY <2>1 DEF MaskOf
  <2>. QED
    BY <2>2, <2>3, <2>4
<1> HIDE DEF B, C
<1>2. \A k : k \in shrn(B) <=> k \in Pairs(M, P)
  BY <1>1, shrnBit DEF Pairs
<1>3. \A k : k \in shrn(C) <=> k \in Pairs(P, M)
  BY <1>1, shrnBit DEF Pairs
<1>. QED
  BY <1>2, <1>3 DEF B, C

\* What strchr does with a vector.
LEMMA MatchOrNul ==
    ASSUME NEW v, NEW c
    PROVE  /\ shrn(bit(cmeq(v, 0), cmeq(v, c), Repeated({0, 1, 4, 5})))
              = Pairs(Having(v, {c}), Having(v, {0}))
           /\ shrn(bit(cmhs(cmeq(v, c), v), cmeq(v, c), Repeated({0, 1, 4, 5})))
              = Pairs(Having(v, {c}), Having(v, {c, 0}))
           /\ shrn(bif(cmhs(cmeq(v, c), v), cmeq(v, c), Repeated({0, 1, 4, 5})))
              = Pairs(Having(v, {c, 0}), Having(v, {c}))
           /\ shrn(cmhs(cmeq(v, c), v)) = Quads(Having(v, {c, 0}))
           /\ fmov(umaxp(cmhs(cmeq(v, c), v), cmhs(cmeq(v, c), v))) = {} <=> Having(v, {c, 0}) = {}
<1>1. Having(v, {c, 0}) \in SUBSET Lanes
  BY DEF Having
<1>. QED
  BY <1>1, cmeqIs, cmhsIs, shrnMask, BitPairs, FoundMask

LEMMA StrchrInv ==
    ASSUME GivenOK, CharOK, routine \in Strchrs, strchr!IInv, strchr!Next
    PROVE  strchr!IInv'
<1> DEFINE B == {chrin, 0}
           F == First(srcin, B)
           Y == srcin - (srcin % W)
           A == IF routine # "strchr" \/ mem[F] = chrin THEN F ELSE 0
<1>1. srcin \in Nat /\ IsFirst(F, srcin, B) /\ F \in Nat /\ srcin <= F
  BY ByteIs DEF IsFirst
<1>2. mem \in Memories /\ big \in BOOLEAN
  BY DEF GivenOK
<1>3. SameGiven /\ chrin' = chrin /\ routine' = routine
  BY DEF SameGiven, strchr!Next, strchr!Entry, strchr!EntryNul, strchr!Loop, strchr!LoopHalf,
         strchr!End, strchr!EndNul, strchr!given
<1>4. F' = F
  BY <1>3, FirstSame DEF SameGiven
<1>5. strchr!Match = F /\ strchr!Match' = F
  BY <1>3, <1>4 DEF strchr!Match, strchr!First, strchr!Min, First, Min, SameGiven
<1>6. Y \in Nat /\ Y % W = 0 /\ Y <= srcin /\ srcin < Y + W
  BY <1>1, HeadIs
<1>7. W \in Nat /\ W > 0
  BY WAssumption
<1> HIDE DEF F, Y
<1>8. strchr!Answer = A /\ strchr!Answer' = A
  BY <1>3, <1>5 DEF strchr!Answer, strchr!strchr, SameGiven
<1>9. /\ src \in Int /\ src % W = 0
      /\ pc = "entry" => src = Y
      /\ pc \in {"loop", "end"} => srcin < src + W /\ src + W <= F
      /\ pc = "loop_half" => srcin < src + 2 * W /\ src + 2 * W <= F
      /\ pc = "end" => vdata = ldrq(mem, src + W, big) /\ ~ChunkClean(mem, src + W, B)
  BY <1>5, StrchrNames DEF strchr!IInv, Aligned, Y, ChunkClean
<1>10. ASSUME NEW a \in Int, a % W = 0, Y <= a, a <= F, rd' = Chunk(a, W)
       PROVE  strchr!Footprint'
  <2>1. Chunk(a, W) \subseteq Granules(srcin, F, W)
    BY <1>1, <1>10, MayLoad DEF Y
  <2>. QED
    BY <1>3, <1>5, <1>10, <2>1, StrchrNames DEF strchr!Footprint, SameGiven, Granules
<1>11. (src + W) % W = 0 /\ (src + 2 * W) % W = 0
  <2>1. (src + W) % W = 0
    BY <1>7, <1>9, ModPlus
  <2>2. ((src + W) + W) % W = 0
    BY <1>7, <1>9, <2>1, ModPlus
  <2>. QED
    BY <1>7, <1>9, <2>1, <2>2
<1> DEFINE Typed == src' \in Int /\ src' % W = 0
           Loop == pc' = "loop" /\ srcin < src' + W /\ src' + W <= F
           Half == pc' = "loop_half" /\ srcin < src' + 2 * W /\ src' + 2 * W <= F
           End == /\ pc' = "end" /\ srcin < src' + W /\ src' + W <= F
                  /\ vdata' = ldrq(mem, src' + W, big) /\ ~ChunkClean(mem, src' + W, B)
           Ret == pc' = "ret" /\ result' = A
<1>12. ASSUME Typed, Loop \/ Half \/ End \/ Ret, strchr!Footprint'
       PROVE  strchr!IInv'
  <2>1. strchr!Aligned(srcin, W)' = Y
    BY <1>3 DEF strchr!Aligned, Y, SameGiven
  <2>2. strchr!Lanes' = Lanes
    BY DEF strchr!Lanes, Lanes
  <2>3. CASE End
    <3>1. strchr!ldrq(mem', src' + W, big') = ldrq(mem, src' + W, big)
      BY <1>3, StrchrNames DEF SameGiven
    <3>2. \E i \in strchr!Lanes : mem'[src' + W + i] \in {chrin', 0}
      BY <1>3, <2>3, StrchrNames DEF SameGiven, ChunkClean
    <3>. QED
      BY <1>3, <1>5, <1>12, <2>2, <2>3, <3>1, <3>2 DEF strchr!IInv, SameGiven
  <2>. QED
    BY <1>3, <1>5, <1>8, <1>12, <2>3 DEF strchr!IInv, SameGiven
<1> HIDE DEF B
<1>20. B = {chrin, 0}
  BY DEF B
\* The first chunk.
<1>13. ASSUME NEW X, X # {} => Ret, X = {} => pc' = "loop",
              X = {} <=> HeadClean(mem, srcin, B),
              src = Y, src' = Y, rd' = Chunk(Y, W)
       PROVE  strchr!IInv'
  <2>1. strchr!Footprint'
    BY <1>1, <1>6, <1>10, <1>13
  <2>2. Typed
    BY <1>6, <1>13
  <2>3. CASE X = {}
    <3>1. Y + W <= F
      BY <1>1, <1>13, <2>3, HeadPassed DEF Y
    <3>2. Loop
      BY <1>6, <1>13, <2>3, <3>1
    <3>. QED
      BY <1>12, <2>1, <2>2, <3>2
  <2>4. CASE X # {}
    BY <1>12, <1>13, <2>1, <2>2, <2>4
  <2>. QED
    BY <2>3, <2>4
<1>14. CASE strchr!Entry
  <2> DEFINE v == ld1(mem, srcin - (srcin % W))
             X == lsr(Pairs(Having(v, {chrin}), Having(v, {0})), 4 * srcin)
             f == clz(rbit(X))
  <2>1. /\ pc = "entry" /\ routine = "strchr" /\ src = Y /\ src' = Y
        /\ rd' = Chunk(Y, W) /\ vdata' = v
    BY <1>9, <1>14, StrchrNames DEF strchr!Entry, strchr!Ld1, strchr!strchr, Y
  <2>2. shrn(bit(cmeq(v, 0), cmeq(v, chrin), Repeated({0, 1, 4, 5})))
        = Pairs(Having(v, {chrin}), Having(v, {0}))
    BY MatchOrNul
  <2>3. IF X = {} THEN pc' = "loop" ELSE pc' = "ret" /\ result' = strchr!IfMatch(srcin, f)
    BY <1>14, <2>1, <2>2, StrchrNames DEF strchr!Entry, strchr!vhas_chr, strchr!vrepmask
  <2>4. {chrin} \cup {0} = B
    BY <1>20
  <2>5. X = {} <=> HeadClean(mem, srcin, {chrin} \cup {0})
    BY <1>1, ld1Empty
  <2> HIDE DEF X, v
  <2>6. ASSUME X # {} PROVE Ret
    <3>1. srcin \in Int /\ f = clz(rbit(X)) /\ v = ld1(mem, srcin - (srcin % W))
          /\ X = lsr(Pairs(Having(v, {chrin}), Having(v, {0})), 4 * srcin)
      BY <1>1 DEF X, v
    <3> HIDE DEF f
    <3>2. /\ f \div 4 \in 0 .. ((W - 1) - (srcin % W))
          /\ Leads(mem, srcin, f \div 4, {chrin} \cup {0})
          /\ (f \div 2) % 2 = 0 <=> mem[srcin + (f \div 4)] \in {chrin}
      <4>1. f \div 4 \in 0 .. ((W - 1) - (srcin % W))
        BY <2>6, <3>1, ld1First
      <4>2. Leads(mem, srcin, f \div 4, {chrin} \cup {0})
        BY <2>6, <3>1, ld1First
      <4>3. (f \div 2) % 2 = 0 <=> mem[srcin + (f \div 4)] \in {chrin}
        <5>1. IsOneOf(mem, srcin, f, {chrin})
          BY <2>6, <3>1, ld1First
        <5>. QED
          BY <5>1 DEF IsOneOf
      <4>. QED
        BY <4>1, <4>2, <4>3
    <3>3. F = srcin + (f \div 4)
      BY <1>1, <1>2, <2>4, <3>2, HeadStops
    <3>4. result' = IF (f \div 2) % 2 = 0 THEN srcin + (f \div 4) ELSE 0
      BY <2>3, <2>6 DEF strchr!IfMatch
    <3>. QED
      BY <2>1, <2>3, <2>6, <3>2, <3>3, <3>4
  <2>. QED
    BY <1>13, <2>1, <2>3, <2>4, <2>5, <2>6
<1>15. CASE strchr!EntryNul
  <2> DEFINE v == ld1(mem, srcin - (srcin % W))
             X == lsr(Pairs(Having(v, B), Having(v, B)), 4 * srcin)
             f == clz(rbit(X))
  <2>1. /\ pc = "entry" /\ routine # "strchr" /\ src = Y /\ src' = Y
        /\ rd' = Chunk(Y, W) /\ vdata' = v
    BY <1>9, <1>15, StrchrNames DEF strchr!EntryNul, strchr!Ld1, strchr!strchr, Y
  <2>2. shrn(cmhs(cmeq(v, chrin), v)) = Pairs(Having(v, B), Having(v, B))
    BY <1>20, MatchOrNul DEF Quads
  <2>3. IF X = {} THEN pc' = "loop" ELSE pc' = "ret" /\ result' = srcin + (f \div 4)
    BY <1>15, <2>1, <2>2, StrchrNames
       DEF strchr!EntryNul, strchr!vhas_chr, strchr!vhas_nul, strchr!Masked
  <2>4. B \cup B = B
    OBVIOUS
  <2>5. X = {} <=> HeadClean(mem, srcin, B \cup B)
    BY <1>1, ld1Empty
  <2> HIDE DEF X, v
  <2>6. ASSUME X # {} PROVE Ret
    <3>1. srcin \in Int /\ f = clz(rbit(X)) /\ v = ld1(mem, srcin - (srcin % W))
          /\ X = lsr(Pairs(Having(v, B), Having(v, B)), 4 * srcin)
      BY <1>1 DEF X, v
    <3> HIDE DEF f
    <3>2. /\ f \div 4 \in 0 .. ((W - 1) - (srcin % W))
          /\ Leads(mem, srcin, f \div 4, B \cup B)
      BY <2>6, <3>1, ld1First
    <3>3. F = srcin + (f \div 4)
      BY <1>1, <1>2, <2>4, <3>2, HeadStops
    <3>. QED
      BY <2>1, <2>3, <2>6, <3>3
  <2>. QED
    BY <1>13, <2>1, <2>3, <2>4, <2>5, <2>6
<1>16. CASE strchr!Loop
  <2> DEFINE a == src + W
  <2>1. /\ pc = "loop" /\ src' = src /\ rd' = Chunk(a, W) /\ vdata' = ldrq(mem, a, big)
    BY <1>16, StrchrNames DEF strchr!Loop, strchr!LdrQ
  <2>2. a \in Int /\ a % W = 0 /\ srcin < a /\ a <= F /\ a + W = src + 2 * W
    BY <1>7, <1>9, <1>11, <2>1
  <2>3. pc' = IF Having(vdata', B) # {} THEN "end" ELSE "loop_half"
    BY <1>16, <1>20, MatchOrNul, StrchrNames
       DEF strchr!Loop, strchr!Found, strchr!vhas_nul, strchr!vhas_chr
  <2> HIDE DEF a
  <2>4. Having(vdata', B) = {} <=> ChunkClean(mem, a, B)
    BY <1>2, <2>1, <2>2, ldrqClean
  <2>5. strchr!Footprint'
    BY <1>1, <1>6, <1>10, <2>1, <2>2
  <2>6. Typed
    BY <1>9, <2>1
  <2>7. CASE ChunkClean(mem, a, B)
    <3>1. a + W <= F /\ srcin < a + W
      BY <1>1, <1>7, <2>2, <2>7, ChunkPassed
    <3>2. Half
      BY <2>1, <2>2, <2>3, <2>4, <2>7, <3>1
    <3>. QED
      BY <1>12, <2>5, <2>6, <3>2
  <2>8. CASE ~ChunkClean(mem, a, B)
    <3>1. End
      BY <2>1, <2>2, <2>3, <2>4, <2>8 DEF a
    <3>. QED
      BY <1>12, <2>5, <2>6, <3>1
  <2>. QED
    BY <2>7, <2>8
<1>17. CASE strchr!LoopHalf
  <2> DEFINE a == src + 2 * W
  <2>1. /\ pc = "loop_half" /\ rd' = Chunk(a, W) /\ vdata' = ldrq(mem, a, big)
    BY <1>17, StrchrNames DEF strchr!LoopHalf, strchr!LdrQ
  <2>2. a \in Int /\ a % W = 0 /\ srcin < a /\ a <= F
    BY <1>7, <1>9, <1>11, <2>1
  <2>3. IF Having(vdata', B) # {} THEN pc' = "end" /\ src' = src + W
        ELSE pc' = "loop" /\ src' = a
    BY <1>17, <1>20, MatchOrNul, StrchrNames
       DEF strchr!LoopHalf, strchr!Found, strchr!vhas_nul, strchr!vhas_chr
  <2> HIDE DEF a
  <2>4. Having(vdata', B) = {} <=> ChunkClean(mem, a, B)
    BY <1>2, <2>1, <2>2, ldrqClean
  <2>5. strchr!Footprint'
    BY <1>1, <1>6, <1>10, <2>1, <2>2
  <2>6. src + W \in Int /\ (src + W) + W = a
    BY <1>7, <1>9 DEF a
  <2>7. CASE ChunkClean(mem, a, B)
    <3>1. a + W <= F /\ srcin < a + W
      BY <1>1, <1>7, <2>2, <2>7, ChunkPassed
    <3>2. Loop /\ Typed
      BY <2>2, <2>3, <2>4, <2>7, <3>1
    <3>. QED
      BY <1>12, <2>5, <3>2
  <2>8. CASE ~ChunkClean(mem, a, B)
    <3>1. End /\ Typed
      BY <1>11, <2>1, <2>2, <2>3, <2>4, <2>6, <2>8
    <3>. QED
      BY <1>12, <2>5, <3>1
  <2>. QED
    BY <2>7, <2>8
<1>18. ASSUME pc = "end", pc' = "ret", src' = src + W, rd' = {}, Ret
       PROVE  strchr!IInv'
  <2>1. strchr!Footprint'
    BY <1>18 DEF strchr!Footprint
  <2>2. Typed
    BY <1>7, <1>9, <1>11, <1>18
  <2>. QED
    BY <1>12, <1>18, <2>1, <2>2
<1>19. CASE strchr!End
  <2> DEFINE a == src + W
             v == ldrq(mem, a, big)
             X == Ordered(v, {chrin}, {chrin} \cup {0}, big)
             f == clz(IF big THEN X ELSE rbit(X))
  <2>1. pc = "end" /\ pc' = "ret" /\ src' = a /\ rd' = {} /\ routine = "strchr" /\ vdata = v
    BY <1>9, <1>19 DEF strchr!End, strchr!strchr
  <2>2. {chrin} \cup {0} = {chrin, 0} /\ {chrin} \cup ({chrin} \cup {0}) = B
    BY <1>20
  <2>3. strchr!Syndrome(vdata) = X
    <3> HIDE DEF v
    <3>1. strchr!Syndrome(v) =
             IF big THEN shrn(bif(cmhs(cmeq(v, chrin), v), cmeq(v, chrin), Repeated({0, 1, 4, 5})))
             ELSE shrn(bit(cmhs(cmeq(v, chrin), v), cmeq(v, chrin), Repeated({0, 1, 4, 5})))
      BY StrchrNames DEF strchr!Syndrome, strchr!vhas_nul, strchr!vhas_chr, strchr!vrepmask
    <3>2. X = IF big THEN Pairs(Having(v, {chrin, 0}), Having(v, {chrin}))
              ELSE Pairs(Having(v, {chrin}), Having(v, {chrin, 0}))
      BY <2>2 DEF Ordered
    <3>. QED
      BY <2>1, <3>1, <3>2, MatchOrNul
  <2>4. result' = strchr!IfMatch(a, f)
    BY <1>19, <2>1, <2>3, StrchrNames DEF strchr!End, strchr!FirstOf
  <2>5. a \in Int /\ a % W = 0 /\ srcin < a /\ a <= F /\ ~ChunkClean(mem, a, B)
    BY <1>7, <1>9, <1>11, <2>1
  <2> HIDE DEF X, a, v
  <2>6. /\ f \div 4 \in Lanes
        /\ Leads(mem, a, f \div 4, B)
        /\ (f \div 2) % 2 = 0 <=> mem[a + (f \div 4)] \in {chrin}
    <3>1. /\ X = Ordered(ldrq(mem, a, big), {chrin}, {chrin} \cup {0}, big)
          /\ ~ChunkClean(mem, a, {chrin} \cup ({chrin} \cup {0}))
          /\ f = clz(IF big THEN X ELSE rbit(X))
      BY <2>2, <2>5 DEF X, v
    <3> HIDE DEF f
    <3>2. /\ f \div 4 \in Lanes
          /\ Leads(mem, a, f \div 4, {chrin} \cup ({chrin} \cup {0}))
          /\ (f \div 2) % 2 = 0 <=> mem[a + (f \div 4)] \in {chrin}
      <4>1. f \div 4 \in Lanes
        BY <1>2, <2>5, <3>1, ldrqFirst
      <4>2. Leads(mem, a, f \div 4, {chrin} \cup ({chrin} \cup {0}))
        BY <1>2, <2>5, <3>1, ldrqFirst
      <4>3. (f \div 2) % 2 = 0 <=> mem[a + (f \div 4)] \in {chrin}
        <5>1. IsOneOf(mem, a, f, {chrin})
          BY <1>2, <2>5, <3>1, ldrqFirst
        <5>. QED
          BY <5>1 DEF IsOneOf
      <4>. QED
        BY <4>1, <4>2, <4>3
    <3>. QED
      BY <2>2, <3>2
  <2> HIDE DEF f
  <2>7. a \in Nat /\ srcin <= a
    BY <1>1, <2>5
  <2>8. F = a + (f \div 4)
    BY <1>1, <1>2, <2>5, <2>6, <2>7, ChunkStops
  <2>9. result' = IF (f \div 2) % 2 = 0 THEN a + (f \div 4) ELSE 0
    BY <2>4 DEF strchr!IfMatch
  <2>10. Ret
    BY <2>1, <2>6, <2>8, <2>9
  <2>. QED
    BY <1>18, <2>1, <2>10 DEF a
<1>21. CASE strchr!EndNul
  <2> DEFINE a == src + W
             X == Quads(Having(ldrq(mem, a, big), B))
             f == clz(IF big THEN X ELSE rbit(X)) \div 4
  <2>1. /\ pc = "end" /\ pc' = "ret" /\ src' = a /\ rd' = {} /\ routine # "strchr"
        /\ vdata = ldrq(mem, a, big)
    BY <1>9, <1>21 DEF strchr!EndNul, strchr!strchr
  <2>2. result' = a + f
    BY <1>20, <1>21, <2>1, MatchOrNul, StrchrNames
       DEF strchr!EndNul, strchr!vhas_nul, strchr!vhas_chr, strchr!FirstOf
  <2>3. a \in Int /\ a % W = 0 /\ srcin < a /\ a <= F /\ ~ChunkClean(mem, a, B)
    BY <1>7, <1>9, <1>11, <2>1
  <2> HIDE DEF a
  <2>4. f \in Lanes /\ Leads(mem, a, f, B)
    BY <1>2, <2>3, QuadsFirst
  <2> HIDE DEF f
  <2>5. a \in Nat /\ srcin <= a
    BY <1>1, <2>3
  <2>6. F = a + f
    BY <1>1, <1>2, <2>3, <2>4, <2>5, ChunkStops
  <2>7. Ret
    BY <2>1, <2>2, <2>6
  <2>. QED
    BY <1>18, <2>1, <2>7 DEF a
<1>. QED
  BY <1>14, <1>15, <1>16, <1>17, <1>19, <1>21 DEF strchr!Next

-----------------------------------------------------------------------------
\* memrchr.

LEMMA MemrchrNames ==
    /\ memrchr!Lanes = Lanes
    /\ \A m, a : memrchr!ld1(m, a) = ld1(m, a)
    /\ \A m, a, b : memrchr!ldrq(m, a, b) = ldrq(m, a, b)
    /\ \A v, c : memrchr!cmeq(v, c) = cmeq(v, c)
    /\ \A V : memrchr!shrn(V) = shrn(V) /\ memrchr!fmov(V) = fmov(V)
    /\ \A U, V : memrchr!umaxp(U, V) = umaxp(U, V)
    /\ \A X, n : memrchr!lsl(X, n) = lsl(X, n)
    /\ \A X : memrchr!clz(X) = clz(X) /\ memrchr!rbit(X) = rbit(X) /\ memrchr!Max(X) = Max(X)
    /\ \A l, h, g : memrchr!Granules(l, h, g) = Granules(l, h, g)
    /\ \A a, n : memrchr!Chunk(a, n) = Chunk(a, n) /\ memrchr!Aligned(a, n) = Aligned(a, n)
                 /\ memrchr!AtMost(a, n) = AtMost(a, n)
  BY DEF memrchr!Lanes, memrchr!ld1, memrchr!ldrq, memrchr!cmeq, memrchr!shrn, memrchr!fmov,
         memrchr!umaxp, memrchr!lsl, memrchr!clz, memrchr!rbit, memrchr!Granules,
         memrchr!Chunk, memrchr!Aligned, memrchr!AllOnes, memrchr!Max, memrchr!XBits,
         memrchr!AtMost, memrchr!Pairwise, memrchr!LargerByte, memrchr!SymmetricDiff,
         Lanes, ld1, ldrq, cmeq, shrn, fmov, umaxp, lsl, clz, rbit, Granules, Chunk,
         Aligned, AllOnes, Max, XBits, AtMost, Pairwise, LargerByte, SymmetricDiff

\* T is the last match in the buffer, or the address before it.
IsLast(T) == /\ T \in Int /\ srcin - 1 <= T /\ T <= srcin + cntin - 1
             /\ T >= srcin => mem[T] = chrin
             /\ \A x \in (T + 1) .. (srcin + cntin - 1) : mem[x] # chrin

LEMMA LastIs ==
    ASSUME srcin \in Nat, cntin \in Nat, NEW T, T = memrchr!LastMatch
    PROVE  /\ IsLast(T)
           /\ memrchr!Answer = IF T >= srcin THEN T ELSE 0
           /\ memrchr!After = (srcin + cntin - 1) - T
<1> DEFINE e == srcin + cntin - 1
           M == {x \in srcin .. e : mem[x] = chrin}
           G == IF M = {} THEN cntin ELSE e - Max(M)
<1>1. /\ memrchr!Matches = M /\ memrchr!After = G /\ T = e - G
      /\ memrchr!Answer = IF M = {} THEN 0 ELSE Max(M)
  BY MemrchrNames DEF memrchr!LastMatch, memrchr!After, memrchr!Answer, memrchr!Matches,
     memrchr!endm1, memrchr!end
<1>2. e \in Int /\ e - cntin = srcin - 1
  OBVIOUS
<1>3. CASE M = {}
  <2>1. T = srcin - 1 /\ memrchr!Answer = 0 /\ G = cntin
    BY <1>1, <1>2, <1>3
  <2>2. \A x \in (T + 1) .. e : mem[x] # chrin
    BY <1>3, <2>1
  <2>3. T \in Int /\ srcin - 1 <= T /\ T <= e /\ ~(T >= srcin) /\ G = e - T
    BY <1>2, <2>1
  <2> HIDE DEF G, M
  <2>. QED
    BY <1>1, <2>1, <2>2, <2>3 DEF IsLast
<1>4. CASE M # {}
  <2>1. Max(M) \in M /\ \A x \in M : x <= Max(M)
    BY <1>2, <1>4, MaxExists
  <2>2. T = Max(M) /\ memrchr!Answer = Max(M) /\ G = e - Max(M)
    <3>1. Max(M) \in Int
      BY <2>1
    <3> HIDE DEF M, e
    <3>. QED
      BY <1>1, <1>2, <1>4, <3>1
  <2>3. T \in Int /\ srcin <= T /\ T <= e /\ mem[T] = chrin
    BY <2>1, <2>2
  <2>4. ASSUME NEW x \in (T + 1) .. e PROVE mem[x] # chrin
    <3>1. x \in srcin .. e /\ ~(x <= T)
      BY <2>3, <2>4
    <3>. QED
      BY <2>1, <2>2, <3>1
  <2>5. G = e - T /\ memrchr!Answer = IF T >= srcin THEN T ELSE 0
    BY <2>2, <2>3
  <2> HIDE DEF G
  <2>. QED
    BY <1>1, <2>3, <2>4, <2>5 DEF IsLast
<1>. QED
  BY <1>3, <1>4

\* Bytes without a match, in a chunk and in the part of the last one.
LEMMA DownPassed ==
    ASSUME srcin \in Nat, cntin \in Nat, NEW T, IsLast(T), NEW a \in Int, T < a + W,
           ChunkClean(mem, a, {chrin})
    PROVE  T < a \/ T < srcin
<1>1. SUFFICES ASSUME T >= a, T >= srcin PROVE FALSE
  BY DEF IsLast
<1>2. T - a \in Lanes /\ a + (T - a) = T /\ mem[T] = chrin
  BY <1>1, WAssumption DEF IsLast, Lanes
<1>. QED
  BY <1>2 DEF ChunkClean

LEMMA TailPassed ==
    ASSUME srcin \in Nat, cntin \in Nat, NEW T, IsLast(T), NEW e, e = srcin + cntin - 1,
           TailClean(mem, e, {chrin})
    PROVE  T < e - (e % W) \/ T < srcin
<1>1. e \in Int /\ e % W \in Int
  BY WAssumption, DivMod
<1>2. SUFFICES ASSUME T >= e - (e % W), T >= srcin PROVE FALSE
  BY <1>1 DEF IsLast
<1>3. e - T \in 0 .. (e % W) /\ e - (e - T) = T /\ mem[T] = chrin
  BY <1>1, <1>2 DEF IsLast
<1>. QED
  BY <1>3 DEF TailClean

\* The first match from e down is the last one, if it is in the buffer.
LEMMA DownStops ==
    ASSUME srcin \in Nat, cntin \in Nat, NEW T, IsLast(T),
           NEW e \in Int, e <= srcin + cntin - 1, T <= e, NEW k \in Nat,
           Trails(mem, e, k, {chrin})
    PROVE  IF e - k >= srcin THEN T = e - k ELSE T < srcin
<1>1. mem[e - k] = chrin /\ \A g \in 0 .. (k - 1) : mem[e - g] # chrin
  BY DEF Trails
<1>2. T \in Int /\ (T >= srcin => mem[T] = chrin)
  BY DEF IsLast
<1>3. ASSUME T > e - k, T >= srcin PROVE FALSE
  <2>1. e - T \in 0 .. (k - 1) /\ e - (e - T) = T
    BY <1>2, <1>3
  <2>. QED
    BY <1>1, <1>2, <1>3, <2>1
<1>4. ASSUME T < e - k, e - k >= srcin PROVE FALSE
  <2>1. e - k \in (T + 1) .. (srcin + cntin - 1)
    BY <1>2, <1>4
  <2>. QED
    BY <1>1, <2>1 DEF IsLast
<1>. QED
  BY <1>2, <1>3, <1>4

\* A chunk of the buffer no lower than the one of address lo.
LEMMA MayLoadDown ==
    ASSUME NEW lo \in Nat, NEW e \in Nat, NEW a \in Int, a % W = 0, lo < a + W, a <= e
    PROVE  Chunk(a, W) \subseteq Granules(lo, e, W)
<1>1. W \in Nat /\ W > 0 /\ lo % W \in Int /\ e % W \in Int
  BY DivMod, WAssumption
<1>2. a <= e - (e % W)
  BY <1>1, Chunks
<1>3. lo - (lo % W) <= a
  <2> DEFINE b == lo - (lo % W)
             x == a + (W - 1)
  <2>1. b \in Int /\ b % W = 0 /\ b <= lo
    BY <1>1, ModOfAligned, HeadIs
  <2>2. x \in Int /\ b <= x
    BY <1>1, <2>1
  <2>3. x % W = W - 1
    <3>1. a = W * (a \div W) + 0 /\ a \div W \in Int
      BY <1>1, DivMod
    <3>2. x = W * (a \div W) + (W - 1) /\ W - 1 \in 0 .. (W - 1)
      BY <1>1, <3>1
    <3> HIDE DEF x
    <3>. QED
      BY <1>1, <2>2, <3>1, <3>2, DivModIs
  <2> HIDE DEF x, b
  <2>4. b <= x - (x % W)
    BY <1>1, <2>1, <2>2, Chunks
  <2>. QED
    BY <1>1, <2>1, <2>2, <2>3, <2>4 DEF b, x
<1>. QED
  BY <1>1, <1>2, <1>3 DEF Chunk, Granules

LEMMA MemrchrInv ==
    ASSUME GivenOK, CharOK, CountOK, memrchr!IInv, memrchr!Next
    PROVE  memrchr!IInv'
<1> DEFINE E1 == srcin + cntin - 1
           T == memrchr!LastMatch
           Y == E1 - (E1 % W)
           A == IF T >= srcin THEN T ELSE 0
           L == IF T >= srcin THEN T ELSE srcin
           Halves(a, c) == /\ (a + W - 1) - srcin >= 0 /\ (((a + W - 1) - srcin) \div W) % 2 = 0
                           /\ c = (a + W - 1) - srcin \/ c = ((a + W - 1) - srcin) + W
<1>1. srcin \in Nat /\ W \in Nat /\ W > 0
  BY PointersAssumption, WAssumption DEF GivenOK
<1>2. mem \in Memories /\ big \in BOOLEAN /\ cntin \in Nat /\ cntin < Size /\ Size \in Nat
  BY DEF GivenOK, CountOK
<1>3. SameGiven /\ chrin' = chrin /\ cntin' = cntin
  BY DEF SameGiven, memrchr!Next, memrchr!ZeroLength, memrchr!Entry, memrchr!StartLoop,
         memrchr!Loop32, memrchr!Loop32_2, memrchr!End, memrchr!given
<1>4. E1 \in Int /\ E1' = E1 /\ E1 + 1 = srcin + cntin
  BY <1>1, <1>2, <1>3 DEF SameGiven
<1>5. /\ IsLast(T)
      /\ memrchr!Answer = A
      /\ memrchr!After = E1 - T
  BY <1>1, <1>2, LastIs
<1>6. memrchr!LastMatch' = memrchr!LastMatch /\ memrchr!Answer' = memrchr!Answer
      /\ memrchr!After' = memrchr!After
  BY <1>3 DEF memrchr!LastMatch, memrchr!After, memrchr!Answer, memrchr!Matches, memrchr!endm1,
     memrchr!end, memrchr!Max, SameGiven
<1>7. T \in Int /\ srcin - 1 <= T /\ T <= E1
  BY <1>5 DEF IsLast
<1>8. Y \in Int /\ Y % W = 0 /\ Y <= E1 /\ E1 < Y + W
  <2>1. Y % W = 0 /\ E1 % W \in 0 .. (W - 1)
    BY <1>1, <1>4, DivMod, ModOfAligned
  <2>. QED
    BY <1>1, <1>4, <2>1
<1>9. memrchr!endm1 = E1 /\ memrchr!endm1' = E1 /\ memrchr!end = E1 + 1 /\ T' = T
  BY <1>1, <1>2, <1>3, <1>4, <1>6 DEF memrchr!endm1, memrchr!end, SameGiven
<1> HIDE DEF T, Y, E1
<1>10. cntin > 0 => L \in Nat /\ L <= E1
  BY <1>1, <1>2, <1>4, <1>7
<1>11. /\ memrchr!Footprint <=> IF cntin = 0 THEN rd = {} ELSE rd \subseteq Granules(L, E1, W)
       /\ memrchr!Footprint' <=> IF cntin = 0 THEN rd' = {} ELSE rd' \subseteq Granules(L, E1, W)
  <2>1. cntin > 0 => E1 - memrchr!AtMost(E1 - T, cntin - 1) = L
    BY <1>1, <1>2, <1>4, <1>7 DEF memrchr!AtMost
  <2>2. memrchr!Granules(L, E1, W) = Granules(L, E1, W)
    BY DEF memrchr!Granules, Granules
  <2>3. memrchr!Footprint <=> IF cntin = 0 THEN rd = {}
             ELSE rd \subseteq memrchr!Granules(E1 - memrchr!AtMost(E1 - T, cntin - 1), E1, W)
    BY <1>5, <1>9 DEF memrchr!Footprint
  <2>4. memrchr!Footprint' <=> IF cntin = 0 THEN rd' = {}
             ELSE rd' \subseteq memrchr!Granules(E1 - memrchr!AtMost(E1 - T, cntin - 1), E1, W)
    BY <1>3, <1>5, <1>6, <1>9 DEF memrchr!Footprint
  <2>. QED
    BY <1>2, <2>1, <2>2, <2>3, <2>4
<1>12. /\ src \in Int /\ src % W = 0 /\ cntrem \in Nat /\ cntrem < Size
       /\ pc \in {"entry", "start_loop"} => src = Y
       /\ pc = "entry" => rd = {}
       /\ pc = "start_loop" => cntin > 0 /\ (T < src \/ T < srcin)
       /\ pc = "loop32_2" => cntin > 0 /\ T < src /\ src <= E1 /\ Halves(src - W, cntrem)
       /\ pc = "loop32" => cntin > 0 /\ T < src - W /\ src - W <= E1 /\ Halves(src - 3 * W, cntrem)
       /\ pc = "end" => /\ cntin > 0 /\ srcin < src + W /\ T < src + W /\ src + W <= E1
                        /\ vdata = ldrq(mem, src, big)
                        /\ src <= srcin \/ ~ChunkClean(mem, src, {chrin})
  <2>1. /\ src \in Int /\ src % W = 0 /\ cntrem \in Nat /\ cntrem < Size
        /\ pc \in {"entry", "start_loop"} => src = Y
        /\ pc = "entry" => rd = {}
        /\ pc = "start_loop" => cntin > 0 /\ (T < src \/ T < srcin)
    BY <1>2, <1>9, MemrchrNames DEF memrchr!IInv, Aligned, Y, T
  <2>2. /\ pc = "loop32_2" => cntin > 0 /\ T < src /\ src <= E1
        /\ pc = "loop32" => cntin > 0 /\ T < src - W /\ src - W <= E1
    BY <1>9 DEF memrchr!IInv, T
  <2>3. /\ pc = "loop32_2" => Halves(src - W, cntrem)
        /\ pc = "loop32" => Halves(src - 3 * W, cntrem)
    BY DEF memrchr!IInv, memrchr!Halves, memrchr!LeftUpTo
  <2>4. pc = "end" => /\ cntin > 0 /\ srcin < src + W /\ T < src + W /\ src + W <= E1
                      /\ vdata = ldrq(mem, src, big)
                      /\ src <= srcin \/ ~ChunkClean(mem, src, {chrin})
    BY <1>9, MemrchrNames DEF memrchr!IInv, ChunkClean, T
  <2>. QED
    BY <2>1, <2>2, <2>3, <2>4
<1> DEFINE Typed == src' \in Int /\ src' % W = 0 /\ cntrem' \in 0 .. (Size - 1)
           Start == pc' = "start_loop" /\ src' = Y /\ (T < src' \/ T < srcin)
           Loop == /\ pc' = "loop32" /\ T < src' - W /\ src' - W <= E1
                   /\ Halves(src' - 3 * W, cntrem')
           Loop2 == pc' = "loop32_2" /\ T < src' /\ src' <= E1 /\ Halves(src' - W, cntrem')
           End == /\ pc' = "end" /\ srcin < src' + W /\ T < src' + W /\ src' + W <= E1
                  /\ vdata' = ldrq(mem, src', big)
                  /\ src' <= srcin \/ ~ChunkClean(mem, src', {chrin})
           Ret == pc' = "ret" /\ result' = A
<1>13. ASSUME Typed, cntin > 0, Start \/ Loop \/ Loop2 \/ End \/ Ret, memrchr!Footprint'
       PROVE  memrchr!IInv'
  <2>1. memrchr!Aligned(memrchr!endm1, W)' = Y
    BY <1>9 DEF memrchr!Aligned, Y
  <2>2. memrchr!Lanes' = Lanes
    BY DEF memrchr!Lanes, Lanes
  <2>3. memrchr!LastMatch' = T
    BY <1>9 DEF T
  <2>4. CASE Start
    BY <1>3, <1>9, <1>13, <2>1, <2>3, <2>4 DEF memrchr!IInv, SameGiven
  <2>5. CASE Loop
    BY <1>3, <1>9, <1>13, <2>3, <2>5 DEF memrchr!IInv, memrchr!Halves, memrchr!LeftUpTo, SameGiven
  <2>6. CASE Loop2
    BY <1>3, <1>9, <1>13, <2>3, <2>6 DEF memrchr!IInv, memrchr!Halves, memrchr!LeftUpTo, SameGiven
  <2>7. CASE End
    <3>1. memrchr!ldrq(mem', src', big') = ldrq(mem, src', big)
      BY <1>3, MemrchrNames DEF SameGiven
    <3>2. ~ChunkClean(mem, src', {chrin}) => \E i \in memrchr!Lanes : mem'[src' + i] = chrin'
      BY <1>3, MemrchrNames DEF SameGiven, ChunkClean
    <3>. QED
      BY <1>3, <1>9, <1>13, <2>2, <2>3, <2>7, <3>1, <3>2 DEF memrchr!IInv, SameGiven
  <2>8. CASE Ret
    BY <1>3, <1>5, <1>6, <1>13, <2>8 DEF memrchr!IInv
  <2>. QED
    BY <1>13, <2>4, <2>5, <2>6, <2>7, <2>8
<1>14. ASSUME NEW a \in Int, a % W = 0, T < a + W, srcin < a + W, a <= E1, cntin > 0,
              rd' = Chunk(a, W)
       PROVE  memrchr!Footprint'
  <2>1. L \in Nat /\ L < a + W /\ E1 \in Nat
    BY <1>1, <1>4, <1>7, <1>10, <1>14
  <2> HIDE DEF L
  <2>2. Chunk(a, W) \subseteq Granules(L, E1, W)
    BY <1>14, <2>1, MayLoadDown
  <2>. QED
    BY <1>2, <1>11, <1>14, <2>2
<1> HIDE DEF L, Halves
<1>15. CASE memrchr!ZeroLength
  <2>1. /\ pc = "entry" /\ cntin = 0 /\ pc' = "ret" /\ src' = src /\ rd' = rd /\ cntrem' = cntrem
        /\ result' = 0
    BY <1>15 DEF memrchr!ZeroLength, memrchr!NoMatch
  <2>2. result' = A
    BY <1>1, <1>4, <1>7, <2>1
  <2>3. memrchr!Footprint'
    BY <1>11, <1>12, <2>1
  <2>. QED
    BY <1>2, <1>3, <1>5, <1>6, <1>12, <2>1, <2>2, <2>3 DEF memrchr!IInv
<1>16. CASE memrchr!Entry
  <2> DEFINE v == ld1(mem, E1 - (E1 % W))
             X == lsl(Quads(Having(v, {chrin})), -(4 * (E1 + 1)))
             k == clz(X) \div 4
  <2>1. /\ pc = "entry" /\ cntin > 0 /\ src = Y /\ src' = Y
        /\ rd' = Chunk(Y, W) /\ cntrem' = cntrem
        /\ vdata' = v
    BY <1>2, <1>12, <1>16, MemrchrNames DEF memrchr!Entry, memrchr!Ld1, Y
  <2>2. IF X = {} THEN pc' = "start_loop"
        ELSE pc' = "ret" /\ result' = IF cntin > k THEN E1 - k ELSE 0
    BY <1>9, <1>16, <2>1, Compared, MemrchrNames DEF memrchr!Entry, memrchr!vhas_chr
  <2>3. X = {} <=> TailClean(mem, E1, {chrin})
    BY <1>4, ld1Last
  <2>4. memrchr!Footprint'
    <3>1. srcin < Y + W /\ T < Y + W
      BY <1>1, <1>2, <1>4, <1>7, <1>8, <2>1
    <3>. QED
      BY <1>8, <1>14, <2>1, <3>1
  <2>5. Typed
    BY <1>2, <1>8, <1>12, <2>1
  <2>6. CASE X = {}
    <3>1. T < Y \/ T < srcin
      BY <1>1, <1>2, <1>5, <2>3, <2>6, TailPassed DEF Y, E1
    <3>2. Start
      BY <2>1, <2>2, <2>6, <3>1
    <3>. QED
      BY <1>13, <2>1, <2>4, <2>5, <3>2
  <2>7. CASE X # {}
    <3>1. k \in 0 .. (E1 % W) /\ Trails(mem, E1, k, {chrin})
      BY <1>4, <2>7, ld1Last
    <3>2. result' = (IF cntin > k THEN E1 - k ELSE 0) /\ pc' = "ret"
      BY <2>2, <2>7
    <3> HIDE DEF k
    <3>3. k \in Nat
      BY <3>1
    <3>4. IF E1 - k >= srcin THEN T = E1 - k ELSE T < srcin
      <4>1. E1 <= srcin + cntin - 1
        BY <1>1, <1>2 DEF E1
      <4>. QED
        BY <1>1, <1>2, <1>4, <1>5, <1>7, <3>1, <3>3, <4>1, DownStops
    <3>5. cntin > k <=> E1 - k >= srcin
      BY <1>1, <1>2, <1>4, <3>3
    <3>6. Ret
      BY <1>1, <1>4, <1>7, <3>2, <3>3, <3>4, <3>5
    <3>. QED
      BY <1>13, <2>1, <2>4, <2>5, <3>6
  <2>. QED
    BY <2>6, <2>7
<1>17. CASE memrchr!StartLoop
  <2> DEFINE left == (src - srcin) - 1
  <2>1. pc = "start_loop" /\ rd' = {} /\ src = Y /\ cntin > 0 /\ (T < src \/ T < srcin)
    BY <1>12, <1>17 DEF memrchr!StartLoop
  <2>2. left \in Int /\ left < cntin /\ (left \in Nat <=> src - srcin > 0)
    BY <1>1, <1>2, <1>4, <1>8, <1>12, <2>1
  <2>3. IF src - srcin <= 0
        THEN src' = src /\ cntrem' = cntrem /\ pc' = "ret" /\ result' = 0
        ELSE /\ cntrem' = left
             /\ IF (left \div W) % 2 = 0 THEN pc' = "loop32_2" /\ src' = src
                ELSE pc' = "loop32" /\ src' = src + W
    BY <1>17 DEF memrchr!StartLoop, memrchr!NoMatch, memrchr!NothingBelow
  <2>4. memrchr!Footprint'
    BY <1>11, <2>1
  <2>5. CASE src - srcin <= 0
    <3>1. Typed
      BY <1>2, <1>12, <2>3, <2>5
    <3>2. T < srcin
      BY <1>1, <1>7, <1>12, <2>1, <2>5
    <3>3. Ret
      BY <1>1, <1>7, <2>3, <2>5, <3>2
    <3>. QED
      BY <1>13, <2>1, <2>4, <3>1, <3>3
  <2>6. ASSUME ~(src - srcin <= 0) PROVE left \in Nat /\ T < src
    BY <1>1, <1>7, <1>12, <2>1, <2>6
  <2>7. CASE ~(src - srcin <= 0) /\ (left \div W) % 2 = 0
    <3>1. cntrem' = left /\ pc' = "loop32_2" /\ src' = src
      BY <2>3, <2>7
    <3>2. Typed
      BY <1>2, <1>12, <2>2, <2>6, <2>7, <3>1
    <3>3. ((src - W) + W - 1) - srcin = left
      BY <1>1, <1>12
    <3>4. Halves(src - W, left)
      BY <2>6, <2>7, <3>3 DEF Halves
    <3>5. Loop2
      BY <1>8, <2>1, <2>6, <2>7, <3>1, <3>4
    <3>. QED
      BY <1>13, <2>1, <2>4, <3>2, <3>5
  <2>8. CASE ~(src - srcin <= 0) /\ (left \div W) % 2 # 0
    <3>1. cntrem' = left /\ pc' = "loop32" /\ src' = src + W
      BY <2>3, <2>8
    <3>2. (src + W) % W = 0 /\ src + W \in Int
      BY <1>1, <1>12, ModPlus
    <3>3. Typed
      BY <1>2, <2>2, <2>6, <2>8, <3>1, <3>2
    <3>4. left - W >= 0 /\ ((left - W) \div W) % 2 = 0
      <4>1. left \in Nat
        BY <2>6, <2>8
      <4> HIDE DEF left
      <4>. QED
        BY <1>1, <2>8, <4>1, OddChunks
    <3>5. (((src + W) - 3 * W) + W - 1) - srcin = left - W /\ (src + W) - W = src
      BY <1>1, <1>12
    <3>6. left = (left - W) + W
      BY <1>1, <2>2
    <3>7. Halves((src + W) - 3 * W, left)
      BY <3>4, <3>5, <3>6 DEF Halves
    <3>8. Loop
      BY <1>8, <2>1, <2>6, <2>8, <3>1, <3>5, <3>7
    <3>. QED
      BY <1>13, <2>1, <2>4, <3>3, <3>8
  <2>. QED
    BY <2>5, <2>7, <2>8
<1>18. CASE memrchr!Loop32
  <2> DEFINE a == src - 2 * W
  <2>1. /\ pc = "loop32" /\ src' = a /\ rd' = Chunk(a, W) /\ cntrem' = cntrem
        /\ vdata' = ldrq(mem, a, big) /\ cntin > 0
    BY <1>12, <1>18, MemrchrNames DEF memrchr!Loop32, memrchr!LdrQ
  <2>2. /\ a \in Int /\ T < a + W /\ a + W <= E1 /\ Halves(a - W, cntrem)
    <3>1. src - 3 * W = (src - 2 * W) - W /\ src - W = (src - 2 * W) + W
      BY <1>1, <1>12
    <3>. QED
      BY <1>1, <1>12, <2>1, <3>1
  <2>3. a % W = 0
    BY <1>1, <1>12, ModPlus
  <2>4. pc' = IF Having(vdata', {chrin}) # {} THEN "end" ELSE "loop32_2"
    BY <1>18, Compared, MemrchrNames DEF memrchr!Loop32, memrchr!Found, memrchr!vhas_chr
  <2>5. Having(vdata', {chrin}) = {} <=> ChunkClean(mem, a, {chrin})
    BY <2>1, <2>2, <1>2, ldrqClean
  <2> HIDE DEF a
  <2>6. srcin < a
    <3>1. ((a - W) + W - 1) - srcin >= 0
      BY <2>2 DEF Halves
    <3>. QED
      BY <1>1, <2>2, <3>1
  <2>7. memrchr!Footprint'
    <3>1. srcin < a + W /\ a <= E1
      BY <1>1, <1>4, <2>2, <2>6
    <3>. QED
      BY <1>14, <2>1, <2>2, <2>3, <3>1
  <2>8. Typed
    BY <1>2, <1>12, <2>1, <2>2, <2>3
  <2>9. CASE ChunkClean(mem, a, {chrin})
    <3>1. T < a \/ T < srcin
      BY <1>1, <1>2, <1>5, <2>2, <2>9, DownPassed
    <3>2. T < a /\ a <= E1
      BY <1>1, <1>4, <1>7, <2>2, <2>6, <3>1
    <3>3. Loop2
      BY <2>1, <2>2, <2>4, <2>5, <2>9, <3>2
    <3>. QED
      BY <1>13, <2>1, <2>7, <2>8, <3>3
  <2>10. CASE ~ChunkClean(mem, a, {chrin})
    <3>1. srcin < a + W
      BY <1>1, <2>2, <2>6
    <3>2. End
      BY <2>1, <2>2, <2>4, <2>5, <2>10, <3>1
    <3>. QED
      BY <1>13, <2>1, <2>7, <2>8, <3>2
  <2>. QED
    BY <2>9, <2>10
<1>19. CASE memrchr!Loop32_2
  <2> DEFINE a == src - W
             left == ((a + W) - 1) - srcin
  <2>1. /\ pc = "loop32_2" /\ rd' = Chunk(a, W) /\ vdata' = ldrq(mem, a, big)
        /\ T < src /\ src <= E1 /\ cntin > 0 /\ Halves(a, cntrem)
    BY <1>12, <1>19, MemrchrNames DEF memrchr!Loop32_2, memrchr!LdrQ
  <2>2. a % W = 0 /\ a \in Int /\ a + W = src
    BY <1>1, <1>12, ModPlus
  <2>3. /\ cntrem' = (cntrem - 2 * W) % Size
        /\ IF cntrem < 2 * W \/ Having(vdata', {chrin}) # {}
           THEN pc' = "end" /\ src' = a ELSE pc' = "loop32" /\ src' = src
    BY <1>19, Compared, MemrchrNames DEF memrchr!Loop32_2, memrchr!Found, memrchr!vhas_chr
  <2>4. Having(vdata', {chrin}) = {} <=> ChunkClean(mem, a, {chrin})
    BY <2>1, <2>2, <1>2, ldrqClean
  <2>5. left \in Nat /\ (left \div W) % 2 = 0 /\ (cntrem = left \/ cntrem = left + W)
    <3> HIDE DEF a
    <3>1. left \in Int /\ left >= 0
      BY <1>1, <2>1, <2>2 DEF Halves
    <3>2. (left \div W) % 2 = 0 /\ (cntrem = left \/ cntrem = left + W)
      BY <1>1, <1>12, <2>1, <2>2, <3>1 DEF Halves
    <3>. QED
      BY <3>1, <3>2
  <2>6. srcin < a + W /\ T < a + W /\ a <= E1 /\ a + W <= E1
    BY <1>1, <1>4, <1>12, <2>1, <2>2, <2>5
  <2>7. memrchr!Footprint'
    BY <1>14, <2>1, <2>2, <2>6
  <2>8. Typed
    <3>1. cntrem' \in 0 .. (Size - 1)
      <4>1. cntrem - 2 * W \in Int /\ Size > 0
        BY <1>1, <1>2, <1>12
      <4>. QED
        BY <1>2, <2>3, <4>1, DivMod
    <3>. QED
      BY <1>1, <1>12, <2>2, <2>3, <3>1
  <2>9. CASE pc' = "end"
    <3>1. src' = a
      BY <2>3, <2>9
    <3>2. a <= srcin \/ ~ChunkClean(mem, a, {chrin})
      <4>1. CASE cntrem < 2 * W
        <5>1. left < 2 * W
          BY <1>1, <2>5, <4>1
        <5>2. left < W
          <6>1. SUFFICES ASSUME left >= W PROVE FALSE
            BY <1>1, <2>5
          <6> HIDE DEF left
          <6>2. left - 2 * W >= 0
            BY <1>1, <2>5, <6>1, EvenChunks
          <6>. QED
            BY <1>1, <2>5, <5>1, <6>2
        <5>. QED
          BY <1>1, <2>2, <5>2
      <4>. QED
        BY <2>3, <2>4, <2>9, <4>1
    <3>3. End
      BY <2>1, <2>6, <2>9, <3>1, <3>2
    <3>. QED
      BY <1>13, <2>1, <2>7, <2>8, <3>3
  <2>10. CASE pc' # "end"
    <3>1. pc' = "loop32" /\ src' = src /\ cntrem >= 2 * W /\ ChunkClean(mem, a, {chrin})
      <4>1. ~(cntrem < 2 * W) /\ Having(vdata', {chrin}) = {}
        BY <2>3, <2>10
      <4>2. cntrem >= 2 * W
        BY <1>1, <1>12, <4>1
      <4>. QED
        BY <2>3, <2>4, <4>1, <4>2
    <3>2. T < a \/ T < srcin
      BY <1>1, <1>2, <1>5, <2>2, <2>6, <3>1, DownPassed
    <3>3. cntrem' = cntrem - 2 * W
      <4>1. cntrem - 2 * W \in 0 .. (Size - 1)
        BY <1>1, <1>2, <1>12, <3>1
      <4>. QED
        BY <1>2, <2>3, <4>1, ModSmall
    <3>4. left - 2 * W >= 0 /\ ((left - 2 * W) \div W) % 2 = 0
      <4>1. left >= W
        BY <1>1, <1>12, <2>5, <3>1
      <4> HIDE DEF left
      <4>. QED
        BY <1>1, <2>5, <4>1, EvenChunks
    <3>5. ((src - 3 * W) + W - 1) - srcin = left - 2 * W
      BY <1>1, <1>12
    <3>6. cntrem' = left - 2 * W \/ cntrem' = (left - 2 * W) + W
      BY <1>1, <1>12, <2>5, <3>3
    <3>7. T < a
      BY <1>1, <1>7, <1>12, <2>2, <3>2, <3>4
    <3> HIDE DEF left
    <3>8. Halves(src - 3 * W, cntrem')
      BY <3>4, <3>5, <3>6 DEF Halves
    <3>9. Loop
      BY <2>6, <3>1, <3>7, <3>8
    <3>. QED
      BY <1>13, <2>1, <2>7, <2>8, <3>9
  <2>. QED
    BY <2>9, <2>10
<1>20. CASE memrchr!End
  <2> DEFINE X == Quads(Having(vdata, {chrin}))
             f == clz(IF big THEN rbit(X) ELSE X) \div 4
             e == src + (W - 1)
  <2>1. /\ pc = "end" /\ src' = src /\ cntrem' = cntrem /\ rd' = {} /\ pc' = "ret"
        /\ cntin > 0 /\ srcin < src + W /\ T < src + W /\ src + W <= E1
        /\ vdata = ldrq(mem, src, big)
        /\ src <= srcin \/ ~ChunkClean(mem, src, {chrin})
    BY <1>12, <1>20 DEF memrchr!End
  <2>2. result' = memrchr!Within((src + W - 1) - f)
    BY <1>20, Compared, MemrchrNames DEF memrchr!End, memrchr!LastOf, memrchr!vhas_chr
  <2>3. memrchr!Footprint'
    BY <1>11, <2>1
  <2>4. Typed
    BY <1>2, <1>12, <2>1
  <2>5. f \in Int /\ IF e - f >= srcin THEN T = e - f ELSE T < srcin
    <3>1. CASE ChunkClean(mem, src, {chrin})
      <4>1. Having(vdata, {chrin}) = {}
        BY <1>2, <1>12, <2>1, <3>1, ldrqClean
      <4>2. f = W
        BY <4>1, Compared, FirstOfNone
      <4> HIDE DEF f
      <4>3. T < src \/ T < srcin
        BY <1>1, <1>2, <1>5, <1>12, <2>1, <3>1, DownPassed
      <4>. QED
        BY <1>1, <1>7, <1>12, <2>1, <3>1, <4>2, <4>3
    <3>2. CASE ~ChunkClean(mem, src, {chrin})
      <4>1. f \in Lanes /\ Trails(mem, e, f, {chrin})
        BY <1>2, <1>12, <2>1, <3>2, ldrqLast
      <4> HIDE DEF f
      <4>2. e \in Int /\ e <= srcin + cntin - 1 /\ T <= e /\ f \in Nat
        BY <1>1, <1>2, <1>7, <1>12, <2>1, <4>1 DEF E1, Lanes
      <4> HIDE DEF e
      <4>. QED
        BY <1>1, <1>2, <1>5, <4>1, <4>2, DownStops
    <3>. QED
      BY <3>1, <3>2
  <2>6. (src + W - 1) - f = e - f
    BY <1>1, <1>12, <2>5
  <2> HIDE DEF f, e
  <2>7. Ret
    BY <1>1, <1>7, <2>1, <2>2, <2>5, <2>6 DEF memrchr!Within
  <2>. QED
    BY <1>13, <2>1, <2>3, <2>4, <2>7
<1>. QED
  BY <1>15, <1>16, <1>17, <1>18, <1>19, <1>20 DEF memrchr!Next

-----------------------------------------------------------------------------
\* strrchr.

LEMMA StrrchrNames ==
    /\ strrchr!Lanes = Lanes /\ strrchr!XBits = XBits /\ strrchr!AllOnes = AllOnes
    /\ \A m, a : strrchr!ld1(m, a) = ld1(m, a)
    /\ \A m, a, b : strrchr!ldrq(m, a, b) = ldrq(m, a, b)
    /\ \A v, c : strrchr!cmeq(v, c) = cmeq(v, c)
    /\ \A V, v : strrchr!cmhs(V, v) = cmhs(V, v)
    /\ \A D, V, m : strrchr!bit(D, V, m) = bit(D, V, m) /\ strrchr!bif(D, V, m) = bif(D, V, m)
    /\ \A P : strrchr!Repeated(P) = Repeated(P)
    /\ \A V : strrchr!shrn(V) = shrn(V) /\ strrchr!fmov(V) = fmov(V)
    /\ \A U, V : strrchr!umaxp(U, V) = umaxp(U, V) /\ strrchr!addp(U, V) = addp(U, V)
                 /\ strrchr!and(U, V) = and(U, V)
    /\ \A X, n : strrchr!lsr(X, n) = lsr(X, n) /\ strrchr!lsl(X, n) = lsl(X, n)
    /\ \A X : strrchr!clz(X) = clz(X) /\ strrchr!rbit(X) = rbit(X)
              /\ strrchr!MinusOne(X) = MinusOne(X) /\ strrchr!Max(X) = Max(X)
    /\ \A a, C : strrchr!First(a, C) = First(a, C)
    /\ \A l, h, g : strrchr!Granules(l, h, g) = Granules(l, h, g)
    /\ \A a, n : strrchr!Chunk(a, n) = Chunk(a, n) /\ strrchr!Aligned(a, n) = Aligned(a, n)
  BY DEF strrchr!Lanes, strrchr!ld1, strrchr!ldrq, strrchr!cmeq, strrchr!cmhs, strrchr!bit,
         strrchr!bif, strrchr!Repeated, strrchr!shrn, strrchr!fmov, strrchr!umaxp, strrchr!addp,
         strrchr!and, strrchr!lsr, strrchr!lsl, strrchr!clz, strrchr!rbit, strrchr!MinusOne,
         strrchr!First, strrchr!Granules, strrchr!Chunk, strrchr!Aligned, strrchr!AllOnes,
         strrchr!Max, strrchr!Min, strrchr!XBits, strrchr!Pairwise, strrchr!LargerByte,
         strrchr!SymmetricDiff, strrchr!AddedBytes, strrchr!Sum,
         Lanes, ld1, ldrq, cmeq, cmhs, bit, bif, Repeated, shrn, fmov, umaxp, addp, and, lsr,
         lsl, clz, rbit, MinusOne, First, Granules, Chunk, Aligned, AllOnes, Max, Min, XBits,
         Pairwise, LargerByte, SymmetricDiff, AddedBytes, Sum

\* The lanes of the chunk at a that have a byte of C of the string.
From(a, C) == {i \in Lanes : a + i >= srcin /\ mem[a + i] \in C}

\* Z is the NUL: a chunk no further than it has it, as the first, or has none.
LEMMA NulIn ==
    ASSUME mem \in Memories, srcin \in Nat, NEW Z, IsFirst(Z, srcin, {0}),
           NEW a \in Nat, a % W = 0, a <= Z
    PROVE  /\ From(a, {0}) = {} => a + W <= Z
           /\ From(a, {0}) # {} => Z - a \in From(a, {0}) /\ \A i \in From(a, {0}) : Z - a <= i
<1>1. Z \in DOMAIN mem /\ Z \in Nat /\ mem[Z] \in {0} /\ srcin <= Z
  BY DEF IsFirst
<1>2. W \in Nat /\ W > 0
  BY WAssumption
<1>3. Z < a + W => Z - a \in From(a, {0})
  <2>1. Z < a + W => Z - a \in Lanes /\ a + (Z - a) = Z
    BY <1>1, <1>2 DEF Lanes
  <2>. QED
    BY <1>1, <2>1 DEF From
<1>4. ASSUME NEW i \in From(a, {0}) PROVE Z - a <= i /\ Z < a + W
  <2>1. i \in Lanes /\ a + i >= srcin /\ mem[a + i] \in {0} /\ i \in 0 .. (W - 1)
    BY DEF From, Lanes
  <2>2. a + i \in DOMAIN mem
    BY <1>1, <2>1, InMemory
  <2>3. Z <= a + i
    BY <2>1, <2>2 DEF IsFirst
  <2>. QED
    BY <1>1, <1>2, <2>1, <2>3
<1>. QED
  BY <1>1, <1>2, <1>3, <1>4

\* x is the last match below the address top; the highest bits of the syndrome of
\* a chunk, as far as its lane n, are those of one.
IsLastBelow(x, top) == /\ x \in srcin .. (top - 1) /\ mem[x] = chrin
                       /\ \A y \in (x + 1) .. (top - 1) : mem[y] # chrin

LEMMA LastIn ==
    ASSUME srcin \in Nat, NEW a \in Int, NEW n \in Lanes,
           NEW Q, Q = {i \in From(a, {chrin}) : i <= n}, Q # {},
           NEW k, IsLastIn(k, Q)
    PROVE  IsLastBelow((a + (W - 1)) - k, a + n + 1)
<1> DEFINE l == (W - 1) - k
<1>1. k \in 0 .. (W - 1) /\ n \in 0 .. (W - 1) /\ W \in Nat
  BY WAssumption DEF Lanes, IsLastIn
<1>2. l \in Int /\ (a + (W - 1)) - k = a + l
  BY <1>1
<1>3. l \in From(a, {chrin}) /\ l <= n
  BY DEF IsLastIn
<1>4. l \in 0 .. (W - 1) /\ a + l >= srcin /\ mem[a + l] = chrin
  BY <1>3 DEF From, Lanes
<1> HIDE DEF l
<1>5. a + l \in srcin .. ((a + n + 1) - 1)
  BY <1>1, <1>2, <1>3, <1>4
<1>6. ASSUME NEW y \in (a + l + 1) .. ((a + n + 1) - 1), mem[y] = chrin PROVE FALSE
  <2>1. y - a \in Lanes /\ a + (y - a) = y /\ y >= srcin /\ y - a <= n /\ y - a > l
    BY <1>1, <1>4, <1>6 DEF Lanes
  <2>2. y - a \in Q
    BY <1>6, <2>1 DEF From
  <2>3. k <= (W - 1) - (y - a)
    BY <2>2 DEF IsLastIn
  <2>. QED
    BY <1>1, <1>2, <2>1, <2>3 DEF l
<1>. QED
  BY <1>2, <1>4, <1>5, <1>6 DEF IsLastBelow

\* With no match in the chunk, the last one stays the last.
LEMMA LastStays ==
    ASSUME srcin \in Nat, NEW a \in Int, NEW n \in Lanes, NEW x, IsLastBelow(x, a),
           {i \in From(a, {chrin}) : i <= n} = {}
    PROVE  IsLastBelow(x, a + n + 1)
<1>1. n \in 0 .. (W - 1) /\ W \in Nat
  BY WAssumption DEF Lanes
<1>2. x \in srcin .. (a - 1) /\ mem[x] = chrin /\ \A y \in (x + 1) .. (a - 1) : mem[y] # chrin
  BY DEF IsLastBelow
<1>3. ASSUME NEW y \in (x + 1) .. ((a + n + 1) - 1), mem[y] = chrin PROVE FALSE
  <2>1. y >= a
    BY <1>2, <1>3
  <2>2. y - a \in Lanes /\ a + (y - a) = y /\ y >= srcin /\ y - a <= n
    BY <1>1, <1>2, <2>1 DEF Lanes
  <2>. QED
    BY <1>3, <2>2 DEF From
<1>4. x \in srcin .. ((a + n + 1) - 1)
  BY <1>1, <1>2
<1>. QED
  BY <1>2, <1>3, <1>4 DEF IsLastBelow

LEMMA BeforeNulIs ==
    ASSUME NEW X \in SUBSET XBits
    PROVE  /\ strrchr!BeforeNul(X) = {k \in X : k % 4 < 2} \cap MinusOne(NulsOf(X))
           /\ X \cap strrchr!NulBits = NulsOf(X)
<1>1. X \cap strrchr!NulBits = NulsOf(X)
  BY StrrchrNames DEF strrchr!NulBits, NulsOf
<1>2. X \cap strrchr!ChrBits = {k \in X : k % 4 < 2}
  BY StrrchrNames DEF strrchr!ChrBits
<1>. QED
  BY <1>1, <1>2, StrrchrNames DEF strrchr!BeforeNul

LEMMA NulsOfPairs ==
    ASSUME NEW M \in SUBSET Lanes, NEW P \in SUBSET Lanes
    PROVE  NulsOf(Pairs(M, P)) = {} <=> P = {}
<1>1. ASSUME NEW i \in P PROVE 4 * i + 2 \in NulsOf(Pairs(M, P))
  <2>1. i \in 0 .. (W - 1)
    BY DEF Lanes
  <2>2. /\ 4 * i + 2 \in XBits /\ (4 * i + 2) \div 4 = i /\ (4 * i + 2) % 4 = 2
        /\ ~(2 < 2) /\ 2 >= 2
    BY <2>1, WAssumption DEF XBits
  <2>. QED
    BY <2>2 DEF NulsOf, Pairs
<1>2. ASSUME NEW k \in NulsOf(Pairs(M, P)) PROVE k \div 4 \in P
  <2>1. k \in XBits /\ k % 4 >= 2 /\ k \div 4 \in (IF k % 4 < 2 THEN M ELSE P)
    BY DEF NulsOf, Pairs
  <2>2. ~(k % 4 < 2)
    BY <2>1 DEF XBits
  <2>. QED
    BY <2>1, <2>2
<1>. QED
  BY <1>1, <1>2

\* The matches of the chunk at a, that has the NUL, are the last, or there are none.
LEMMA TailIs ==
    ASSUME mem \in Memories, srcin \in Nat, NEW Z, IsFirst(Z, srcin, {0}),
           NEW a \in Nat, a % W = 0, a <= Z, From(a, {0}) # {},
           NEW X \in SUBSET XBits,
           SameUpTo(X, Pairs(From(a, {chrin}), From(a, {0})), Z - a),
           NEW B, B = strrchr!BeforeNul(X)
    PROVE  /\ B # {} => IsLastBelow((a + (W - 1)) - (clz(B) \div 4), Z + 1)
           /\ B = {} => {i \in From(a, {chrin}) : i <= Z - a} = {}
           /\ Z - a \in Lanes
<1> DEFINE M == From(a, {chrin})
           P == From(a, {0})
           n == Z - a
           Q == {i \in M : i <= n}
           k == clz(B) \div 4
<1>1. M \in SUBSET Lanes /\ P \in SUBSET Lanes
  BY DEF From
<1>2. n \in P /\ \A i \in P : n <= i
  BY NulIn
<1>3. Z \in Nat
  BY DEF IsFirst
<1>4. a + n + 1 = Z + 1
  BY <1>3
<1>5. Q = {i \in From(a, {chrin}) : i <= n} /\ Q \in SUBSET Lanes
  BY <1>1
<1> HIDE DEF M, P, n
<1>6. B = Pairs(Q, {})
  <2>1. SameUpTo(X, Pairs(M, P), n)
    BY DEF n, M, P
  <2>2. {j \in X : j % 4 < 2} \cap MinusOne(NulsOf(X)) = Pairs({i \in M : i <= n}, {})
    BY <1>1, <1>2, <2>1, UpToNul
  <2>. QED
    BY <2>2, BeforeNulIs
<1> HIDE DEF Q
<1>7. /\ B = {} <=> Q = {}
      /\ Q # {} => IsLastIn(k, Q)
  BY <1>5, <1>6, PairsLastOf
<1>8. n \in Lanes
  BY <1>1, <1>2
<1> HIDE DEF k
<1>9. ASSUME Q # {} PROVE IsLastBelow((a + (W - 1)) - k, a + n + 1)
  <2>1. IsLastIn(k, Q) /\ a \in Int
    BY <1>7, <1>9
  <2>2. Q = {i \in From(a, {chrin}) : i <= n}
    BY <1>5
  <2>. QED
    BY <1>8, <1>9, <2>1, <2>2, LastIn
<1>10. n = Z - a
  BY DEF n
<1>. QED
  BY <1>4, <1>5, <1>7, <1>8, <1>9, <1>10 DEF k

\* What is returned.
LEMMA StrrchrAnswer ==
    ASSUME srcin \in Nat, NEW Z \in Nat, Z = strrchr!Nul
    PROVE  /\ \A x : IsLastBelow(x, Z + 1) => strrchr!Answer = x
           /\ (\A x \in srcin .. Z : mem[x] # chrin) => strrchr!Answer = 0
<1> DEFINE M == {x \in srcin .. Z : mem[x] = chrin}
<1>1. strrchr!Answer = IF M = {} THEN 0 ELSE Max(M)
  BY StrrchrNames DEF strrchr!Answer, strrchr!Matches
<1>2. ASSUME NEW x, IsLastBelow(x, Z + 1) PROVE strrchr!Answer = x
  <2>1. x \in srcin .. Z /\ mem[x] = chrin /\ \A y \in (x + 1) .. Z : mem[y] # chrin
    BY <1>2 DEF IsLastBelow
  <2>2. ASSUME NEW y \in M PROVE y <= x
    BY <2>1
  <2>3. x \in M /\ M \subseteq Int
    BY <2>1
  <2>4. Max(M) = x
    BY <2>2, <2>3, MaxIs
  <2>. QED
    BY <1>1, <2>3, <2>4
<1>3. (\A x \in srcin .. Z : mem[x] # chrin) => M = {}
  OBVIOUS
<1>. QED
  BY <1>1, <1>2, <1>3

\* What a chunk of the string, from the pointer on, has.
LEMMA HavingIs ==
    ASSUME srcin \in Nat, NEW a \in Int, srcin <= a, NEW C
    PROVE  {i \in Lanes : mem[a + i] \in C} = From(a, C) /\ Having(ld1(mem, a), C) = From(a, C)
<1>1. ASSUME NEW i \in Lanes PROVE a + i >= srcin /\ ld1(mem, a)[i] = mem[a + i]
  BY WAssumption DEF Lanes, ld1
<1>. QED
  BY <1>1 DEF From, Having

LEMMA HeadHaving ==
    ASSUME srcin \in Nat, NEW C
    PROVE  {i \in Having(ld1(mem, srcin - (srcin % W)), C) : i >= srcin % W}
           = From(srcin - (srcin % W), C)
<1> DEFINE Y == srcin - (srcin % W)
<1>1. ASSUME NEW i \in Lanes
      PROVE  (Y + i >= srcin <=> i >= srcin % W) /\ ld1(mem, Y)[i] = mem[Y + i]
  <2>1. i \in Int /\ srcin % W \in Int
    BY WAssumption, DivMod DEF Lanes
  <2>. QED
    BY <2>1 DEF ld1
<1> HIDE DEF Y
<1>2. Having(ld1(mem, Y), C) = {i \in Lanes : mem[Y + i] \in C}
  BY <1>1 DEF Having
<1>3. {i \in {j \in Lanes : mem[Y + j] \in C} : i >= srcin % W} = From(Y, C)
  BY <1>1 DEF From
<1>. QED
  BY <1>2, <1>3 DEF Y

\* What the first of the loops leaves to the second, or answers.
LEMMA FirstMatches ==
    ASSUME mem \in Memories, srcin \in Nat, NEW Z \in Nat, Z = strrchr!Nul, IsFirst(Z, srcin, {0}),
           NEW a \in Nat, a % W = 0, a <= Z, \A x \in srcin .. (a - 1) : mem[x] # chrin,
           NEW X, X = Pairs(From(a, {chrin}), From(a, {0}))
    PROVE  /\ X \cap strrchr!NulBits # {} =>
                strrchr!Answer = IF strrchr!BeforeNul(X) = {} THEN 0
                                 ELSE (a + (W - 1)) - (clz(strrchr!BeforeNul(X)) \div 4)
           /\ X \cap strrchr!NulBits = {} => a + W <= Z
           /\ X \cap strrchr!NulBits = {} /\ X # {} =>
                IsLastBelow((a + (W - 1)) - (clz(X) \div 4), a + W)
           /\ X = {} <=> From(a, {chrin}) = {} /\ From(a, {0}) = {}
<1> DEFINE M == From(a, {chrin})
           P == From(a, {0})
           B == strrchr!BeforeNul(X)
           x == (a + (W - 1)) - (clz(B) \div 4)
           k == clz(X) \div 4
<1>1. M \in SUBSET Lanes /\ P \in SUBSET Lanes
  BY DEF From
<1>2. M = From(a, {chrin}) /\ P = From(a, {0}) /\ B = strrchr!BeforeNul(X) /\ X = Pairs(M, P)
  OBVIOUS
<1> HIDE DEF M, P, B
<1>3. X \in SUBSET XBits
  BY <1>2 DEF Pairs
<1>4. X \cap strrchr!NulBits = {} <=> P = {}
  <2>1. X \cap strrchr!NulBits = NulsOf(X)
    BY <1>3, BeforeNulIs
  <2>2. NulsOf(Pairs(M, P)) = {} <=> P = {}
    BY <1>1, NulsOfPairs
  <2>. QED
    BY <1>2, <2>1, <2>2
<1>5. ASSUME P # {} PROVE strrchr!Answer = IF B = {} THEN 0 ELSE x
  <2>1. SameUpTo(X, Pairs(From(a, {chrin}), From(a, {0})), Z - a)
    BY DEF SameUpTo
  <2>2. From(a, {0}) # {}
    BY <1>2, <1>5
  <2>3. /\ B # {} => IsLastBelow((a + (W - 1)) - (clz(B) \div 4), Z + 1)
        /\ B = {} => {i \in From(a, {chrin}) : i <= Z - a} = {}
        /\ Z - a \in Lanes
    BY <1>2, <1>3, <2>1, <2>2, TailIs
  <2> HIDE DEF x
  <2>4. CASE B # {}
    <3>1. IsLastBelow(x, Z + 1)
      BY <2>3, <2>4 DEF x
    <3>. QED
      BY <2>4, <3>1, StrrchrAnswer
  <2>5. CASE B = {}
    <3>1. ASSUME NEW y \in srcin .. Z, mem[y] = chrin PROVE FALSE
      <4>1. y >= a
        BY <3>1
      <4>2. Z - a \in 0 .. (W - 1) /\ W \in Nat
        BY <2>3, WAssumption DEF Lanes
      <4>3. y - a \in Lanes /\ a + (y - a) = y /\ y >= srcin /\ y - a <= Z - a
        BY <3>1, <4>1, <4>2 DEF Lanes
      <4>4. y - a \in From(a, {chrin})
        BY <3>1, <4>3 DEF From
      <4>. QED
        BY <2>3, <2>5, <4>3, <4>4
    <3>. QED
      BY <2>5, <3>1, StrrchrAnswer
  <2>. QED
    BY <2>4, <2>5
<1>6. P = {} => a + W <= Z
  BY <1>2, NulIn
<1>7. X = {} <=> M \cup P = {}
  <2>1. Pairs(M, P) = {} <=> M \cup P = {}
    BY <1>1, PairsEmpty
  <2>. QED
    BY <1>2, <2>1
<1>8. ASSUME P = {}, X # {} PROVE IsLastBelow((a + (W - 1)) - k, a + W)
  <2>1. X = Pairs(M, {}) /\ M # {}
    BY <1>2, <1>7, <1>8
  <2>2. k = clz(Pairs(M, {})) \div 4
    BY <2>1
  <2> HIDE DEF k
  <2>3. IsLastIn(k, M)
    BY <1>1, <2>1, <2>2, PairsLastOf
  <2>4. W - 1 \in Lanes /\ a + (W - 1) + 1 = a + W /\ a \in Int
    BY WAssumption DEF Lanes
  <2>5. \A i \in M : i <= W - 1
    BY <1>1, WAssumption DEF Lanes
  <2>6. M = {i \in From(a, {chrin}) : i <= W - 1}
    BY <1>2, <2>5
  <2>7. IsLastBelow((a + (W - 1)) - k, a + (W - 1) + 1)
    BY <2>1, <2>3, <2>4, <2>6, LastIn
  <2>. QED
    BY <2>4, <2>7
<1>. QED
  BY <1>2, <1>4, <1>5, <1>6, <1>7, <1>8 DEF k, x

\* The data of the second loop, for a chunk of the string.
LEMMA KeptLanes ==
    ASSUME NEW v, NEW c, NEW V,
           V = bit(cmeq(v, 0), cmeq(v, c), [i \in Lanes |-> IF i % 2 = 0 THEN {0, 1} ELSE {0, 1, 4, 5}])
    PROVE  /\ \A i \in Lanes : V[i] = KeptLane(i, Having(v, {c}), Having(v, {0}))
           /\ \A i \in Lanes : and(V, strrchr!NotLowerOdd)[i]
                               = KeptLane(i, Having(v, {c}), Having(v, {0}))
                                 \cap (IF i % 2 = 0 THEN AllOnes ELSE 4 .. 7)
<1>1. ASSUME NEW i \in Lanes PROVE V[i] = KeptLane(i, Having(v, {c}), Having(v, {0}))
  <2>1. {0, 1} \subseteq AllOnes /\ {0, 1, 4, 5} \subseteq AllOnes
    BY DEF AllOnes
  <2> DEFINE mask == IF i % 2 = 0 THEN {0, 1} ELSE {0, 1, 4, 5}
  <2>2. V[i] = (cmeq(v, 0)[i] \ mask) \cup (cmeq(v, c)[i] \cap mask)
    BY DEF bit
  <2>3. mask \subseteq AllOnes
    BY <2>1
  <2>4. cmeq(v, 0)[i] = (IF v[i] = 0 THEN AllOnes ELSE {}) /\ cmeq(v, c)[i] = (IF v[i] = c THEN AllOnes ELSE {})
    BY DEF cmeq
  <2>5. (i \in Having(v, {c}) <=> v[i] = c) /\ (i \in Having(v, {0}) <=> v[i] = 0)
    BY DEF Having
  <2>6. KeptLane(i, Having(v, {c}), Having(v, {0}))
        = (IF i \in Having(v, {c}) THEN mask ELSE {}) \cup (IF i \in Having(v, {0}) THEN AllOnes \ mask ELSE {})
    BY DEF KeptLane
  <2> HIDE DEF mask
  <2>. QED
    BY <2>2, <2>3, <2>4, <2>5, <2>6
<1>2. ASSUME NEW i \in Lanes
      PROVE  and(V, strrchr!NotLowerOdd)[i] = V[i] \cap (IF i % 2 = 0 THEN AllOnes ELSE 4 .. 7)
  BY StrrchrNames DEF and, strrchr!NotLowerOdd
<1>. QED
  BY <1>1, <1>2

\* What the second loop keeps of a chunk without a NUL, or notices of one with it.
LEMMA LoopKeeps ==
    ASSUME mem \in Memories, srcin \in Nat, NEW Z \in Nat, IsFirst(Z, srcin, {0}),
           NEW a \in Nat, a % W = 0, srcin <= a, a <= Z,
           NEW x, IsLastBelow(x, a),
           NEW V, \A i \in Lanes : V[i] = KeptLane(i, From(a, {chrin}), From(a, {0})),
           NEW X, X = fmov(umaxp(V, V))
    PROVE  /\ X \cap strrchr!NulBits # {} => Z < a + W
           /\ X \cap strrchr!NulBits = {} =>
                /\ a + W <= Z
                /\ X = {} => IsLastBelow(x, a + W)
                /\ X # {} => IsLastBelow((a + (W - 1)) - (clz(X) \div 4), a + W)
<1> DEFINE M == From(a, {chrin})
           P == From(a, {0})
           k == clz(X) \div 4
<1>1. M \in SUBSET Lanes /\ P \in SUBSET Lanes
  BY DEF From
<1>2. M = From(a, {chrin}) /\ P = From(a, {0})
  OBVIOUS
<1>3. \A i \in Lanes : V[i] = KeptLane(i, M, P)
  OBVIOUS
<1> HIDE DEF M, P
<1>4. /\ X \in SUBSET XBits
      /\ NulsOf(X) = {} <=> P = {}
      /\ P = {} => X = Pairs(Smear(M), {})
  <2>1. X \in SUBSET XBits
    BY <1>1, <1>3, KeptSyndrome
  <2>2. NulsOf(X) = {} <=> P = {}
    BY <1>1, <1>3, KeptSyndrome
  <2>3. P = {} => X = Pairs(Smear(M), {})
    BY <1>1, <1>3, KeptSyndrome
  <2>. QED
    BY <2>1, <2>2, <2>3
<1>5. X \cap strrchr!NulBits = {} <=> P = {}
  BY <1>4, BeforeNulIs
<1>6. P # {} => Z < a + W
  <2>1. From(a, {0}) # {} => Z - a \in From(a, {0})
    BY NulIn
  <2>2. ASSUME Z - a \in P PROVE Z < a + W
    <3>1. Z - a \in 0 .. (W - 1) /\ W \in Nat
      BY <1>1, <2>2, WAssumption DEF Lanes
    <3>. QED
      BY <3>1
  <2>. QED
    BY <1>2, <2>1, <2>2
<1>7. P = {} => a + W <= Z
  BY <1>2, NulIn
<1>8. W - 1 \in Lanes /\ a + (W - 1) + 1 = a + W /\ a \in Int
  BY WAssumption DEF Lanes
<1>9. {} \in SUBSET Lanes /\ Smear(M) \in SUBSET Lanes /\ (Smear(M) = {} <=> M = {})
  BY <1>1 DEF Smear
<1>10. Pairs(Smear(M), {}) = {} <=> M = {}
  <2>1. Pairs(Smear(M), {}) = {} <=> Smear(M) \cup {} = {}
    BY <1>9, PairsEmpty
  <2>. QED
    BY <1>9, <2>1
<1>11. ASSUME P = {}, X = {} PROVE IsLastBelow(x, a + W)
  <2>1. {i \in From(a, {chrin}) : i <= W - 1} = {}
    BY <1>2, <1>4, <1>10, <1>11
  <2>2. IsLastBelow(x, a + (W - 1) + 1)
    BY <1>8, <2>1, LastStays
  <2>. QED
    BY <1>8, <2>2
<1>12. ASSUME P = {}, X # {} PROVE IsLastBelow((a + (W - 1)) - k, a + W)
  <2>1. M # {} /\ X = Pairs(Smear(M), {})
    BY <1>4, <1>10, <1>12
  <2>2. k = clz(Pairs(Smear(M), {})) \div 4
    BY <2>1
  <2> HIDE DEF k
  <2>3. IsLastIn(k, M)
    BY <1>1, <2>1, <2>2, SmearLast
  <2>4. \A i \in M : i <= W - 1
    BY <1>1, WAssumption DEF Lanes
  <2>5. M = {i \in From(a, {chrin}) : i <= W - 1}
    BY <1>2, <2>4
  <2>6. IsLastBelow((a + (W - 1)) - k, a + (W - 1) + 1)
    BY <1>8, <2>1, <2>3, <2>5, LastIn
  <2>. QED
    BY <1>8, <2>6
<1>. QED
  BY <1>5, <1>6, <1>7, <1>11, <1>12

\* V has the lanes that the second loop keeps, less the lower bits of odd ones.
LessLowerOdd(V, M, P) ==
    \A i \in Lanes : V[i] = KeptLane(i, M, P) \cap (IF i % 2 = 0 THEN AllOnes ELSE 4 .. 7)

\* The answer is the last of the matches B of the chunk at a, or else x.
AnswerIs(B, a, x) == strrchr!Answer = IF B = {} THEN x ELSE (a + (W - 1)) - (clz(B) \div 4)

\* What is answered from the chunk with the NUL.
LEMMA EndKeeps ==
    ASSUME mem \in Memories, srcin \in Nat, NEW Z \in Nat, Z = strrchr!Nul, IsFirst(Z, srcin, {0}),
           NEW a \in Nat, a % W = 0, srcin <= a, a <= Z, Z < a + W,
           NEW x, IsLastBelow(x, a),
           NEW V, LessLowerOdd(V, From(a, {chrin}), From(a, {0})),
           NEW X, X = fmov(addp(V, V)), NEW B, B = strrchr!BeforeNul(X)
    PROVE  AnswerIs(B, a, x)
<1> DEFINE M == From(a, {chrin})
           P == From(a, {0})
           n == Z - a
           y == (a + (W - 1)) - (clz(B) \div 4)
<1>1. M \in SUBSET Lanes /\ P \in SUBSET Lanes
  BY DEF From
<1>2. M = From(a, {chrin}) /\ P = From(a, {0}) /\ n = Z - a
  OBVIOUS
<1>3. \A i \in Lanes : V[i] = KeptLane(i, M, P) \cap (IF i % 2 = 0 THEN AllOnes ELSE 4 .. 7)
  BY DEF LessLowerOdd
<1>4. From(a, {0}) # {}
  <2>1. ~(a + W <= Z)
    BY WAssumption
  <2>. QED
    BY <2>1, NulIn
<1>5. n \in P /\ \A i \in P : n <= i
  BY <1>4, NulIn
<1>6. a + n + 1 = Z + 1 /\ a \in Int
  OBVIOUS
<1> HIDE DEF M, P, n, y
<1>7. X \in SUBSET XBits /\ SameUpTo(X, Pairs(M, P), n)
  BY <1>1, <1>3, <1>5, AddedSyndrome
<1>8. X \in SUBSET XBits /\ SameUpTo(X, Pairs(From(a, {chrin}), From(a, {0})), Z - a)
  BY <1>2, <1>7
<1>9. /\ B # {} => IsLastBelow((a + (W - 1)) - (clz(B) \div 4), Z + 1)
      /\ B = {} => {i \in From(a, {chrin}) : i <= Z - a} = {}
      /\ Z - a \in Lanes
  BY <1>4, <1>8, TailIs
<1>10. CASE B # {}
  <2>1. IsLastBelow(y, Z + 1)
    BY <1>9, <1>10 DEF y
  <2>2. strrchr!Answer = y
    BY <2>1, StrrchrAnswer
  <2>. QED
    BY <1>10, <2>2 DEF y, AnswerIs
<1>11. CASE B = {}
  <2>1. n \in Lanes /\ {i \in From(a, {chrin}) : i <= n} = {}
    BY <1>2, <1>9, <1>11
  <2>2. IsLastBelow(x, a + n + 1)
    BY <1>6, <2>1, LastStays
  <2>3. strrchr!Answer = x
    BY <1>6, <2>2, StrrchrAnswer
  <2>. QED
    BY <1>11, <2>3 DEF AnswerIs
<1>. QED
  BY <1>10, <1>11

LEMMA StrrchrInv ==
    ASSUME GivenOK, CharOK, strrchr!IInv, strrchr!Next
    PROVE  strrchr!IInv'
<1> DEFINE B == {chrin, 0}
           F == First(srcin, B)
           Z == First(srcin, {0})
           Y == srcin - (srcin % W)
           A == strrchr!Answer
           K(after, X) == (after - 1) - (clz(X) \div 4)
<1>1. srcin \in Nat /\ IsFirst(F, srcin, B) /\ F \in Nat /\ srcin <= F
  BY ByteIs DEF IsFirst
<1>2. IsFirst(Z, srcin, {0}) /\ Z \in Nat /\ srcin <= Z
  BY ByteIs DEF IsFirst
<1>3. mem \in Memories /\ big \in BOOLEAN
  BY DEF GivenOK
<1>4. SameGiven /\ chrin' = chrin
  BY DEF SameGiven, strrchr!Next, strrchr!Entry, strrchr!Loop1, strrchr!Loop1Half,
         strrchr!Loop1End, strrchr!Loop2Start, strrchr!Loop2, strrchr!Loop2End,
         strrchr!Continue, strrchr!LoopLoad, strrchr!given
<1>5. F' = F /\ Z' = Z
  BY <1>4, FirstSame DEF SameGiven
<1>6. strrchr!Any = F /\ strrchr!Any' = F
  BY <1>4, <1>5, StrrchrNames DEF strrchr!Any, strrchr!First, strrchr!Min, First, Min, SameGiven
<1>7. strrchr!Nul = Z /\ strrchr!Nul' = Z
  BY <1>4, <1>5, StrrchrNames DEF strrchr!Nul, strrchr!First, strrchr!Min, First, Min, SameGiven
<1>8. strrchr!Answer' = A
  BY <1>4, <1>7 DEF strrchr!Answer, strrchr!Matches, strrchr!Max, SameGiven
<1>9. Y \in Nat /\ Y % W = 0 /\ Y <= srcin /\ srcin < Y + W
  BY <1>1, HeadIs
<1>10. W \in Nat /\ W > 0
  BY WAssumption
<1>11. F <= Z /\ \A x \in srcin .. (F - 1) : mem[x] # chrin
  <2>1. Z \in DOMAIN mem /\ mem[Z] = 0
    BY <1>2 DEF IsFirst
  <2>2. F <= Z
    BY <1>1, <1>2, <2>1 DEF IsFirst
  <2>3. PICK n \in DOMAIN mem : DOMAIN mem = 0 .. n
    BY <1>3, MemoriesAssumption
  <2>4. F \in 0 .. n
    BY <1>1, <2>3 DEF IsFirst
  <2>5. ASSUME NEW x \in srcin .. (F - 1), mem[x] = chrin PROVE FALSE
    <3>1. x \in DOMAIN mem /\ x >= srcin /\ mem[x] \in B /\ ~(F <= x)
      BY <1>1, <2>3, <2>4, <2>5
    <3>. QED
      BY <1>1, <3>1 DEF IsFirst
  <2>. QED
    BY <2>2, <2>5
<1> HIDE DEF F, Z, Y
<1>12. /\ src \in Int /\ src % W = 0
       /\ pc = "entry" => src = Y /\ result = 0
       /\ pc \in {"loop1", "loop1_end"} => srcin < src + W /\ src + W <= F
       /\ pc = "loop1_half" => srcin < src + 2 * W /\ src + 2 * W <= F
       /\ pc = "loop1_end" => vdata = ldrq(mem, src + W, big) /\ ~ChunkClean(mem, src + W, B)
       /\ pc = "loop2_start" => /\ synd # {} /\ src + W <= Z
                                /\ IsLastBelow(K(src + W, synd), src + W)
       /\ pc = "loop2" => /\ src <= Z
                          /\ IF synd = {} THEN IsLastBelow(K(src_match, chr_match), src)
                             ELSE IsLastBelow(K(src, synd), src)
       /\ pc = "loop2_end" => /\ src - W <= Z /\ Z < src /\ vdata = ld1(mem, src - W)
                              /\ IsLastBelow(K(src_match, chr_match), src - W)
  BY <1>6, <1>7, StrrchrNames DEF strrchr!IInv, Aligned, Y, ChunkClean, IsLastBelow,
     strrchr!LastMatch, strrchr!Kept
<1>13. ASSUME NEW a \in Int, a % W = 0, Y <= a, a <= Z, rd' = Chunk(a, W)
       PROVE  strrchr!Footprint'
  <2>1. Chunk(a, W) \subseteq Granules(srcin, Z, W)
    BY <1>1, <1>2, <1>13, MayLoad DEF Y
  <2>. QED
    BY <1>4, <1>7, <1>13, <2>1, StrrchrNames DEF strrchr!Footprint, SameGiven, Granules
<1>14. (src + W) % W = 0 /\ (src + 2 * W) % W = 0 /\ (src - W) % W = 0
  <2>1. (src + W) % W = 0
    BY <1>10, <1>12, ModPlus
  <2>2. ((src + W) + W) % W = 0
    BY <1>10, <1>12, <2>1, ModPlus
  <2>3. (src - W) % W = 0
    BY <1>10, <1>12, ModPlus
  <2>. QED
    BY <1>10, <1>12, <2>1, <2>2, <2>3
<1> DEFINE Typed == src' \in Int /\ src' % W = 0
           L1 == pc' = "loop1" /\ srcin < src' + W /\ src' + W <= F
           L1H == pc' = "loop1_half" /\ srcin < src' + 2 * W /\ src' + 2 * W <= F
           L1E == /\ pc' = "loop1_end" /\ srcin < src' + W /\ src' + W <= F
                  /\ vdata' = ldrq(mem, src' + W, big) /\ ~ChunkClean(mem, src' + W, B)
           L2S == /\ pc' = "loop2_start" /\ synd' # {} /\ src' + W <= Z
                  /\ IsLastBelow(K(src' + W, synd'), src' + W)
           L2 == /\ pc' = "loop2" /\ src' <= Z
                 /\ IF synd' = {} THEN IsLastBelow(K(src_match', chr_match'), src')
                    ELSE IsLastBelow(K(src', synd'), src')
           L2E == /\ pc' = "loop2_end" /\ src' - W <= Z /\ Z < src' /\ vdata' = ld1(mem, src' - W)
                  /\ IsLastBelow(K(src_match', chr_match'), src' - W)
           Ret == pc' = "ret" /\ result' = A
<1>15. ASSUME Typed, strrchr!Footprint', L1 \/ L1H \/ L1E \/ L2S \/ L2 \/ L2E \/ Ret
       PROVE  strrchr!IInv'
  <2>1. strrchr!Lanes' = Lanes
    BY DEF strrchr!Lanes, Lanes
  <2>2. CASE L1E
    <3>1. strrchr!ldrq(mem', src' + W, big') = ldrq(mem, src' + W, big)
      BY <1>4, StrrchrNames DEF SameGiven
    <3>2. \E i \in strrchr!Lanes : mem'[src' + W + i] \in {chrin', 0}
      BY <1>4, <2>2, StrrchrNames DEF SameGiven, ChunkClean
    <3>. QED
      BY <1>4, <1>6, <1>15, <2>1, <2>2, <3>1, <3>2 DEF strrchr!IInv, SameGiven
  <2>3. \A x, top : IsLastBelow(x, top) <=>
            /\ x \in srcin' .. (top - 1) /\ mem'[x] = chrin'
            /\ \A y \in (x + 1) .. (top - 1) : mem'[y] # chrin'
    BY <1>4 DEF IsLastBelow, SameGiven
  <2>4. \A X : strrchr!clz(X) = clz(X)
    BY StrrchrNames
  <2>5. CASE L2S
    BY <1>7, <1>15, <2>3, <2>4, <2>5 DEF strrchr!IInv, strrchr!LastMatch, strrchr!Kept
  <2>6. CASE L2
    BY <1>7, <1>15, <2>3, <2>4, <2>6 DEF strrchr!IInv, strrchr!LastMatch, strrchr!Kept
  <2>7. CASE L2E
    <3>1. strrchr!ld1(mem', src' - W) = ld1(mem, src' - W)
      BY <1>4, StrrchrNames DEF SameGiven
    <3>. QED
      BY <1>7, <1>15, <2>3, <2>4, <2>7, <3>1 DEF strrchr!IInv, strrchr!LastMatch, strrchr!Kept
  <2>8. CASE L1 \/ L1H \/ Ret
    BY <1>4, <1>6, <1>8, <1>15, <2>8 DEF strrchr!IInv, SameGiven
  <2>. QED
    BY <1>15, <2>2, <2>5, <2>6, <2>7, <2>8
<1> HIDE DEF B, A
<1>16. B = {chrin, 0}
  BY DEF B
<1>17. A = strrchr!Answer
  BY DEF A
\* The chunk at a settles the answer, or its matches are the last.
<1>18. ASSUME NEW a \in Nat, a % W = 0, Y <= a, a <= Z, src' = a, rd' = Chunk(a, W) \/ rd' = {},
              \A x \in srcin .. (a - 1) : mem[x] # chrin,
              synd' = Pairs(From(a, {chrin}), From(a, {0})),
              synd' \cap strrchr!NulBits # {} => pc' = "ret" /\ result' = strrchr!Tail(synd'),
              synd' \cap strrchr!NulBits = {} =>
                    IF synd' = {} THEN L1 ELSE pc' = "loop2_start"
       PROVE  strrchr!IInv'
  <2> DEFINE X == synd'
  <2>1. strrchr!Footprint'
    <3>1. rd' = {} => strrchr!Footprint'
      BY DEF strrchr!Footprint
    <3>. QED
      BY <1>13, <1>18, <3>1
  <2>2. Typed
    BY <1>18
  <2>3. strrchr!Tail(synd') = IF strrchr!BeforeNul(X) = {} THEN 0
                              ELSE (a + (W - 1)) - (clz(strrchr!BeforeNul(X)) \div 4)
    <3>1. (src' + W) - 1 = a + (W - 1)
      BY <1>10, <1>18
    <3>2. strrchr!clz(strrchr!BeforeNul(synd')) = clz(strrchr!BeforeNul(synd'))
      BY StrrchrNames
    <3>3. strrchr!Tail(synd') = IF strrchr!BeforeNul(synd') = {} THEN 0
              ELSE ((src' + W) - 1) - (strrchr!clz(strrchr!BeforeNul(synd')) \div 4)
      BY <1>10, <1>18, SMT DEF strrchr!Tail
    <3>. QED
      BY <3>1, <3>2, <3>3
  <2> HIDE DEF X
  <2>4. X = synd' /\ X = Pairs(From(a, {chrin}), From(a, {0}))
    BY <1>18 DEF X
  <2>5. CASE X \cap strrchr!NulBits # {}
    <3>1. strrchr!Answer = IF strrchr!BeforeNul(X) = {} THEN 0
                           ELSE (a + (W - 1)) - (clz(strrchr!BeforeNul(X)) \div 4)
      BY <1>1, <1>2, <1>3, <1>7, <1>18, <2>4, <2>5, FirstMatches
    <3>2. Ret
      BY <1>17, <1>18, <2>3, <2>4, <2>5, <3>1
    <3>. QED
      BY <1>15, <2>1, <2>2, <3>2
  <2>6. CASE X \cap strrchr!NulBits = {} /\ X # {}
    <3>1. a + W <= Z /\ IsLastBelow((a + (W - 1)) - (clz(X) \div 4), a + W)
      BY <1>1, <1>2, <1>3, <1>7, <1>18, <2>4, <2>6, FirstMatches
    <3>2. (a + W) - 1 = a + (W - 1)
      BY <1>10
    <3>3. L2S
      BY <1>18, <2>4, <2>6, <3>1, <3>2
    <3>. QED
      BY <1>15, <2>1, <2>2, <3>3
  <2>7. CASE X \cap strrchr!NulBits = {} /\ X = {}
    BY <1>15, <1>18, <2>1, <2>2, <2>4, <2>7
  <2>. QED
    BY <2>5, <2>6, <2>7
\* The first chunk.
<1>19. CASE strrchr!Entry
  <2> DEFINE v == ld1(mem, srcin - (srcin % W))
             M == Having(v, {chrin})
             P == Having(v, {0})
             X == lsl(lsr(Pairs(M, P), 4 * srcin), 4 * srcin)
  <2>1. pc = "entry" /\ src = Y /\ src' = Y /\ rd' = Chunk(Y, W) /\ vdata' = v
    BY <1>12, <1>19, StrrchrNames DEF strrchr!Entry, strrchr!Ld1, Y
  <2>2. shrn(bit(cmeq(v, 0), cmeq(v, chrin), Repeated({0, 1, 4, 5}))) = Pairs(M, P)
    BY MatchOrNul
  <2>3. synd' = X
    BY <1>19, <2>1, <2>2, StrrchrNames
       DEF strrchr!Entry, strrchr!Both, strrchr!vhas_chr, strrchr!vrepmask
  <2>4. M \in SUBSET Lanes /\ P \in SUBSET Lanes /\ srcin \in Int
    BY <1>1 DEF Having
  <2>5. {i \in M : i >= srcin % W} = From(Y, {chrin}) /\ {i \in P : i >= srcin % W} = From(Y, {0})
    BY <1>1, HeadHaving DEF Y
  <2> HIDE DEF M, P
  <2>6. X = Pairs({i \in M : i >= srcin % W}, {i \in P : i >= srcin % W})
    BY <2>4, lslLsrPairs
  <2> HIDE DEF X, v
  <2>7. synd' = Pairs(From(Y, {chrin}), From(Y, {0}))
    BY <2>3, <2>5, <2>6
  <2>8. /\ synd' \cap strrchr!NulBits # {} => pc' = "ret" /\ result' = strrchr!Tail(synd')
        /\ synd' \cap strrchr!NulBits = {} =>
              pc' = IF synd' = {} THEN "loop1" ELSE "loop2_start"
    BY <1>19 DEF strrchr!Entry, strrchr!Continue
  <2>9. Y <= Z /\ Y <= Y /\ \A x \in srcin .. (Y - 1) : mem[x] # chrin
    BY <1>1, <1>2, <1>9
  <2>10. ASSUME synd' = {} PROVE Y + W <= F /\ srcin < Y + W
    <3>1. From(Y, {chrin}) = {} /\ From(Y, {0}) = {}
      BY <1>1, <1>2, <1>3, <1>7, <1>9, <2>7, <2>9, <2>10, FirstMatches
    <3>2. SUFFICES ASSUME F < Y + W PROVE FALSE
      BY <1>1, <1>9, <1>10
    <3>3. F - Y \in Lanes /\ Y + (F - Y) = F /\ mem[F] \in B
      BY <1>1, <1>9, <1>10, <3>2 DEF Lanes, IsFirst
    <3>4. F - Y \in From(Y, {chrin}) \/ F - Y \in From(Y, {0})
      BY <1>1, <1>16, <3>3 DEF From
    <3>. QED
      BY <3>1, <3>4
  <2>11. synd' \cap strrchr!NulBits = {} => IF synd' = {} THEN L1 ELSE pc' = "loop2_start"
    BY <2>1, <2>8, <2>10
  <2>. QED
    BY <1>9, <1>18, <2>1, <2>7, <2>8, <2>9, <2>11
<1>20. CASE strrchr!Loop1
  <2> DEFINE a == src + W
             V == cmhs(cmeq(vdata', chrin), vdata')
  <2>1. /\ pc = "loop1" /\ src' = src /\ rd' = Chunk(a, W) /\ vdata' = ldrq(mem, a, big)
    BY <1>20, StrrchrNames DEF strrchr!Loop1, strrchr!LoopLoad, strrchr!LdrQ
  <2>2. a \in Int /\ a % W = 0 /\ srcin < a /\ a <= F /\ a <= Z /\ Y <= a /\ a + W = src + 2 * W
    BY <1>1, <1>2, <1>9, <1>10, <1>11, <1>12, <1>14, <2>1
  <2>3. pc' = IF fmov(umaxp(V, V)) = {} THEN "loop1_half" ELSE "loop1_end"
    BY <1>20, StrrchrNames DEF strrchr!Loop1, strrchr!LoopLoad, strrchr!vhas_any, strrchr!vhas_chr
  <2>4. fmov(umaxp(V, V)) = {} <=> Having(vdata', B) = {}
    BY <1>16, MatchOrNul
  <2> HIDE DEF a, V
  <2>5. Having(vdata', B) = {} <=> ChunkClean(mem, a, B)
    BY <1>3, <2>1, <2>2, ldrqClean
  <2>6. strrchr!Footprint'
    BY <1>13, <2>1, <2>2
  <2>7. Typed
    BY <1>12, <2>1
  <2>8. CASE ChunkClean(mem, a, B)
    <3>1. a + W <= F /\ srcin < a + W
      BY <1>1, <1>10, <2>2, <2>8, ChunkPassed
    <3>2. L1H
      BY <2>1, <2>2, <2>3, <2>4, <2>5, <2>8, <3>1
    <3>. QED
      BY <1>15, <2>6, <2>7, <3>2
  <2>9. CASE ~ChunkClean(mem, a, B)
    <3>1. L1E
      BY <2>1, <2>2, <2>3, <2>4, <2>5, <2>9 DEF a
    <3>. QED
      BY <1>15, <2>6, <2>7, <3>1
  <2>. QED
    BY <2>8, <2>9
<1>21. CASE strrchr!Loop1Half
  <2> DEFINE a == src + 2 * W
             V == cmhs(cmeq(vdata', chrin), vdata')
  <2>1. pc = "loop1_half" /\ rd' = Chunk(a, W) /\ vdata' = ldrq(mem, a, big)
    BY <1>21, StrrchrNames DEF strrchr!Loop1Half, strrchr!LoopLoad, strrchr!LdrQ
  <2>2. a \in Int /\ a % W = 0 /\ srcin < a /\ a <= F /\ a <= Z /\ Y <= a
    BY <1>1, <1>2, <1>9, <1>10, <1>11, <1>12, <1>14, <2>1
  <2>3. IF fmov(umaxp(V, V)) = {} THEN pc' = "loop1" /\ src' = a
        ELSE pc' = "loop1_end" /\ src' = src + W
    BY <1>21, StrrchrNames DEF strrchr!Loop1Half, strrchr!LoopLoad, strrchr!vhas_any, strrchr!vhas_chr
  <2>4. fmov(umaxp(V, V)) = {} <=> Having(vdata', B) = {}
    BY <1>16, MatchOrNul
  <2>5. src + W \in Int /\ (src + W) + W = a
    BY <1>10, <1>12
  <2> HIDE DEF a, V
  <2>6. Having(vdata', B) = {} <=> ChunkClean(mem, a, B)
    BY <1>3, <2>1, <2>2, ldrqClean
  <2>7. strrchr!Footprint'
    BY <1>13, <2>1, <2>2
  <2>8. CASE ChunkClean(mem, a, B)
    <3>1. a + W <= F /\ srcin < a + W
      BY <1>1, <1>10, <2>2, <2>8, ChunkPassed
    <3>2. L1 /\ Typed
      BY <2>2, <2>3, <2>4, <2>6, <2>8, <3>1
    <3>. QED
      BY <1>15, <2>7, <3>2
  <2>9. CASE ~ChunkClean(mem, a, B)
    <3>1. L1E /\ Typed
      BY <1>14, <2>1, <2>2, <2>3, <2>4, <2>5, <2>6, <2>9
    <3>. QED
      BY <1>15, <2>7, <3>1
  <2>. QED
    BY <2>8, <2>9
<1>22. CASE strrchr!Loop1End
  <2> DEFINE a == src + W
             v == ldrq(mem, a, big)
  <2>1. pc = "loop1_end" /\ src' = a /\ rd' = {} /\ vdata = v
    BY <1>12, <1>22 DEF strrchr!Loop1End
  <2>2. a \in Nat /\ a % W = 0 /\ srcin < a /\ a <= F /\ a <= Z /\ Y <= a /\ ~ChunkClean(mem, a, B)
    BY <1>1, <1>2, <1>9, <1>10, <1>11, <1>12, <1>14, <2>1
  <2>3. synd' = IF big THEN rbit(shrn(bif(cmeq(vdata, 0), cmeq(vdata, chrin), Repeated({0, 1, 4, 5}))))
                ELSE shrn(bit(cmeq(vdata, 0), cmeq(vdata, chrin), Repeated({0, 1, 4, 5})))
    BY <1>22, StrrchrNames
       DEF strrchr!Loop1End, strrchr!Both, strrchr!vhas_chr, strrchr!vrepmask
  <2>4. /\ synd' \cap strrchr!NulBits # {} => pc' = "ret" /\ result' = strrchr!Tail(synd')
        /\ synd' \cap strrchr!NulBits = {} => pc' = "loop2_start"
    BY <1>22 DEF strrchr!Loop1End, strrchr!Continue
  <2> HIDE DEF a, v
  <2>5. /\ shrn(bif(cmeq(v, 0), cmeq(v, chrin), Repeated({0, 1, 4, 5})))
           = Pairs(Having(v, {0}), Having(v, {chrin}))
        /\ shrn(bit(cmeq(v, 0), cmeq(v, chrin), Repeated({0, 1, 4, 5})))
           = Pairs(Having(v, {chrin}), Having(v, {0}))
    BY cmeqIs, BitPairs
  <2>6. v = ldrq(mem, a, big) /\ a \in Int
    BY <2>2 DEF v, a
  <2>7. synd' = Pairs({i \in Lanes : mem[a + i] \in {chrin}}, {i \in Lanes : mem[a + i] \in {0}})
    BY <1>3, <2>1, <2>3, <2>5, <2>6, MemoryOrder
  <2>8. /\ {i \in Lanes : mem[a + i] \in {chrin}} = From(a, {chrin})
        /\ {i \in Lanes : mem[a + i] \in {0}} = From(a, {0})
    BY <1>1, <2>2, <2>6, HavingIs
  <2>9. synd' = Pairs(From(a, {chrin}), From(a, {0}))
    BY <2>7, <2>8
  <2>10. \A x \in srcin .. (a - 1) : mem[x] # chrin
    BY <1>1, <1>11, <2>2
  <2>11. synd' # {}
    <3>1. PICK i \in Lanes : mem[a + i] \in B
      BY <2>2 DEF ChunkClean
    <3>2. From(a, {chrin}) # {} \/ From(a, {0}) # {}
      BY <1>16, <2>8, <3>1
    <3>3. synd' = {} <=> From(a, {chrin}) = {} /\ From(a, {0}) = {}
      BY <1>1, <1>2, <1>3, <1>7, <2>2, <2>9, <2>10, FirstMatches
    <3>. QED
      BY <3>2, <3>3
  <2>. QED
    BY <1>18, <2>1, <2>2, <2>4, <2>9, <2>10, <2>11
<1>23. CASE strrchr!Loop2Start
  <2>1. /\ pc = "loop2_start" /\ src' = src + W /\ rd' = {} /\ pc' = "loop2" /\ synd' = synd
    BY <1>23 DEF strrchr!Loop2Start
  <2>2. strrchr!Footprint'
    BY <2>1 DEF strrchr!Footprint
  <2>3. Typed /\ L2
    BY <1>10, <1>12, <1>14, <2>1
  <2>. QED
    BY <1>15, <2>2, <2>3
<1>24. CASE strrchr!Loop2
  <2> DEFINE a == src
             v == ld1(mem, a)
             x == K(src_match', chr_match')
             both == bit(cmeq(v, 0), cmeq(v, chrin),
                         [i \in Lanes |-> IF i % 2 = 0 THEN {0, 1} ELSE {0, 1, 4, 5}])
  <2>1. pc = "loop2" /\ src' = a + W /\ rd' = Chunk(a, W) /\ vdata' = v
    BY <1>24, StrrchrNames DEF strrchr!Loop2, strrchr!Ld1
  <2>2. /\ src_match' = IF synd # {} THEN src ELSE src_match
        /\ chr_match' = IF synd # {} THEN synd ELSE chr_match
    BY <1>24 DEF strrchr!Loop2
  <2>3. IsLastBelow(x, a)
    BY <1>12, <2>1, <2>2
  <2>4. synd' = fmov(umaxp(both, both))
    BY <1>24, <2>1, StrrchrNames
       DEF strrchr!Loop2, strrchr!Both, strrchr!vhas_chr, strrchr!vrepmask2
  <2>5. pc' = IF synd' \cap strrchr!NulBits = {} THEN "loop2" ELSE "loop2_end"
    BY <1>24 DEF strrchr!Loop2
  <2>6. \A i \in Lanes : both[i] = KeptLane(i, Having(v, {chrin}), Having(v, {0}))
    BY KeptLanes
  <2> HIDE DEF both, v, x
  <2>7. a \in Nat /\ a % W = 0 /\ srcin <= a /\ Y <= a /\ a <= Z
    BY <1>1, <1>9, <1>12, <2>1, <2>3 DEF IsLastBelow
  <2>8. Having(v, {chrin}) = From(a, {chrin}) /\ Having(v, {0}) = From(a, {0})
    BY <1>1, <2>7, HavingIs DEF v
  <2>9. \A i \in Lanes : both[i] = KeptLane(i, From(a, {chrin}), From(a, {0}))
    BY <2>6, <2>8
  <2> HIDE DEF a
  <2>10. /\ synd' \cap strrchr!NulBits # {} => Z < a + W
         /\ synd' \cap strrchr!NulBits = {} =>
              /\ a + W <= Z
              /\ synd' = {} => IsLastBelow(x, a + W)
              /\ synd' # {} => IsLastBelow((a + (W - 1)) - (clz(synd') \div 4), a + W)
    BY <1>1, <1>2, <1>3, <2>3, <2>4, <2>7, <2>9, LoopKeeps
  <2>11. strrchr!Footprint'
    BY <1>13, <2>1, <2>7
  <2>12. Typed
    BY <1>10, <2>1, <2>7, ModPlus
  <2>13. (src' - 1) = a + (W - 1) /\ src' - W = a
    BY <1>10, <2>1, <2>7
  <2>14. CASE synd' \cap strrchr!NulBits = {}
    <3>1. L2
      BY <2>1, <2>5, <2>10, <2>13, <2>14 DEF x
    <3>. QED
      BY <1>15, <2>11, <2>12, <3>1
  <2>15. CASE synd' \cap strrchr!NulBits # {}
    <3>1. L2E
      BY <2>1, <2>3, <2>5, <2>7, <2>10, <2>13, <2>15 DEF x, v
    <3>. QED
      BY <1>15, <2>11, <2>12, <3>1
  <2>. QED
    BY <2>14, <2>15
<1>25. CASE strrchr!Loop2End
  <2> DEFINE a == src - W
             v == ld1(mem, a)
             x == K(src_match, chr_match)
             V == bit(cmeq(v, 0), cmeq(v, chrin),
                      [i \in Lanes |-> IF i % 2 = 0 THEN {0, 1} ELSE {0, 1, 4, 5}])
             both == and(V, strrchr!NotLowerOdd)
             X == fmov(addp(both, both))
             tmp == strrchr!BeforeNul(X)
  <2>1. /\ pc = "loop2_end" /\ vdata = v /\ a <= Z /\ Z < src /\ IsLastBelow(x, a)
        /\ pc' = "ret" /\ rd' = {} /\ src' = src
    BY <1>12, <1>25 DEF strrchr!Loop2End
  <2>2. /\ chr_match' = IF tmp # {} THEN tmp ELSE chr_match
        /\ src_match' = (IF tmp # {} THEN src ELSE src_match) - 1
        /\ result' = src_match' - (clz(chr_match') \div 4)
    BY <1>25, <2>1, StrrchrNames
       DEF strrchr!Loop2End, strrchr!Both, strrchr!vhas_chr, strrchr!vrepmask2
  <2>3. V = bit(cmeq(v, 0), cmeq(v, chrin), [i \in Lanes |-> IF i % 2 = 0 THEN {0, 1} ELSE {0, 1, 4, 5}])
    OBVIOUS
  <2> HIDE DEF V
  <2>4. \A i \in Lanes : both[i] = KeptLane(i, Having(v, {chrin}), Having(v, {0}))
                                   \cap (IF i % 2 = 0 THEN AllOnes ELSE 4 .. 7)
    BY <2>3, KeptLanes
  <2> HIDE DEF both, x
  <2>5. a \in Nat /\ a % W = 0 /\ srcin <= a /\ Z < a + W /\ a + (W - 1) = src - 1
    BY <1>1, <1>10, <1>12, <1>14, <2>1 DEF IsLastBelow
  <2>6. Having(v, {chrin}) = From(a, {chrin}) /\ Having(v, {0}) = From(a, {0})
    BY <1>1, <2>5, HavingIs DEF v
  <2> HIDE DEF v, a
  <2>7. LessLowerOdd(both, From(a, {chrin}), From(a, {0}))
    BY <2>4, <2>6 DEF LessLowerOdd
  <2>8. X = fmov(addp(both, both)) /\ tmp = strrchr!BeforeNul(X)
    OBVIOUS
  <2> HIDE DEF X, tmp
  <2>9. /\ tmp = {} => strrchr!Answer = x
        /\ tmp # {} => strrchr!Answer = (a + (W - 1)) - (clz(tmp) \div 4)
    <3>1. IsLastBelow(x, a) /\ a <= Z /\ Z = strrchr!Nul
      BY <1>7, <2>1
    <3>2. AnswerIs(tmp, a, x)
      BY <1>1, <1>2, <1>3, <2>5, <2>7, <2>8, <3>1, EndKeeps
    <3>. QED
      BY <3>2 DEF AnswerIs
  <2>10. Ret
    <3>1. CASE tmp = {}
      BY <1>17, <2>1, <2>2, <2>9, <3>1 DEF x
    <3>2. CASE tmp # {}
      BY <1>17, <2>1, <2>2, <2>5, <2>9, <3>2
    <3>. QED
      BY <3>1, <3>2
  <2>11. strrchr!Footprint'
    BY <2>1 DEF strrchr!Footprint
  <2>12. Typed
    BY <1>12, <2>1
  <2>. QED
    BY <1>15, <2>10, <2>11, <2>12
<1>. QED
  BY <1>19, <1>20, <1>21, <1>22, <1>23, <1>24, <1>25 DEF strrchr!Next

-----------------------------------------------------------------------------
(* All of them: no routine loads from a granule that it may not.           *)

\* The arguments of a call, of those that its routine has.
ArgsOK == GivenOK /\ CharOK /\ (routine \in Memchrs \cup {"memrchr"} => CountOK)

LEMMA InitIInv ==
    ASSUME Init
    PROVE  ArgsOK /\ IInv
<1>1. CASE routine = "strlen" /\ strlen!Init /\ NoChar /\ NoCount /\ NotMatched
  <2>1. /\ mem \in Memories /\ srcin \in Pointers /\ big \in BOOLEAN /\ chrin = 0
        /\ pc = "entry" /\ src = srcin - (srcin % W) /\ rd = {} /\ result = 0
    BY <1>1, StrlenNames DEF strlen!Init, strlen!Called, NoChar, Aligned
  <2>2. ArgsOK
    BY <1>1, <2>1 DEF ArgsOK, GivenOK, CharOK, Memchrs
  <2>3. srcin \in Nat
    BY <2>1, PointersAssumption
  <2>4. src \in Nat /\ src % W = 0 /\ strlen!Aligned(srcin, W) = src
    BY <2>1, <2>3, HeadIs, StrlenNames DEF Aligned
  <2>5. src <= src
    BY <2>4
  <2>6. strlen!IInv
    BY <2>1, <2>4, <2>5 DEF strlen!IInv, strlen!Footprint
  <2>. QED
    BY <1>1, <2>2, <2>6 DEF IInv
<1>2. CASE memchr!Init /\ NotMatched
  <2>1. /\ mem \in Memories /\ srcin \in Pointers /\ big \in BOOLEAN /\ chrin \in Chars \cup {0}
        /\ cntin \in Counts /\ cntrem = 0 /\ routine \in Memchrs
        /\ pc = "entry" /\ src = srcin - (srcin % W) /\ rd = {} /\ result = 0
    BY <1>2, MemchrNames DEF memchr!Init, memchr!Called, Aligned, Memchrs
  <2>2. CountOK
    BY <2>1, CountsAssumption DEF CountOK
  <2>3. ArgsOK
    BY <2>1, <2>2 DEF ArgsOK, GivenOK, CharOK
  <2>4. srcin \in Nat /\ cntrem \in 0 .. (Size - 1)
    BY <2>1, <2>2, PointersAssumption DEF CountOK
  <2>5. src \in Int /\ src % W = 0 /\ memchr!Aligned(srcin, W) = src
    BY <2>1, <2>4, HeadIs, MemchrNames DEF Aligned
  <2>6. memchr!IInv
    BY <2>1, <2>4, <2>5 DEF memchr!IInv, memchr!Footprint
  <2>. QED
    BY <2>1, <2>3, <2>6 DEF IInv
<1>3. CASE routine = "memrchr" /\ memrchr!Init /\ NotMatched
  <2> DEFINE e == srcin + cntin - 1
  <2>10. srcin \in Nat /\ cntin \in Int
    BY <1>3, PointersAssumption, CountsAssumption DEF memrchr!Init, memrchr!Called
  <2>7. memrchr!endm1 = e
    BY <2>10 DEF memrchr!endm1, memrchr!end
  <2> HIDE DEF e
  <2>8. memrchr!endm1 = e /\ memrchr!Aligned(e, W) = e - (e % W)
    <3>1. memrchr!Aligned(e, W) = Aligned(e, W)
      BY MemrchrNames
    <3>2. Aligned(e, W) = e - (e % W)
      BY DEF Aligned
    <3>. QED
      BY <2>7, <3>1, <3>2
  <2>1. /\ mem \in Memories /\ srcin \in Pointers /\ big \in BOOLEAN /\ chrin \in Chars
        /\ cntin \in Counts /\ cntrem = 0
        /\ pc = "entry" /\ src = e - (e % W) /\ rd = {} /\ result = 0
    BY <1>3, <2>8 DEF memrchr!Init, memrchr!Called
  <2>2. CountOK
    BY <2>1, CountsAssumption DEF CountOK
  <2>3. ArgsOK
    BY <2>1, <2>2 DEF ArgsOK, GivenOK, CharOK
  <2>4. srcin \in Nat /\ cntrem \in 0 .. (Size - 1) /\ e \in Int
    BY <2>1, <2>2, PointersAssumption DEF CountOK, e
  <2>5. memrchr!Aligned(memrchr!endm1, W) = src
    BY <2>1, <2>8
  <2>6. src \in Int /\ src % W = 0
    BY <2>1, <2>4, WAssumption, DivMod, ModOfAligned
  <2>9. memrchr!IInv
    BY <2>1, <2>4, <2>5, <2>6 DEF memrchr!IInv, memrchr!Footprint
  <2>. QED
    BY <1>3, <2>3, <2>9 DEF IInv
<1>4. CASE strchr!Init /\ NoCount /\ NotMatched
  <2>1. /\ mem \in Memories /\ srcin \in Pointers /\ big \in BOOLEAN /\ chrin \in Chars
        /\ routine \in Strchrs
        /\ pc = "entry" /\ src = srcin - (srcin % W) /\ rd = {} /\ result = 0
    BY <1>4, StrchrNames DEF strchr!Init, strchr!Called, Aligned, Strchrs
  <2>2. ArgsOK
    BY <2>1 DEF ArgsOK, GivenOK, CharOK, Memchrs, Strchrs
  <2>3. srcin \in Nat
    BY <2>1, PointersAssumption
  <2>4. src \in Int /\ src % W = 0 /\ strchr!Aligned(srcin, W) = src
    BY <2>1, <2>3, HeadIs, StrchrNames DEF Aligned
  <2>5. strchr!IInv
    BY <2>1, <2>4 DEF strchr!IInv, strchr!Footprint
  <2>. QED
    BY <2>1, <2>2, <2>5 DEF IInv
<1>5. CASE routine = "strrchr" /\ strrchr!Init /\ NoCount
  <2>1. /\ mem \in Memories /\ srcin \in Pointers /\ big \in BOOLEAN /\ chrin \in Chars
        /\ synd = {}
        /\ pc = "entry" /\ src = srcin - (srcin % W) /\ rd = {} /\ result = 0
    BY <1>5, StrrchrNames DEF strrchr!Init, strrchr!Called, Aligned
  <2>2. ArgsOK
    BY <1>5, <2>1 DEF ArgsOK, GivenOK, CharOK, Memchrs
  <2>3. srcin \in Nat
    BY <2>1, PointersAssumption
  <2>4. src \in Int /\ src % W = 0 /\ strrchr!Aligned(srcin, W) = src
    BY <2>1, <2>3, HeadIs, StrrchrNames DEF Aligned
  <2>5. strrchr!IInv
    BY <2>1, <2>4 DEF strrchr!IInv, strrchr!Footprint
  <2>. QED
    BY <1>5, <2>2, <2>5 DEF IInv
<1>. QED
  BY <1>1, <1>2, <1>3, <1>4, <1>5 DEF Init

\* No step changes a call's arguments.
LEMMA SameCall ==
    ASSUME Next
    PROVE  SameGiven /\ routine' = routine /\ chrin' = chrin /\ cntin' = cntin
<1>1. CASE Strlen
  BY <1>1 DEF Strlen, strlen!Next, strlen!Entry, strlen!Next16, strlen!Loop, strlen!LoopHalf,
     strlen!LoopEnd, strlen!given, SameGiven, counted
<1>2. CASE Memchr
  BY <1>2 DEF Memchr, memchr!Next, memchr!ZeroLength, memchr!Entry, memchr!StartLoop,
     memchr!Loop32, memchr!Loop32_2, memchr!End, memchr!given, memchr!args, SameGiven
<1>3. CASE MemrchrStep
  BY <1>3 DEF MemrchrStep, memrchr!Next, memrchr!ZeroLength, memrchr!Entry, memrchr!StartLoop,
     memrchr!Loop32, memrchr!Loop32_2, memrchr!End, memrchr!given, SameGiven
<1>4. CASE Strchr
  BY <1>4 DEF Strchr, strchr!Next, strchr!Entry, strchr!EntryNul, strchr!Loop, strchr!LoopHalf,
     strchr!End, strchr!EndNul, strchr!given, SameGiven, counted
<1>5. CASE Strrchr
  BY <1>5 DEF Strrchr, strrchr!Next, strrchr!Entry, strrchr!Loop1, strrchr!Loop1Half,
     strrchr!Loop1End, strrchr!Loop2Start, strrchr!Loop2, strrchr!Loop2End,
     strrchr!Continue, strrchr!LoopLoad, strrchr!given, SameGiven, counted
<1>. QED
  BY <1>1, <1>2, <1>3, <1>4, <1>5 DEF Next

\* The routine called is the one that goes on.
LEMMA NextIInv ==
    ASSUME ArgsOK, IInv, Next
    PROVE  ArgsOK' /\ IInv'
<1>1. SameGiven /\ routine' = routine /\ chrin' = chrin /\ cntin' = cntin
  BY SameCall
<1>2. ArgsOK'
  BY <1>1 DEF ArgsOK, GivenOK, CharOK, CountOK, SameGiven, Memchrs
<1>3. GivenOK /\ CharOK /\ (routine \in Memchrs \cup {"memrchr"} => CountOK)
  BY DEF ArgsOK
<1>4. CASE Strlen
  <2>1. routine = "strlen" /\ strlen!Next
    BY <1>4 DEF Strlen
  <2>2. strlen!IInv
    BY <2>1 DEF IInv, Memchrs, Strchrs
  <2>3. strlen!IInv'
    BY <1>3, <2>1, <2>2, StrlenInv
  <2>. QED
    BY <1>1, <1>2, <2>1, <2>3 DEF IInv, Memchrs, Strchrs
<1>5. CASE Memchr
  <2>1. routine \in Memchrs /\ memchr!Next
    BY <1>5 DEF Memchr
  <2>2. memchr!IInv
    BY <2>1 DEF IInv, Memchrs, Strchrs
  <2>3. memchr!IInv'
    BY <1>3, <2>1, <2>2, MemchrInv
  <2>. QED
    BY <1>1, <1>2, <2>1, <2>3 DEF IInv, Memchrs, Strchrs
<1>6. CASE MemrchrStep
  <2>1. routine = "memrchr" /\ memrchr!Next
    BY <1>6 DEF MemrchrStep
  <2>2. memrchr!IInv
    BY <2>1 DEF IInv, Memchrs, Strchrs
  <2>3. memrchr!IInv'
    BY <1>3, <2>1, <2>2, MemrchrInv
  <2>. QED
    BY <1>1, <1>2, <2>1, <2>3 DEF IInv, Memchrs, Strchrs
<1>7. CASE Strchr
  <2>1. routine \in Strchrs /\ strchr!Next
    BY <1>7 DEF Strchr
  <2>2. strchr!IInv
    BY <2>1 DEF IInv, Memchrs, Strchrs
  <2>3. strchr!IInv'
    BY <1>3, <2>1, <2>2, StrchrInv
  <2>. QED
    BY <1>1, <1>2, <2>1, <2>3 DEF IInv, Memchrs, Strchrs
<1>8. CASE Strrchr
  <2>1. routine = "strrchr" /\ strrchr!Next
    BY <1>8 DEF Strrchr
  <2>2. strrchr!IInv
    BY <2>1 DEF IInv, Memchrs, Strchrs
  <2>3. strrchr!IInv'
    BY <1>3, <2>1, <2>2, StrrchrInv
  <2>. QED
    BY <1>1, <1>2, <2>1, <2>3 DEF IInv, Memchrs, Strchrs
<1>. QED
  BY <1>2, <1>4, <1>5, <1>6, <1>7, <1>8 DEF Next

LEMMA StutterIInv ==
    ASSUME ArgsOK, IInv, UNCHANGED vars
    PROVE  ArgsOK' /\ IInv'
<1>1. /\ SameGiven /\ routine' = routine /\ chrin' = chrin /\ cntin' = cntin /\ cntrem' = cntrem
      /\ pc' = pc /\ src' = src /\ vdata' = vdata /\ rd' = rd /\ result' = result
      /\ synd' = synd /\ src_match' = src_match /\ chr_match' = chr_match
  BY DEF vars, SameGiven
<1>2. ArgsOK'
  BY <1>1 DEF ArgsOK, GivenOK, CharOK, CountOK, SameGiven, Memchrs
<1>3. strlen!IInv => strlen!IInv'
  BY <1>1 DEF strlen!IInv, strlen!Footprint, strlen!First, strlen!Min, strlen!Aligned,
              strlen!Lanes, strlen!ldrq, strlen!Granules, strlen!Length, SameGiven
<1>4. memchr!IInv => memchr!IInv'
  <2>1. memchr!Match' = memchr!Match
    BY <1>1 DEF memchr!Match, memchr!First, memchr!Min, SameGiven
  <2>2. memchr!Stop' = memchr!Stop /\ memchr!Answer' = memchr!Answer
    BY <1>1, <2>1 DEF memchr!Stop, memchr!Answer, memchr!AtMost, SameGiven
  <2>3. memchr!Footprint' <=> memchr!Footprint
    BY <1>1, <2>1 DEF memchr!Footprint, memchr!AtMost, memchr!Granules, SameGiven
  <2>4. memchr!ToLoad' = memchr!ToLoad
    BY <1>1 DEF memchr!ToLoad
  <2>. QED
    BY <1>1, <2>1, <2>2, <2>3, <2>4
       DEF memchr!IInv, memchr!Aligned, memchr!Halves, memchr!LeftAfter, memchr!ldrq, memchr!Lanes,
           SameGiven
<1>5. memrchr!IInv => memrchr!IInv'
  <2>1. memrchr!endm1' = memrchr!endm1 /\ memrchr!Matches' = memrchr!Matches
    BY <1>1 DEF memrchr!endm1, memrchr!end, memrchr!Matches, SameGiven
  <2>2. memrchr!After' = memrchr!After /\ memrchr!Answer' = memrchr!Answer
    BY <1>1, <2>1 DEF memrchr!After, memrchr!Answer, memrchr!Max, SameGiven
  <2>3. memrchr!Footprint' <=> memrchr!Footprint
    BY <1>1, <2>1, <2>2 DEF memrchr!Footprint, memrchr!AtMost, memrchr!Granules, SameGiven
  <2>4. memrchr!LastMatch' = memrchr!LastMatch
    BY <2>1, <2>2 DEF memrchr!LastMatch
  <2>. QED
    BY <1>1, <2>1, <2>2, <2>3, <2>4
       DEF memrchr!IInv, memrchr!Aligned, memrchr!Halves, memrchr!LeftUpTo, memrchr!ldrq,
           memrchr!Lanes, SameGiven
<1>6. strchr!IInv => strchr!IInv'
  BY <1>1 DEF strchr!IInv, strchr!Footprint, strchr!First, strchr!Min, strchr!Aligned,
              strchr!Lanes, strchr!ldrq, strchr!Granules, strchr!Match, strchr!Answer,
              strchr!strchr, SameGiven
<1>7. strrchr!IInv => strrchr!IInv'
  <2>1. strrchr!Nul' = strrchr!Nul /\ strrchr!Any' = strrchr!Any
    BY <1>1 DEF strrchr!Nul, strrchr!Any, strrchr!First, strrchr!Min, SameGiven
  <2>2. strrchr!Answer' = strrchr!Answer
    BY <1>1, <2>1 DEF strrchr!Answer, strrchr!Matches, strrchr!Max, SameGiven
  <2>3. strrchr!Footprint' <=> strrchr!Footprint
    BY <1>1, <2>1 DEF strrchr!Footprint, strrchr!Granules, SameGiven
  <2>. QED
    BY <1>1, <2>1, <2>2, <2>3
       DEF strrchr!IInv, strrchr!Aligned, strrchr!LastMatch, strrchr!Kept, strrchr!clz, strrchr!Max,
           strrchr!ldrq, strrchr!ld1, strrchr!Lanes, SameGiven
<1>. QED
  BY <1>1, <1>2, <1>3, <1>4, <1>5, <1>6, <1>7 DEF IInv, Memchrs, Strchrs

\* Before each step of any of the routines what it has passed over is free of what is
\* looked for, and the chunk a loop has ended at is the one that settles the answer.
THEOREM Invariance == Spec => []IInv
<1>1. Init => ArgsOK /\ IInv
  BY InitIInv
<1>2. (ArgsOK /\ IInv) /\ [Next]_vars => (ArgsOK /\ IInv)'
  BY NextIInv, StutterIInv
<1>. QED
  BY <1>1, <1>2, PTL DEF Spec

\* No routine loads a chunk of which it may read no byte: whatever the alignment, the
\* size and the position of the byte that ends the search.
THEOREM LoadsOnlyGranules == Spec => []Footprint
<1>1. IInv => Footprint
  BY DEF IInv, Footprint, Memchrs, Strchrs, strlen!IInv, memchr!IInv, memrchr!IInv, strchr!IInv,
     strrchr!IInv
<1>. QED
  BY <1>1, Invariance, PTL

-----------------------------------------------------------------------------
(* All of them implement Search, but for its termination.                  *)

\* A search for which the byte that settles it is at stop: of the passed bytes none
\* follows it.
Within(stop, answer, passed) ==
    /\ stop \in Nat /\ answer \in Nat /\ passed \in Int /\ passed <= stop
    /\ pc = "entry" => passed = 0
    /\ pc = "ret" => passed = stop

LEMMA StrlenPassed ==
    ASSUME GivenOK, strlen!IInv
    PROVE  Within(strlen!Stop, strlen!Answer, strlen!Passed)
<1> DEFINE F == First(srcin, {0})
<1>1. srcin \in Nat /\ F \in Nat /\ srcin <= F /\ W \in Nat
  BY ByteIs, WAssumption DEF IsFirst
<1>2. strlen!First(srcin, {0}) = F
  BY StrlenNames
<1> HIDE DEF F
<1>3. strlen!Length = F - srcin
  BY <1>2 DEF strlen!Length
<1>4. /\ src \in Nat
      /\ pc \in {"entry", "next16", "loop", "loop_half", "loop_end", "ret"}
      /\ pc \in {"next16", "loop_half"} => src + W <= F
      /\ pc = "loop" => src + 2 * W <= F
      /\ pc = "loop_end" => src <= F
  BY <1>1, <1>3 DEF strlen!IInv
<1>. QED
  BY <1>1, <1>3, <1>4 DEF Within, strlen!Stop, strlen!Answer, strlen!Passed

LEMMA StrlenGrows ==
    ASSUME GivenOK, strlen!IInv, strlen!Next, strlen!IInv',
           Within(strlen!Stop, strlen!Answer, strlen!Passed)
    PROVE  /\ pc # "ret" /\ strlen!Stop' = strlen!Stop /\ strlen!Answer' = strlen!Answer
           /\ strlen!Passed' >= strlen!Passed
           /\ pc' = "ret" => result' = strlen!Answer
<1> DEFINE L == strlen!Length
           p == strlen!Passed
<1>1. srcin \in Nat /\ W \in Nat
  BY PointersAssumption, WAssumption DEF GivenOK
<1>2. SameGiven /\ pc # "ret"
  BY DEF SameGiven, strlen!Next, strlen!Entry, strlen!Next16, strlen!Loop, strlen!LoopHalf,
         strlen!LoopEnd, strlen!given
<1>3. strlen!Length' = L
  BY <1>2 DEF strlen!Length, strlen!First, strlen!Min, SameGiven
<1>4. L \in Nat /\ p \in Int /\ p <= L
  BY DEF Within, strlen!Stop
<1>5. p = CASE pc = "entry" -> 0
            [] pc \in {"next16", "loop_half"} -> (src + W) - srcin
            [] pc = "loop" -> (src + 2 * W) - srcin
            [] pc = "loop_end" -> src - srcin
            [] pc = "ret" -> L
  BY DEF strlen!Passed
<1>6. strlen!Passed' = CASE pc' = "entry" -> 0
            [] pc' \in {"next16", "loop_half"} -> (src' + W) - srcin
            [] pc' = "loop" -> (src' + 2 * W) - srcin
            [] pc' = "loop_end" -> src' - srcin
            [] pc' = "ret" -> L
  BY <1>2, <1>3 DEF strlen!Passed, SameGiven
<1>7. src \in Nat /\ (pc = "entry" => srcin < src + W)
  <2>1. src \in Nat /\ (pc = "entry" => src = srcin - (srcin % W))
    BY StrlenNames DEF strlen!IInv, Aligned
  <2>. QED
    BY <1>1, <2>1, HeadIs
<1>8. pc' = "ret" => result' = L
  BY <1>3 DEF strlen!IInv
<1> HIDE DEF L, p
<1>9. strlen!Passed' >= p
  <2>1. CASE strlen!Entry
    <3>1. pc = "entry" /\ src' = src /\ (pc' = "next16" \/ pc' = "ret")
      BY <2>1 DEF strlen!Entry
    <3>. QED
      BY <1>1, <1>4, <1>5, <1>6, <1>7, <3>1
  <2>2. CASE strlen!Next16
    <3>1. pc = "next16" /\ ((pc' = "loop" /\ src' = src) \/ pc' = "ret")
      BY <2>2 DEF strlen!Next16
    <3>. QED
      BY <1>1, <1>4, <1>5, <1>6, <1>7, <3>1
  <2>3. CASE strlen!Loop
    <3>1. pc = "loop" /\ src' = src + 2 * W /\ (pc' = "loop_half" \/ pc' = "loop_end")
      BY <2>3 DEF strlen!Loop
    <3>. QED
      BY <1>1, <1>4, <1>5, <1>6, <1>7, <3>1
  <2>4. CASE strlen!LoopHalf
    <3>1. pc = "loop_half" /\ ((pc' = "loop" /\ src' = src) \/ (pc' = "loop_end" /\ src' = src + W))
      BY <2>4 DEF strlen!LoopHalf
    <3>. QED
      BY <1>1, <1>4, <1>5, <1>6, <1>7, <3>1
  <2>5. CASE strlen!LoopEnd
    BY <1>4, <1>6, <2>5 DEF strlen!LoopEnd
  <2>. QED
    BY <2>1, <2>2, <2>3, <2>4, <2>5 DEF strlen!Next
<1>. QED
  BY <1>2, <1>3, <1>8, <1>9 DEF p, L, strlen!Stop, strlen!Answer

LEMMA StrchrPassed ==
    ASSUME GivenOK, CharOK, strchr!IInv
    PROVE  Within(strchr!Stop, strchr!Answer, strchr!Passed)
<1> DEFINE F == First(srcin, {chrin, 0})
<1>1. srcin \in Nat /\ F \in Nat /\ srcin <= F /\ W \in Nat
  BY ByteIs, WAssumption DEF IsFirst
<1>2. strchr!Match = F
  BY StrchrNames DEF strchr!Match
<1> HIDE DEF F
<1>3. /\ src \in Int
      /\ pc \in {"entry", "loop", "loop_half", "end", "ret"}
      /\ pc \in {"loop", "end"} => src + W <= F
      /\ pc = "loop_half" => src + 2 * W <= F
  BY <1>2 DEF strchr!IInv
<1>4. strchr!Answer \in Nat
  BY <1>1, <1>2 DEF strchr!Answer
<1>. QED
  BY <1>1, <1>2, <1>3, <1>4 DEF Within, strchr!Stop, strchr!Passed

LEMMA StrchrGrows ==
    ASSUME GivenOK, strchr!IInv, strchr!Next, strchr!IInv',
           Within(strchr!Stop, strchr!Answer, strchr!Passed)
    PROVE  /\ pc # "ret" /\ strchr!Stop' = strchr!Stop /\ strchr!Answer' = strchr!Answer
           /\ strchr!Passed' >= strchr!Passed
           /\ pc' = "ret" => result' = strchr!Answer
<1> DEFINE L == strchr!Match - srcin
           p == strchr!Passed
<1>1. srcin \in Nat /\ W \in Nat
  BY PointersAssumption, WAssumption DEF GivenOK
<1>2. SameGiven /\ pc # "ret" /\ chrin' = chrin /\ routine' = routine
  BY DEF SameGiven, strchr!Next, strchr!Entry, strchr!EntryNul, strchr!Loop, strchr!LoopHalf,
         strchr!End, strchr!EndNul, strchr!given
<1>3. strchr!Match' = strchr!Match
  BY <1>2 DEF strchr!Match, strchr!First, strchr!Min, SameGiven
<1>4. L \in Nat /\ p \in Int /\ p <= L
  BY DEF Within, strchr!Stop
<1>5. p = CASE pc = "entry" -> 0
            [] pc \in {"loop", "end"} -> (src + W) - srcin
            [] pc = "loop_half" -> (src + 2 * W) - srcin
            [] pc = "ret" -> L
  BY DEF strchr!Passed
<1>6. strchr!Passed' = CASE pc' = "entry" -> 0
            [] pc' \in {"loop", "end"} -> (src' + W) - srcin
            [] pc' = "loop_half" -> (src' + 2 * W) - srcin
            [] pc' = "ret" -> L
  BY <1>2, <1>3 DEF strchr!Passed, SameGiven
<1>7. src \in Int /\ (pc = "entry" => srcin < src + W)
  <2>1. src \in Int /\ (pc = "entry" => src = srcin - (srcin % W))
    BY StrchrNames DEF strchr!IInv, Aligned
  <2>. QED
    BY <1>1, <2>1, HeadIs
<1>8. strchr!Answer' = strchr!Answer
  BY <1>2, <1>3 DEF strchr!Answer, strchr!strchr, SameGiven
<1>9. pc' = "ret" => result' = strchr!Answer
  BY <1>8 DEF strchr!IInv
<1>10. strchr!Stop' = strchr!Stop
  BY <1>2, <1>3 DEF strchr!Stop, SameGiven
<1> HIDE DEF L, p
<1>11. strchr!Passed' >= p
  <2>1. CASE strchr!Entry \/ strchr!EntryNul
    <3>1. pc = "entry" /\ src' = src /\ (pc' = "loop" \/ pc' = "ret")
      BY <2>1 DEF strchr!Entry, strchr!EntryNul
    <3>. QED
      BY <1>1, <1>4, <1>5, <1>6, <1>7, <3>1
  <2>2. CASE strchr!Loop
    <3>1. pc = "loop" /\ src' = src /\ (pc' = "end" \/ pc' = "loop_half")
      BY <2>2 DEF strchr!Loop
    <3>. QED
      BY <1>1, <1>4, <1>5, <1>6, <1>7, <3>1
  <2>3. CASE strchr!LoopHalf
    <3>1. pc = "loop_half" /\ ((pc' = "end" /\ src' = src + W) \/ (pc' = "loop" /\ src' = src + 2 * W))
      BY <2>3 DEF strchr!LoopHalf
    <3>. QED
      BY <1>1, <1>4, <1>5, <1>6, <1>7, <3>1
  <2>4. CASE strchr!End \/ strchr!EndNul
    <3>1. pc' = "ret"
      BY <2>4 DEF strchr!End, strchr!EndNul
    <3>. QED
      BY <1>4, <1>6, <3>1
  <2>. QED
    BY <2>1, <2>2, <2>3, <2>4 DEF strchr!Next
<1>. QED
  BY <1>2, <1>8, <1>9, <1>10, <1>11 DEF p

LEMMA StrrchrPassed ==
    ASSUME GivenOK, CharOK, strrchr!IInv
    PROVE  Within(strrchr!Stop, strrchr!Answer, strrchr!Passed)
<1> DEFINE F == First(srcin, {chrin, 0})
           Z == First(srcin, {0})
<1>1. srcin \in Nat /\ IsFirst(F, srcin, {chrin, 0}) /\ IsFirst(Z, srcin, {0})
  BY ByteIs
<1>2. strrchr!Any = F /\ strrchr!Nul = Z
  BY StrrchrNames DEF strrchr!Any, strrchr!Nul
<1> HIDE DEF F, Z
<1>3. F \in Nat /\ Z \in Nat /\ srcin <= Z /\ F <= Z /\ W \in Nat
  BY <1>1, WAssumption DEF IsFirst
<1>4. /\ src \in Int
      /\ pc \in {"entry", "loop1", "loop1_half", "loop1_end", "loop2_start", "loop2",
                 "loop2_end", "ret"}
      /\ pc \in {"loop1", "loop1_end"} => src + W <= F
      /\ pc = "loop1_half" => src + 2 * W <= F
      /\ pc = "loop2_start" => src + W <= Z
      /\ pc = "loop2" => src <= Z
      /\ pc = "loop2_end" => src - W <= Z
  BY <1>2 DEF strrchr!IInv
<1>5. strrchr!Answer \in Nat
  <2> DEFINE M == {x \in srcin .. Z : mem[x] = chrin}
  <2>1. strrchr!Answer = IF M = {} THEN 0 ELSE Max(M)
    BY <1>2, StrrchrNames DEF strrchr!Answer, strrchr!Matches
  <2>2. ASSUME M # {} PROVE Max(M) \in M
    <3>1. M \subseteq 0 .. Z /\ Z \in Int
      BY <1>1, <1>3
    <3>. QED
      BY <1>3, <2>2, <3>1, MaxExists
  <2>3. M \subseteq Nat
    BY <1>1, <1>3
  <2>. QED
    BY <2>1, <2>2, <2>3
<1>. QED
  BY <1>1, <1>2, <1>3, <1>4, <1>5 DEF Within, strrchr!Stop, strrchr!Passed

LEMMA StrrchrGrows ==
    ASSUME GivenOK, strrchr!IInv, strrchr!Next, strrchr!IInv',
           Within(strrchr!Stop, strrchr!Answer, strrchr!Passed)
    PROVE  /\ pc # "ret" /\ strrchr!Stop' = strrchr!Stop /\ strrchr!Answer' = strrchr!Answer
           /\ strrchr!Passed' >= strrchr!Passed
           /\ pc' = "ret" => result' = strrchr!Answer
<1> DEFINE L == strrchr!Nul - srcin
           p == strrchr!Passed
<1>1. srcin \in Nat /\ W \in Nat
  BY PointersAssumption, WAssumption DEF GivenOK
<1>2. SameGiven /\ pc # "ret" /\ chrin' = chrin
  BY DEF SameGiven, strrchr!Next, strrchr!Entry, strrchr!Loop1, strrchr!Loop1Half,
         strrchr!Loop1End, strrchr!Loop2Start, strrchr!Loop2, strrchr!Loop2End,
         strrchr!Continue, strrchr!LoopLoad, strrchr!given
<1>3. strrchr!Nul' = strrchr!Nul
  BY <1>2 DEF strrchr!Nul, strrchr!First, strrchr!Min, SameGiven
<1>4. L \in Nat /\ p \in Int /\ p <= L
  BY DEF Within, strrchr!Stop
<1>5. p = CASE pc = "entry" -> 0
            [] pc \in {"loop1", "loop1_end", "loop2_start"} -> (src + W) - srcin
            [] pc = "loop1_half" -> (src + 2 * W) - srcin
            [] pc = "loop2" -> src - srcin
            [] pc = "loop2_end" -> (src - W) - srcin
            [] pc = "ret" -> L
  BY DEF strrchr!Passed
<1>6. strrchr!Passed' = CASE pc' = "entry" -> 0
            [] pc' \in {"loop1", "loop1_end", "loop2_start"} -> (src' + W) - srcin
            [] pc' = "loop1_half" -> (src' + 2 * W) - srcin
            [] pc' = "loop2" -> src' - srcin
            [] pc' = "loop2_end" -> (src' - W) - srcin
            [] pc' = "ret" -> L
  BY <1>2, <1>3 DEF strrchr!Passed, SameGiven
<1>7. src \in Int /\ (pc = "entry" => srcin < src + W)
  <2>1. src \in Int /\ (pc = "entry" => src = srcin - (srcin % W))
    BY StrrchrNames DEF strrchr!IInv, Aligned
  <2>. QED
    BY <1>1, <2>1, HeadIs
<1>8. strrchr!Answer' = strrchr!Answer
  BY <1>2, <1>3 DEF strrchr!Answer, strrchr!Matches, strrchr!Max, SameGiven
<1>9. pc' = "ret" => result' = strrchr!Answer
  BY <1>8 DEF strrchr!IInv
<1>10. strrchr!Stop' = strrchr!Stop
  BY <1>2, <1>3 DEF strrchr!Stop, SameGiven
<1> HIDE DEF L, p
<1>11. strrchr!Passed' >= p
  <2>1. CASE strrchr!Entry
    <3>1. pc = "entry" /\ src' = src /\ (pc' = "loop1" \/ pc' = "loop2_start" \/ pc' = "ret")
      BY <2>1 DEF strrchr!Entry, strrchr!Continue
    <3>. QED
      BY <1>1, <1>4, <1>5, <1>6, <1>7, <3>1
  <2>2. CASE strrchr!Loop1
    <3>1. pc = "loop1" /\ src' = src /\ (pc' = "loop1_half" \/ pc' = "loop1_end")
      BY <2>2 DEF strrchr!Loop1
    <3>. QED
      BY <1>1, <1>4, <1>5, <1>6, <1>7, <3>1
  <2>3. CASE strrchr!Loop1Half
    <3>1. /\ pc = "loop1_half"
          /\ (pc' = "loop1" /\ src' = src + 2 * W) \/ (pc' = "loop1_end" /\ src' = src + W)
      BY <2>3 DEF strrchr!Loop1Half
    <3>. QED
      BY <1>1, <1>4, <1>5, <1>6, <1>7, <3>1
  <2>4. CASE strrchr!Loop1End
    <3>1. pc = "loop1_end" /\ src' = src + W /\ (pc' = "loop2_start" \/ pc' = "ret")
      BY <2>4 DEF strrchr!Loop1End, strrchr!Continue
    <3>. QED
      BY <1>1, <1>4, <1>5, <1>6, <1>7, <3>1
  <2>5. CASE strrchr!Loop2Start
    <3>1. pc = "loop2_start" /\ src' = src + W /\ pc' = "loop2"
      BY <2>5 DEF strrchr!Loop2Start
    <3>. QED
      BY <1>1, <1>4, <1>5, <1>6, <1>7, <3>1
  <2>6. CASE strrchr!Loop2
    <3>1. pc = "loop2" /\ src' = src + W /\ (pc' = "loop2" \/ pc' = "loop2_end")
      BY <2>6 DEF strrchr!Loop2
    <3>. QED
      BY <1>1, <1>4, <1>5, <1>6, <1>7, <3>1
  <2>7. CASE strrchr!Loop2End
    <3>1. pc' = "ret"
      BY <2>7 DEF strrchr!Loop2End
    <3>. QED
      BY <1>4, <1>6, <3>1
  <2>. QED
    BY <2>1, <2>2, <2>3, <2>4, <2>5, <2>6, <2>7 DEF strrchr!Next
<1>. QED
  BY <1>2, <1>8, <1>9, <1>10, <1>11 DEF p

LEMMA MemchrPassed ==
    ASSUME GivenOK, CharOK, CountOK, memchr!IInv, routine \in Memchrs
    PROVE  Within(memchr!Stop, memchr!Answer, memchr!Passed)
<1> DEFINE F == First(srcin, {chrin})
           Least(x) == IF x < cntin THEN x ELSE cntin
<1>1. srcin \in Nat /\ F \in Nat /\ srcin <= F /\ W \in Nat /\ cntin \in Nat
  <2>1. chrin \in {chrin} /\ chrin \in Chars \cup {0}
    BY DEF CharOK
  <2>2. srcin \in Nat /\ IsFirst(F, srcin, {chrin})
    BY <2>1, ByteIs
  <2>. QED
    BY <2>2, WAssumption DEF IsFirst, CountOK
<1>2. memchr!Match = F
  BY MemchrNames DEF memchr!Match
<1>3. \A x : memchr!AtMost(x, cntin) = Least(x)
  BY DEF memchr!AtMost
<1> HIDE DEF F
<1>4. /\ src \in Int
      /\ pc \in {"entry", "start_loop", "loop32", "loop32_2", "end", "ret"}
      /\ pc \in {"start_loop", "loop32_2"} => src + W <= F
      /\ pc = "loop32" => src + 2 * W <= F
      /\ pc = "end" => src <= F /\ (srcin + cntin - 1) - src >= 0
  BY <1>2 DEF memchr!IInv, memchr!ToLoad, memchr!LeftAfter
<1>5. memchr!Stop = Least(F - srcin) /\ Least(F - srcin) \in Nat
  <2>1. Least(F - srcin) \in Nat
    BY <1>1
  <2> HIDE DEF Least
  <2>. QED
    BY <1>2, <1>3, <2>1 DEF memchr!Stop
<1>6. memchr!Answer \in Nat
  BY <1>1, <1>2, <1>5 DEF memchr!Answer, Memchrs
<1>7. memchr!Passed = CASE pc = "entry" -> 0
            [] pc \in {"start_loop", "loop32_2"} -> Least((src + W) - srcin)
            [] pc = "loop32" -> Least((src + 2 * W) - srcin)
            [] pc = "end" -> src - srcin
            [] pc = "ret" -> Least(F - srcin)
  <2> HIDE DEF Least
  <2>. QED
    BY <1>2, <1>3 DEF memchr!Passed
<1>8. memchr!Passed \in Int /\ memchr!Passed <= Least(F - srcin)
  BY <1>1, <1>4, <1>7
<1> HIDE DEF Least
<1>. QED
  BY <1>5, <1>6, <1>7, <1>8 DEF Within

LEMMA MemchrGrows ==
    ASSUME GivenOK, CountOK, memchr!IInv, memchr!Next, memchr!IInv',
           Within(memchr!Stop, memchr!Answer, memchr!Passed)
    PROVE  /\ pc # "ret" /\ memchr!Stop' = memchr!Stop /\ memchr!Answer' = memchr!Answer
           /\ memchr!Passed' >= memchr!Passed
           /\ pc' = "ret" => result' = memchr!Answer
<1> DEFINE L == memchr!AtMost(memchr!Match - srcin, cntin)
           p == memchr!Passed
           Least(x) == IF x < cntin THEN x ELSE cntin
<1>1. srcin \in Nat /\ W \in Nat /\ cntin \in Nat
  BY PointersAssumption, WAssumption DEF GivenOK, CountOK
<1>2. SameGiven /\ pc # "ret" /\ chrin' = chrin /\ routine' = routine /\ cntin' = cntin
  BY DEF SameGiven, memchr!Next, memchr!ZeroLength, memchr!Entry, memchr!StartLoop,
         memchr!Loop32, memchr!Loop32_2, memchr!End, memchr!given, memchr!args
<1>3. memchr!Match' = memchr!Match
  BY <1>2 DEF memchr!Match, memchr!First, memchr!Min, SameGiven
<1>4. L \in Nat /\ p \in Int /\ p <= L
  BY DEF Within, memchr!Stop
<1>5. p = CASE pc = "entry" -> 0
            [] pc \in {"start_loop", "loop32_2"} -> Least((src + W) - srcin)
            [] pc = "loop32" -> Least((src + 2 * W) - srcin)
            [] pc = "end" -> src - srcin
            [] pc = "ret" -> L
  BY DEF memchr!Passed, memchr!AtMost
<1>6. memchr!Passed' = CASE pc' = "entry" -> 0
            [] pc' \in {"start_loop", "loop32_2"} -> Least((src' + W) - srcin)
            [] pc' = "loop32" -> Least((src' + 2 * W) - srcin)
            [] pc' = "end" -> src' - srcin
            [] pc' = "ret" -> L
  BY <1>2, <1>3 DEF memchr!Passed, memchr!AtMost, SameGiven
<1>7. src \in Int /\ (pc = "entry" => srcin < src + W)
  <2>1. src \in Int /\ (pc = "entry" => src = srcin - (srcin % W))
    BY MemchrNames DEF memchr!IInv, Aligned
  <2>. QED
    BY <1>1, <2>1, HeadIs
<1>8. memchr!Stop' = memchr!Stop
  BY <1>2, <1>3 DEF memchr!Stop, memchr!AtMost, SameGiven
<1>9. memchr!Answer' = memchr!Answer
  BY <1>2, <1>3, <1>8 DEF memchr!Answer, SameGiven
<1>10. pc' = "ret" => result' = memchr!Answer
  BY <1>9 DEF memchr!IInv
<1> HIDE DEF L, p
<1>11. memchr!Passed' >= p
  <2>1. CASE memchr!ZeroLength \/ memchr!End
    <3>1. pc' = "ret"
      BY <2>1 DEF memchr!ZeroLength, memchr!NoMatch, memchr!End
    <3>. QED
      BY <1>4, <1>6, <3>1
  <2>2. CASE memchr!Entry
    <3>1. pc = "entry" /\ src' = src /\ (pc' = "start_loop" \/ pc' = "ret")
      BY <2>2 DEF memchr!Entry
    <3>. QED
      BY <1>1, <1>4, <1>5, <1>6, <1>7, <3>1
  <2>3. CASE memchr!StartLoop
    <3>1. /\ pc = "start_loop"
          /\ \/ pc' = "ret"
             \/ pc' = "loop32_2" /\ src' = src
             \/ pc' = "loop32" /\ src' = src - W
      BY <2>3 DEF memchr!StartLoop, memchr!NoMatch
    <3>. QED
      BY <1>1, <1>4, <1>5, <1>6, <1>7, <3>1
  <2>4. CASE memchr!Loop32
    <3>1. pc = "loop32" /\ src' = src + 2 * W /\ (pc' = "end" \/ pc' = "loop32_2")
      BY <2>4 DEF memchr!Loop32
    <3>. QED
      BY <1>1, <1>4, <1>5, <1>6, <1>7, <3>1
  <2>5. CASE memchr!Loop32_2
    <3>1. /\ pc = "loop32_2"
          /\ (pc' = "end" /\ src' = src + W) \/ (pc' = "loop32" /\ src' = src)
      BY <2>5 DEF memchr!Loop32_2
    <3>. QED
      BY <1>1, <1>4, <1>5, <1>6, <1>7, <3>1
  <2>. QED
    BY <2>1, <2>2, <2>3, <2>4, <2>5 DEF memchr!Next
<1>. QED
  BY <1>2, <1>8, <1>9, <1>10, <1>11 DEF p

LEMMA MemrchrPassed ==
    ASSUME GivenOK, CountOK, memrchr!IInv
    PROVE  Within(memrchr!Stop, memrchr!Answer, memrchr!Passed)
<1> DEFINE e == srcin + cntin
           T == memrchr!LastMatch
           Least(x) == IF x < cntin THEN x ELSE cntin
<1>1. srcin \in Nat /\ W \in Nat /\ cntin \in Nat
  BY PointersAssumption, WAssumption DEF GivenOK, CountOK
<1>2. /\ IsLast(T) /\ memrchr!Answer = IF T >= srcin THEN T ELSE 0
      /\ memrchr!After = (srcin + cntin - 1) - T
  BY <1>1, LastIs
<1>3. T \in Int /\ srcin - 1 <= T /\ T <= srcin + cntin - 1
  BY <1>2 DEF IsLast
<1>4. memrchr!end = e
  BY DEF memrchr!end
<1>5. \A x : memrchr!AtMost(x, cntin) = Least(x)
  BY DEF memrchr!AtMost
<1>6. memrchr!After = (e - 1) - T /\ e \in Int
  BY <1>1, <1>2, <1>3
<1> HIDE DEF T
<1>7. /\ src \in Int
      /\ pc \in {"entry", "start_loop", "loop32", "loop32_2", "end", "ret"}
      /\ pc = "start_loop" => T < src \/ T < srcin
      /\ pc = "loop32_2" => T < src
      /\ pc = "loop32" => T < src - W
      /\ pc = "end" => T < src + W
  BY DEF memrchr!IInv, T
<1>8. memrchr!Passed = CASE pc = "entry" -> 0
            [] pc \in {"start_loop", "loop32_2"} -> Least(e - src)
            [] pc = "loop32" -> Least(e - (src - W))
            [] pc = "end" -> e - (src + W)
            [] pc = "ret" -> memrchr!After
  <2> HIDE DEF Least, e
  <2>. QED
    BY <1>4, <1>5 DEF memrchr!Passed
<1>9. memrchr!Passed \in Int /\ memrchr!Passed <= memrchr!After /\ memrchr!After \in Nat
  BY <1>1, <1>3, <1>6, <1>7, <1>8
<1>10. memrchr!Answer \in Nat
  BY <1>1, <1>2, <1>3
<1>. QED
  BY <1>8, <1>9, <1>10 DEF Within, memrchr!Stop

LEMMA MemrchrGrows ==
    ASSUME GivenOK, CountOK, memrchr!IInv, memrchr!Next, memrchr!IInv',
           Within(memrchr!Stop, memrchr!Answer, memrchr!Passed)
    PROVE  /\ pc # "ret" /\ memrchr!Stop' = memrchr!Stop /\ memrchr!Answer' = memrchr!Answer
           /\ memrchr!Passed' >= memrchr!Passed
           /\ pc' = "ret" => result' = memrchr!Answer
<1> DEFINE L == memrchr!After
           p == memrchr!Passed
           e == srcin + cntin
           Least(x) == IF x < cntin THEN x ELSE cntin
<1>1. srcin \in Nat /\ W \in Nat /\ cntin \in Nat /\ e \in Int
  BY PointersAssumption, WAssumption DEF GivenOK, CountOK
<1>2. SameGiven /\ pc # "ret" /\ chrin' = chrin /\ cntin' = cntin
  BY DEF SameGiven, memrchr!Next, memrchr!ZeroLength, memrchr!Entry, memrchr!StartLoop,
         memrchr!Loop32, memrchr!Loop32_2, memrchr!End, memrchr!given
<1>3. memrchr!After' = memrchr!After /\ memrchr!Answer' = memrchr!Answer
  BY <1>2 DEF memrchr!After, memrchr!Answer, memrchr!Matches, memrchr!endm1, memrchr!end,
     memrchr!Max, SameGiven
<1>4. L \in Nat /\ p \in Int /\ p <= L
  BY DEF Within, memrchr!Stop
<1>5. p = CASE pc = "entry" -> 0
            [] pc \in {"start_loop", "loop32_2"} -> Least(e - src)
            [] pc = "loop32" -> Least(e - (src - W))
            [] pc = "end" -> e - (src + W)
            [] pc = "ret" -> L
  BY DEF memrchr!Passed, memrchr!AtMost, memrchr!end
<1>6. memrchr!Passed' = CASE pc' = "entry" -> 0
            [] pc' \in {"start_loop", "loop32_2"} -> Least(e - src')
            [] pc' = "loop32" -> Least(e - (src' - W))
            [] pc' = "end" -> e - (src' + W)
            [] pc' = "ret" -> L
  BY <1>2, <1>3 DEF memrchr!Passed, memrchr!AtMost, memrchr!end, SameGiven
<1>7. src \in Int /\ (pc = "entry" => src <= e)
  <2>1. src \in Int /\ (pc = "entry" => src = (e - 1) - ((e - 1) % W))
    BY MemrchrNames DEF memrchr!IInv, Aligned, memrchr!endm1, memrchr!end
  <2>2. (e - 1) % W \in 0 .. (W - 1)
    BY <1>1, WAssumption, DivMod
  <2>. QED
    BY <1>1, <2>1, <2>2
<1>8. pc' = "ret" => result' = memrchr!Answer
  BY <1>3 DEF memrchr!IInv
<1> HIDE DEF L, p, e
<1>9. memrchr!Passed' >= p
  <2>1. CASE memrchr!ZeroLength \/ memrchr!End
    <3>1. pc' = "ret"
      BY <2>1 DEF memrchr!ZeroLength, memrchr!NoMatch, memrchr!End
    <3>. QED
      BY <1>4, <1>6, <3>1
  <2>2. CASE memrchr!Entry
    <3>1. pc = "entry" /\ src' = src /\ (pc' = "start_loop" \/ pc' = "ret")
      BY <2>2 DEF memrchr!Entry
    <3>. QED
      BY <1>1, <1>4, <1>5, <1>6, <1>7, <3>1
  <2>3. CASE memrchr!StartLoop
    <3>1. /\ pc = "start_loop"
          /\ \/ pc' = "ret"
             \/ pc' = "loop32_2" /\ src' = src
             \/ pc' = "loop32" /\ src' = src + W
      BY <2>3 DEF memrchr!StartLoop, memrchr!NoMatch
    <3>. QED
      BY <1>1, <1>4, <1>5, <1>6, <1>7, <3>1
  <2>4. CASE memrchr!Loop32
    <3>1. pc = "loop32" /\ src' = src - 2 * W /\ (pc' = "end" \/ pc' = "loop32_2")
      BY <2>4 DEF memrchr!Loop32
    <3>. QED
      BY <1>1, <1>4, <1>5, <1>6, <1>7, <3>1
  <2>5. CASE memrchr!Loop32_2
    <3>1. /\ pc = "loop32_2"
          /\ (pc' = "end" /\ src' = src - W) \/ (pc' = "loop32" /\ src' = src)
      BY <2>5 DEF memrchr!Loop32_2
    <3>. QED
      BY <1>1, <1>4, <1>5, <1>6, <1>7, <3>1
  <2>. QED
    BY <2>1, <2>2, <2>3, <2>4, <2>5 DEF memrchr!Next
<1>. QED
  BY <1>2, <1>3, <1>8, <1>9 DEF p, L, memrchr!Stop

PassedInv == Within(Stop, Answer, Passed)

LEMMA PassedIs ==
    ASSUME ArgsOK, IInv
    PROVE  PassedInv
<1>1. GivenOK /\ CharOK /\ (routine \in Memchrs \cup {"memrchr"} => CountOK)
  BY DEF ArgsOK
<1>2. CASE routine = "strlen" /\ strlen!IInv
  <2>1. Stop = strlen!Stop /\ Answer = strlen!Answer /\ Passed = strlen!Passed
    BY <1>2 DEF Stop, Answer, Passed, Memchrs, Strchrs
  <2>. QED
    BY <1>1, <1>2, <2>1, StrlenPassed DEF PassedInv
<1>3. CASE routine \in Memchrs /\ memchr!IInv
  <2>1. Stop = memchr!Stop /\ Answer = memchr!Answer /\ Passed = memchr!Passed
    BY <1>3 DEF Stop, Answer, Passed, Memchrs, Strchrs
  <2>. QED
    BY <1>1, <1>3, <2>1, MemchrPassed DEF PassedInv
<1>4. CASE routine = "memrchr" /\ memrchr!IInv
  <2>1. Stop = memrchr!Stop /\ Answer = memrchr!Answer /\ Passed = memrchr!Passed
    BY <1>4 DEF Stop, Answer, Passed, Memchrs, Strchrs
  <2>. QED
    BY <1>1, <1>4, <2>1, MemrchrPassed DEF PassedInv
<1>5. CASE routine \in Strchrs /\ strchr!IInv
  <2>1. Stop = strchr!Stop /\ Answer = strchr!Answer /\ Passed = strchr!Passed
    BY <1>5 DEF Stop, Answer, Passed, Memchrs, Strchrs
  <2>. QED
    BY <1>1, <1>5, <2>1, StrchrPassed DEF PassedInv
<1>6. CASE routine = "strrchr" /\ strrchr!IInv
  <2>1. Stop = strrchr!Stop /\ Answer = strrchr!Answer /\ Passed = strrchr!Passed
    BY <1>6 DEF Stop, Answer, Passed, Memchrs, Strchrs
  <2>. QED
    BY <1>1, <1>6, <2>1, StrrchrPassed DEF PassedInv
<1>. QED
  BY <1>2, <1>3, <1>4, <1>5, <1>6 DEF IInv

\* A step passes over some bytes, or replies.
LEMMA PassedGrows ==
    ASSUME ArgsOK, IInv, PassedInv, Next, IInv'
    PROVE  /\ pc # "ret" /\ Stop' = Stop /\ Answer' = Answer /\ Passed' >= Passed
           /\ pc' = "ret" => result' = Answer
<1>1. GivenOK /\ (routine \in Memchrs \cup {"memrchr"} => CountOK)
  BY DEF ArgsOK
<1>2. routine' = routine
  BY SameCall
<1>3. CASE Strlen
  <2>1. routine = "strlen" /\ strlen!Next
    BY <1>3 DEF Strlen
  <2>2. strlen!IInv /\ strlen!IInv'
    BY <1>2, <2>1 DEF IInv, Memchrs, Strchrs
  <2>3. /\ Stop = strlen!Stop /\ Answer = strlen!Answer /\ Passed = strlen!Passed
        /\ Stop' = strlen!Stop' /\ Answer' = strlen!Answer' /\ Passed' = strlen!Passed'
    BY <1>2, <2>1 DEF Stop, Answer, Passed, Memchrs, Strchrs
  <2>. QED
    BY <1>1, <2>1, <2>2, <2>3, StrlenGrows DEF PassedInv
<1>4. CASE Memchr
  <2>1. routine \in Memchrs /\ memchr!Next
    BY <1>4 DEF Memchr
  <2>2. memchr!IInv /\ memchr!IInv'
    BY <1>2, <2>1 DEF IInv, Memchrs, Strchrs
  <2>3. /\ Stop = memchr!Stop /\ Answer = memchr!Answer /\ Passed = memchr!Passed
        /\ Stop' = memchr!Stop' /\ Answer' = memchr!Answer' /\ Passed' = memchr!Passed'
    BY <1>2, <2>1 DEF Stop, Answer, Passed, Memchrs, Strchrs
  <2>. QED
    BY <1>1, <2>1, <2>2, <2>3, MemchrGrows DEF PassedInv
<1>5. CASE MemrchrStep
  <2>1. routine = "memrchr" /\ memrchr!Next
    BY <1>5 DEF MemrchrStep
  <2>2. memrchr!IInv /\ memrchr!IInv'
    BY <1>2, <2>1 DEF IInv, Memchrs, Strchrs
  <2>3. /\ Stop = memrchr!Stop /\ Answer = memrchr!Answer /\ Passed = memrchr!Passed
        /\ Stop' = memrchr!Stop' /\ Answer' = memrchr!Answer' /\ Passed' = memrchr!Passed'
    BY <1>2, <2>1 DEF Stop, Answer, Passed, Memchrs, Strchrs
  <2>. QED
    BY <1>1, <2>1, <2>2, <2>3, MemrchrGrows DEF PassedInv
<1>6. CASE Strchr
  <2>1. routine \in Strchrs /\ strchr!Next
    BY <1>6 DEF Strchr
  <2>2. strchr!IInv /\ strchr!IInv'
    BY <1>2, <2>1 DEF IInv, Memchrs, Strchrs
  <2>3. /\ Stop = strchr!Stop /\ Answer = strchr!Answer /\ Passed = strchr!Passed
        /\ Stop' = strchr!Stop' /\ Answer' = strchr!Answer' /\ Passed' = strchr!Passed'
    BY <1>2, <2>1 DEF Stop, Answer, Passed, Memchrs, Strchrs
  <2>. QED
    BY <1>1, <2>1, <2>2, <2>3, StrchrGrows DEF PassedInv
<1>7. CASE Strrchr
  <2>1. routine = "strrchr" /\ strrchr!Next
    BY <1>7 DEF Strrchr
  <2>2. strrchr!IInv /\ strrchr!IInv'
    BY <1>2, <2>1 DEF IInv, Memchrs, Strchrs
  <2>3. /\ Stop = strrchr!Stop /\ Answer = strrchr!Answer /\ Passed = strrchr!Passed
        /\ Stop' = strrchr!Stop' /\ Answer' = strrchr!Answer' /\ Passed' = strrchr!Passed'
    BY <1>2, <2>1 DEF Stop, Answer, Passed, Memchrs, Strchrs
  <2>. QED
    BY <1>1, <2>1, <2>2, <2>3, StrrchrGrows DEF PassedInv
<1>. QED
  BY <1>3, <1>4, <1>5, <1>6, <1>7 DEF Next

LEMMA NextSearches ==
    ASSUME ArgsOK, IInv, PassedInv, Next, IInv', PassedInv'
    PROVE  [S!Next]_(S!vars)
<1>1. /\ pc # "ret" /\ Stop' = Stop /\ Answer' = Answer /\ Passed' >= Passed
      /\ pc' = "ret" => result' = Answer
  BY PassedGrows
<1>2. Passed \in Int /\ Passed' \in Int /\ Passed' <= Stop
  BY <1>1 DEF PassedInv, Within
<1>3. CASE pc' = "ret"
  <2>1. S!Reply
    BY <1>1, <1>2, <1>3 DEF S!Reply
  <2>. QED
    BY <2>1 DEF S!Next
<1>4. CASE pc' # "ret" /\ Passed' > Passed
  <2>1. S!Look
    BY <1>1, <1>2, <1>4 DEF S!Look
  <2>. QED
    BY <2>1 DEF S!Next
<1>5. CASE pc' # "ret" /\ ~(Passed' > Passed)
  <2>1. Passed' = Passed
    BY <1>1, <1>2, <1>5
  <2>2. UNCHANGED S!vars
    BY <1>1, <1>5, <2>1 DEF S!vars
  <2>. QED
    BY <2>2
<1>. QED
  BY <1>3, <1>4, <1>5

LEMMA StutterSearches ==
    ASSUME UNCHANGED vars
    PROVE  UNCHANGED S!vars
<1>1. /\ SameGiven /\ routine' = routine /\ chrin' = chrin /\ cntin' = cntin
      /\ pc' = pc /\ src' = src /\ result' = result
  BY DEF vars, SameGiven
<1>2. strlen!Stop' = strlen!Stop /\ strlen!Answer' = strlen!Answer /\ strlen!Passed' = strlen!Passed
  BY <1>1 DEF strlen!Stop, strlen!Answer, strlen!Passed, strlen!Length, strlen!First,
     strlen!Min, SameGiven
<1>3. memchr!Stop' = memchr!Stop /\ memchr!Answer' = memchr!Answer /\ memchr!Passed' = memchr!Passed
  <2>1. memchr!Match' = memchr!Match
    BY <1>1 DEF memchr!Match, memchr!First, memchr!Min, SameGiven
  <2>2. memchr!Stop' = memchr!Stop
    BY <1>1, <2>1 DEF memchr!Stop, memchr!AtMost, SameGiven
  <2>. QED
    BY <1>1, <2>1, <2>2 DEF memchr!Answer, memchr!Passed, memchr!AtMost, SameGiven
<1>4. /\ memrchr!Stop' = memrchr!Stop /\ memrchr!Answer' = memrchr!Answer
      /\ memrchr!Passed' = memrchr!Passed
  <2>1. memrchr!end' = memrchr!end /\ memrchr!endm1' = memrchr!endm1
        /\ memrchr!Matches' = memrchr!Matches
    BY <1>1 DEF memrchr!end, memrchr!endm1, memrchr!Matches, SameGiven
  <2>2. memrchr!After' = memrchr!After
    BY <1>1, <2>1 DEF memrchr!After, memrchr!Max, SameGiven
  <2>. QED
    BY <1>1, <2>1, <2>2 DEF memrchr!Stop, memrchr!Answer, memrchr!Passed, memrchr!AtMost,
       memrchr!Max, SameGiven
<1>5. strchr!Stop' = strchr!Stop /\ strchr!Answer' = strchr!Answer /\ strchr!Passed' = strchr!Passed
  BY <1>1 DEF strchr!Stop, strchr!Answer, strchr!Passed, strchr!Match, strchr!strchr,
     strchr!First, strchr!Min, SameGiven
<1>6. /\ strrchr!Stop' = strrchr!Stop /\ strrchr!Answer' = strrchr!Answer
      /\ strrchr!Passed' = strrchr!Passed
  <2>1. strrchr!Nul' = strrchr!Nul
    BY <1>1 DEF strrchr!Nul, strrchr!First, strrchr!Min, SameGiven
  <2>2. strrchr!Matches' = strrchr!Matches
    BY <1>1, <2>1 DEF strrchr!Matches, SameGiven
  <2>. QED
    BY <1>1, <2>1, <2>2 DEF strrchr!Stop, strrchr!Answer, strrchr!Passed, strrchr!Max, SameGiven
<1>7. Stop' = Stop
  BY <1>1, <1>2, <1>3, <1>4, <1>5, <1>6 DEF Stop
<1>8. Answer' = Answer
  BY <1>1, <1>2, <1>3, <1>4, <1>5, <1>6 DEF Answer
<1>9. Passed' = Passed
  BY <1>1, <1>2, <1>3, <1>4, <1>5, <1>6 DEF Passed
<1>. QED
  BY <1>1, <1>7, <1>8, <1>9 DEF S!vars

\* Each of the routines looks at the bytes in order, passes over none, gets no further
\* than the one that settles the answer and returns what the C standard says: for every
\* alignment, size and character and in both byte orders.  That it does return is left
\* to the model checker.
THEOREM StepsSearch == Spec => S!Init /\ [][S!Next]_(S!vars)
<1> DEFINE Inv == ArgsOK /\ IInv
<1>1. Init => Inv
  BY InitIInv
<1>2. Inv /\ [Next]_vars => Inv'
  BY NextIInv, StutterIInv
<1>3. Inv => PassedInv
  BY PassedIs
<1>4. Init => S!Init
  <2>1. SUFFICES ASSUME Init PROVE S!Init
    OBVIOUS
  <2>2. pc = "entry"
    BY <2>1 DEF Init, strlen!Init, strlen!Called, memchr!Init, memchr!Called, memrchr!Init,
       memrchr!Called, strchr!Init, strchr!Called, strrchr!Init, strrchr!Called
  <2>3. Within(Stop, Answer, Passed)
    BY <2>1, <1>1, <1>3 DEF PassedInv
  <2>. QED
    BY <2>2, <2>3 DEF S!Init, Within
<1>5. Inv /\ PassedInv /\ Inv' /\ PassedInv' /\ [Next]_vars => [S!Next]_(S!vars)
  <2>1. CASE Next
    BY <2>1, NextSearches
  <2>2. CASE UNCHANGED vars
    BY <2>2, StutterSearches
  <2>. QED
    BY <2>1, <2>2
<1> HIDE DEF Inv
<1>. QED
  BY <1>1, <1>2, <1>3, <1>4, <1>5, PTL DEF Spec

=============================================================================
