------------------------- MODULE MemcpyAArch64Proofs -------------------------
(***************************************************************************)
(* Proofs about MemcpyAArch64 for every address space, memory and call.    *)
(***************************************************************************)
EXTENDS MemcpyAArch64, TLAPS

-----------------------------------------------------------------------------
\* The memory operators.  A copy in progress is Copied(m, delta, R): the bytes
\* of R have come from delta higher up, the others are untouched.

\* A memory in which nothing has been copied is the memory itself.
LEMMA CopiedNothing ==
    ASSUME NEW m, m = [x \in DOMAIN m |-> m[x]], NEW delta
    PROVE  Copied(m, delta, {}) = m
BY DEF Copied

\* Copying keeps the set of addresses.
LEMMA CopiedDomain ==
    ASSUME NEW m, NEW delta, NEW R
    PROVE  DOMAIN Copied(m, delta, R) = DOMAIN m
BY DEF Copied

\* A chunk has the bytes 0 .. w-1.
LEMMA LoadDomain ==
    ASSUME NEW m, NEW a \in Int, NEW w \in Nat
    PROVE  DOMAIN Load(m, a, w) = 0 .. (w - 1)
BY DEF Load

\* A load of bytes a copy in progress has not reached gives their old contents.
LEMMA LoadIntact ==
    ASSUME NEW m, NEW delta, NEW R, NEW a \in Int, NEW w \in Nat,
           Span(a, w) \subseteq DOMAIN m,
           Span(a, w) \cap R = {}
    PROVE  Load(Copied(m, delta, R), a, w) = Load(m, a, w)
<1>1. ASSUME NEW i \in 0 .. (w - 1)
      PROVE  Copied(m, delta, R)[a + i] = m[a + i]
  <2>1. a + i \in Span(a, w)
    BY DEF Span
  <2>2. a + i \in DOMAIN m /\ a + i \notin R
    BY <2>1
  <2>. QED
    BY <2>2 DEF Copied
<1>. QED
  BY <1>1 DEF Load

\* The region R after w more bytes, at q, have been copied.  (An operator, as
\* the SMT backend does not take a union as an argument in a cited lemma.)
Grown(R, q, w) == R \cup Span(q, w)

\* Storing at q a chunk loaded from delta higher up extends the copy by the
\* addresses of the chunk.
LEMMA StoreExtends ==
    ASSUME NEW m, NEW delta \in Int, NEW R, NEW q \in Int, NEW p \in Int,
           NEW w \in Nat, p - q = delta, DOMAIN m \subseteq Int
    PROVE  Store(Copied(m, delta, R), q, w, Load(m, p, w))
              = Copied(m, delta, Grown(R, q, w))
<1> DEFINE v == Load(m, p, w)
           c == Copied(m, delta, R)
           d == Copied(m, delta, Grown(R, q, w))
<1>1. DOMAIN c = DOMAIN m
  BY CopiedDomain
<1>2. ASSUME NEW x \in DOMAIN m
      PROVE  (IF q <= x /\ x < q + w THEN v[x - q] ELSE c[x]) = d[x]
  <2>1. x \in Int
    OBVIOUS
  <2>2. x \in Span(q, w) <=> q <= x /\ x < q + w
    BY <2>1 DEF Span
  <2>3. CASE q <= x /\ x < q + w
    <3>1. x - q \in 0 .. (w - 1)
      BY <2>1, <2>3
    <3>2. v[x - q] = m[p + (x - q)]
      BY <3>1 DEF Load
    <3>3. p + (x - q) = x + delta
      BY <2>1
    <3>. QED
      BY <2>2, <2>3, <3>2, <3>3 DEF Copied, Grown
  <2>4. CASE ~(q <= x /\ x < q + w)
    BY <2>2, <2>4 DEF Copied, Grown
  <2>. QED
    BY <2>3, <2>4
<1>3. Store(c, q, w, v) = [x \in DOMAIN m |-> d[x]]
  BY <1>1, <1>2 DEF Store
<1>4. d = [x \in DOMAIN m |-> d[x]]
  BY DEF Copied
<1>. QED
  BY <1>3, <1>4

-----------------------------------------------------------------------------

Shift == call.s - dstin

USE AddrSpaceAssumption, Mem0Assumption, CallsAssumption

\* The caller's buffers are in the address space.
LEMMA CallFacts ==
    ASSUME call \in Calls
    PROVE  /\ call.d \in Nat /\ call.s \in Nat /\ call.n \in Nat /\ dstin = call.d
           /\ AddrSpace \in Nat
           /\ call.d + call.n <= AddrSpace /\ call.s + call.n <= AddrSpace
           /\ Shift \in Int /\ DOMAIN Mem0 = Addr /\ Addr \subseteq Int
<1>1. ValidCall(call)
  OBVIOUS
<1>2. DOMAIN Mem0 = Addr
  OBVIOUS
<1>. QED
  BY <1>1, <1>2 DEF ValidCall, Addr, dstin, Shift

\* The initial state satisfies the invariant.
LEMMA InitIInv == Init => IInv
<1> SUFFICES ASSUME Init PROVE IInv
  OBVIOUS
<1>1. call \in Calls /\ pc = "entry" /\ mem = Mem0 /\ DOMAIN Mem0 = Addr
  BY CallFacts DEF Init
<1>2. \A q \in {A, B, C, D} : DOMAIN q = 0 .. 15
  BY DEF Init, Zeros
<1>3. rd = {} /\ wr = {}
  BY DEF Init
<1>4. EntryInv
  BY DEF Init, EntryInv
<1>. QED
  BY <1>1, <1>2, <1>3, <1>4
     DEF IInv, TypeOK, Footprint, ForwardInv, BackwardInv, MovedAtRet

\* What an action has to establish to return: the destination is complete and
\* only the buffers were touched.
LEMMA ReturnStep ==
    ASSUME IInv, pc' = "ret", UNCHANGED <<call, ptrs, pairs>>,
           rd' \subseteq Span(call.s, call.n), wr' \subseteq Span(call.d, call.n),
           mem' = Copied(Mem0, Shift, Span(dstin, call.n))
    PROVE  IInv'
<1>1. call \in Calls
  BY DEF IInv, TypeOK
<1>2. mem' = Moved(Mem0, call.d, call.s, call.n)
  BY DEF Moved, Shift, dstin
<1>3. DOMAIN mem' = Addr
  BY <1>1, CallFacts, CopiedDomain
<1>4. TypeOK'
  BY <1>3 DEF IInv, TypeOK, pairs
<1>5. (Footprint /\ MovedAtRet)'
  BY <1>2 DEF Footprint, MovedAtRet
<1>. QED
  BY <1>4, <1>5 DEF IInv, EntryInv, ForwardInv, BackwardInv

\* A block loaded before any store and stored at the matching place extends
\* the copy.
LEMMA BlockExtends ==
    ASSUME call \in Calls, mem = Mem0, NEW R,
           NEW q \in Int, NEW p \in Int, NEW w \in Nat, p - q = Shift
    PROVE  Block(Copied(Mem0, Shift, R), <<q, p, w>>)
              = Copied(Mem0, Shift, Grown(R, q, w))
<1>1. Shift \in Int /\ DOMAIN Mem0 \subseteq Int
  BY CallFacts
<1>2. Store(Copied(Mem0, Shift, R), q, w, Load(Mem0, p, w))
        = Copied(Mem0, Shift, Grown(R, q, w))
  BY <1>1, StoreExtends
<1>3. Block(Copied(Mem0, Shift, R), <<q, p, w>>)
        = Store(Copied(Mem0, Shift, R), q, w, Load(mem, p, w))
  BY DEF Block, Put
<1>. QED
  BY <1>2, <1>3

\* What holds where the branches of the routine start.
LEMMA EntryFacts ==
    ASSUME IInv, pc = "entry"
    PROVE  /\ call \in Calls /\ mem = Mem0 /\ Mem0 = Copied(Mem0, Shift, {})
           /\ dstin = call.d
           /\ src = call.s /\ srcend = call.s + call.n
           /\ dst = call.d /\ dstend = call.d + call.n
           /\ count = call.n
<1>1. call \in Calls /\ mem = Mem0
  BY DEF IInv, TypeOK, EntryInv
<1>2. Mem0 = Copied(Mem0, Shift, {})
  BY CopiedNothing
<1>. QED
  BY <1>1, <1>2 DEF IInv, EntryInv, dstin

\* The branches that copy a head and a tail of w bytes.
LEMMA HeadAndTailStep ==
    ASSUME IInv, pc = "entry", NEW w \in Nat, w <= count, count <= 2 * w,
           HeadAndTail(w)
    PROVE  IInv'
<1> DEFINE n == call.n
           R1 == Grown({}, call.d, w)
           R == Grown(R1, call.d + (n - w), w)
<1>1. /\ call \in Calls /\ mem = Mem0 /\ Mem0 = Copied(Mem0, Shift, {})
      /\ dstin = call.d /\ src = call.s
      /\ srcend = call.s + n /\ dstend = call.d + n /\ count = n
  BY EntryFacts
<1>2. call.d \in Nat /\ call.s \in Nat /\ n \in Nat
  BY <1>1, CallFacts
<1>3. call.s - call.d = Shift /\ (call.s + (n - w)) - (call.d + (n - w)) = Shift
  BY <1>1, <1>2 DEF Shift
<1>4. /\ Block(Mem0, <<call.d, call.s, w>>) = Copied(Mem0, Shift, R1)
      /\ Block(Copied(Mem0, Shift, R1),
               <<call.d + (n - w), call.s + (n - w), w>>) = Copied(Mem0, Shift, R)
  <2>1. call.d + (n - w) \in Int /\ call.s + (n - w) \in Int
    BY <1>2
  <2>. QED
    BY <1>1, <1>2, <1>3, <2>1, BlockExtends
<1>5. dstend - w = call.d + (n - w) /\ srcend - w = call.s + (n - w)
  BY <1>1, <1>2
<1>6. mem' = Copied(Mem0, Shift, R)
  BY <1>1, <1>4, <1>5 DEF HeadAndTail, Finish
<1>7. R = Span(dstin, n)
  BY <1>1, <1>2 DEF Grown, Span
<1>8. /\ rd' = Span(call.s, w) \cup Span(call.s + (n - w), w)
      /\ wr' = Span(call.d, w) \cup Span(call.d + (n - w), w)
  BY <1>1, <1>5 DEF HeadAndTail, Finish
<1>9. rd' \subseteq Span(call.s, n) /\ wr' \subseteq Span(call.d, n)
  BY <1>1, <1>2, <1>8 DEF Span
<1>. QED
  BY <1>6, <1>7, <1>9, ReturnStep DEF HeadAndTail, Finish

\* A block of a medium copy extends the copy like any other.
LEMMA MediumExtends ==
    ASSUME IInv, pc = "entry", NEW i \in Nat, NEW R
    PROVE  /\ Block(Copied(Mem0, Shift, R), FromStart(i))
                = Copied(Mem0, Shift, Grown(R, dstin + i, 16))
           /\ Block(Copied(Mem0, Shift, R), FromEnd(i))
                = Copied(Mem0, Shift, Grown(R, dstend - i, 16))
<1>1. /\ call \in Calls /\ mem = Mem0 /\ dstin = call.d /\ src = call.s
      /\ srcend = call.s + call.n /\ dstend = call.d + call.n /\ count = call.n
  BY EntryFacts
<1>2. call.d \in Nat /\ call.s \in Nat /\ call.n \in Nat
  BY <1>1, CallFacts
<1>3. /\ dstin + i \in Int /\ src + i \in Int /\ (src + i) - (dstin + i) = Shift
      /\ dstend - i \in Int /\ srcend - i \in Int
      /\ (srcend - i) - (dstend - i) = Shift
  BY <1>1, <1>2 DEF Shift
<1>4. Block(Copied(Mem0, Shift, R), <<dstin + i, src + i, 16>>)
        = Copied(Mem0, Shift, Grown(R, dstin + i, 16))
  BY <1>1, <1>3, BlockExtends
<1>5. Block(Copied(Mem0, Shift, R), <<dstend - i, srcend - i, 16>>)
        = Copied(Mem0, Shift, Grown(R, dstend - i, 16))
  BY <1>1, <1>3, BlockExtends
<1>. QED
  BY <1>4, <1>5 DEF FromStart, FromEnd

\* A block of a medium copy lies in the buffers.
LEMMA MediumFootprint ==
    ASSUME IInv, pc = "entry", NEW i \in Nat
    PROVE  /\ i + 16 <= count =>
                /\ Span(FromStart(i)[2], FromStart(i)[3]) \subseteq Span(call.s, call.n)
                /\ Span(FromStart(i)[1], FromStart(i)[3]) \subseteq Span(call.d, call.n)
           /\ 16 <= i /\ i <= count =>
                /\ Span(FromEnd(i)[2], FromEnd(i)[3]) \subseteq Span(call.s, call.n)
                /\ Span(FromEnd(i)[1], FromEnd(i)[3]) \subseteq Span(call.d, call.n)
<1>1. /\ call \in Calls /\ dstin = call.d /\ src = call.s
      /\ srcend = call.s + call.n /\ dstend = call.d + call.n /\ count = call.n
  BY EntryFacts
<1>2. call.d \in Nat /\ call.s \in Nat /\ call.n \in Nat
  BY <1>1, CallFacts
<1>. QED
  BY <1>1, <1>2 DEF FromStart, FromEnd, Span

\* Copies of 33 .. 64 bytes.
LEMMA Copy33to64Step == ASSUME IInv, Copy33to64 PROVE IInv'
<1> DEFINE n == call.n
           R1 == Grown({}, dstin + 0, 16)
           R2 == Grown(R1, dstin + 16, 16)
           R3 == Grown(R2, dstend - 32, 16)
           R4 == Grown(R3, dstend - 16, 16)
<1>1. /\ pc = "entry" /\ 32 < count /\ count <= 64
      /\ call \in Calls /\ mem = Mem0 /\ Mem0 = Copied(Mem0, Shift, {})
      /\ dstin = call.d /\ dstend = call.d + n /\ count = n
  BY EntryFacts DEF Copy33to64
<1>2. call.d \in Nat /\ call.s \in Nat /\ n \in Nat
  BY <1>1, CallFacts
<1>3. Block(Mem0, FromStart(0)) = Copied(Mem0, Shift, R1)
  BY <1>1, <1>2, MediumExtends
<1>4. Block(Copied(Mem0, Shift, R1), FromStart(16)) = Copied(Mem0, Shift, R2)
  BY <1>1, <1>2, MediumExtends
<1>5. Block(Copied(Mem0, Shift, R2), FromEnd(32)) = Copied(Mem0, Shift, R3)
  BY <1>1, <1>2, MediumExtends
<1>6. Block(Copied(Mem0, Shift, R3), FromEnd(16)) = Copied(Mem0, Shift, R4)
  BY <1>1, <1>2, MediumExtends
<1>7. mem' = Copied(Mem0, Shift, R4)
  BY <1>1, <1>3, <1>4, <1>5, <1>6 DEF Copy33to64, Finish
<1>8. R4 = Span(dstin, n)
  BY <1>1, <1>2 DEF Grown, Span
<1>9. \A b \in {FromStart(0), FromStart(16), FromEnd(32), FromEnd(16)} :
         /\ Span(b[2], b[3]) \subseteq Span(call.s, n)
         /\ Span(b[1], b[3]) \subseteq Span(call.d, n)
  BY <1>1, <1>2, MediumFootprint
<1>10. rd' \subseteq Span(call.s, n) /\ wr' \subseteq Span(call.d, n)
  BY <1>9 DEF Copy33to64, Finish
<1>. QED
  BY <1>7, <1>8, <1>10, ReturnStep DEF Copy33to64, Finish

\* Copies of 65 .. 128 bytes: L(copy96) completes what it is given.
LEMMA Copy96Step ==
    ASSUME IInv, pc = "entry", 64 < count, count <= 128, NEW R0, NEW more,
           Copy96(Copied(Mem0, Shift, R0), more),
           R0 \subseteq Span(dstin, call.n),
           count <= 96 \/ Span(dstend - 64, 32) \subseteq R0,
           \A b \in more : /\ Span(b[2], b[3]) \subseteq Span(call.s, call.n)
                           /\ Span(b[1], b[3]) \subseteq Span(call.d, call.n)
    PROVE  IInv'
<1> DEFINE n == call.n
           R1 == Grown(R0, dstin + 0, 16)
           R2 == Grown(R1, dstin + 16, 16)
           R3 == Grown(R2, dstin + 32, 16)
           R4 == Grown(R3, dstin + 48, 16)
           R5 == Grown(R4, dstend - 32, 16)
           R6 == Grown(R5, dstend - 16, 16)
           blocks == more \cup {FromStart(0), FromStart(16), FromStart(32),
                                FromStart(48), FromEnd(32), FromEnd(16)}
<1>1. /\ call \in Calls /\ dstin = call.d /\ dstend = call.d + n /\ count = n
  BY EntryFacts
<1>2. call.d \in Nat /\ call.s \in Nat /\ n \in Nat
  BY <1>1, CallFacts
<1>3. /\ Block(Copied(Mem0, Shift, R0), FromStart(0)) = Copied(Mem0, Shift, R1)
      /\ Block(Copied(Mem0, Shift, R1), FromStart(16)) = Copied(Mem0, Shift, R2)
      /\ Block(Copied(Mem0, Shift, R2), FromStart(32)) = Copied(Mem0, Shift, R3)
      /\ Block(Copied(Mem0, Shift, R3), FromStart(48)) = Copied(Mem0, Shift, R4)
      /\ Block(Copied(Mem0, Shift, R4), FromEnd(32)) = Copied(Mem0, Shift, R5)
      /\ Block(Copied(Mem0, Shift, R5), FromEnd(16)) = Copied(Mem0, Shift, R6)
  BY MediumExtends
<1>4. mem' = Copied(Mem0, Shift, R6)
  BY <1>3 DEF Copy96, Finish
<1>5. R6 = Span(dstin, n)
  BY <1>1, <1>2 DEF Grown, Span
<1>6. \A b \in blocks : /\ Span(b[2], b[3]) \subseteq Span(call.s, n)
                        /\ Span(b[1], b[3]) \subseteq Span(call.d, n)
  BY <1>1, <1>2, MediumFootprint
<1>7. rd' \subseteq Span(call.s, n) /\ wr' \subseteq Span(call.d, n)
  BY <1>6 DEF Copy96, Finish
<1>. QED
  BY <1>4, <1>5, <1>7, ReturnStep DEF Copy96, Finish

LEMMA Copy65to96Step == ASSUME IInv, Copy65to96 PROVE IInv'
<1>1. pc = "entry" /\ 64 < count /\ count <= 96 /\ Copy96(mem, {})
  BY DEF Copy65to96
<1>2. mem = Copied(Mem0, Shift, {}) /\ count = call.n /\ call.n \in Nat
  BY <1>1, EntryFacts, CallFacts
<1>3. Copy96(Copied(Mem0, Shift, {}), {})
  BY <1>1, <1>2
<1>. QED
  BY <1>1, <1>2, <1>3, Copy96Step

LEMMA Copy97to128Step == ASSUME IInv, Copy97to128 PROVE IInv'
<1> DEFINE R1 == Grown({}, dstend - 64, 16)
           R2 == Grown(R1, dstend - 48, 16)
           more == {FromEnd(64), FromEnd(48)}
<1>1. /\ pc = "entry" /\ 96 < count /\ count <= 128
      /\ Copy96(Block(Block(mem, FromEnd(64)), FromEnd(48)), more)
  BY DEF Copy97to128
<1>2. /\ call \in Calls /\ mem = Copied(Mem0, Shift, {})
      /\ dstin = call.d /\ dstend = call.d + call.n /\ count = call.n
  BY <1>1, EntryFacts
<1>3. call.d \in Nat /\ call.n \in Nat
  BY <1>2, CallFacts
<1>4. /\ Block(Copied(Mem0, Shift, {}), FromEnd(64)) = Copied(Mem0, Shift, R1)
      /\ Block(Copied(Mem0, Shift, R1), FromEnd(48)) = Copied(Mem0, Shift, R2)
  BY <1>1, MediumExtends
<1>5. Copy96(Copied(Mem0, Shift, R2), more)
  BY <1>1, <1>2, <1>4
<1>6. /\ R2 \subseteq Span(dstin, call.n)
      /\ Span(dstend - 64, 32) \subseteq R2
  BY <1>1, <1>2, <1>3 DEF Grown, Span
<1>7. \A b \in more : /\ Span(b[2], b[3]) \subseteq Span(call.s, call.n)
                      /\ Span(b[1], b[3]) \subseteq Span(call.d, call.n)
  BY <1>1, <1>2, <1>3, MediumFootprint
<1>8. 64 < count /\ count <= 128
  BY <1>1, <1>2, <1>3
<1>. QED
  BY <1>1, <1>5, <1>6, <1>7, <1>8, Copy96Step

\* Copies of 1 .. 3 bytes: the middle byte is the first one or the last one
\* again when there are fewer than three.
LEMMA Copy1to3Step == ASSUME IInv, Copy1to3 PROVE IInv'
<1> DEFINE n == call.n
           half == Half(count)
           R1 == Grown({}, dstin, 1)
           R2 == Grown(R1, dstin + half, 1)
           R3 == Grown(R2, dstend - 1, 1)
           b1 == <<dstin, src, 1>>
           b2 == <<dstin + half, src + half, 1>>
           b3 == <<dstend - 1, srcend - 1, 1>>
<1>1. /\ pc = "entry" /\ count # 0 /\ count < 16 /\ ~Bit(3) /\ ~Bit(2)
      /\ Finish(Block(Block(Block(mem, b1), b2), b3), {b1, b2, b3})
  BY DEF Copy1to3
<1>2. /\ call \in Calls /\ mem = Mem0 /\ mem = Copied(Mem0, Shift, {})
      /\ dstin = call.d /\ src = call.s
      /\ dstend = call.d + n /\ srcend = call.s + n /\ count = n
  BY <1>1, EntryFacts
<1>3. call.d \in Nat /\ call.s \in Nat /\ n \in Nat
  BY <1>2, CallFacts
<1>4. n \in {1, 2, 3}
  <2>1. n \in 1 .. 15
    BY <1>1, <1>2, <1>3
  <2>2. (n \div 8) % 2 # 1 /\ (n \div 4) % 2 # 1
    <3>1. 2 ^ 3 = 8 /\ 2 ^ 2 = 4
      OBVIOUS
    <3>. QED
      BY <1>1, <1>2, <3>1 DEF Bit
  <2>. QED
    BY <2>1, <2>2
<1>5. half \in 0 .. (n - 1) /\ (n = 3 => half = 1)
  BY <1>2, <1>4 DEF Half
<1>6. /\ dstin + half \in Int /\ src + half \in Int
      /\ dstend - 1 \in Int /\ srcend - 1 \in Int
      /\ src - dstin = Shift /\ (src + half) - (dstin + half) = Shift
      /\ (srcend - 1) - (dstend - 1) = Shift
  BY <1>2, <1>3, <1>5 DEF Shift
<1>7. /\ Block(Copied(Mem0, Shift, {}), b1) = Copied(Mem0, Shift, R1)
      /\ Block(Copied(Mem0, Shift, R1), b2) = Copied(Mem0, Shift, R2)
      /\ Block(Copied(Mem0, Shift, R2), b3) = Copied(Mem0, Shift, R3)
  BY <1>2, <1>3, <1>6, BlockExtends
<1>8. mem' = Copied(Mem0, Shift, R3)
  BY <1>1, <1>2, <1>7 DEF Finish
<1>9. R3 = Span(dstin, n)
  BY <1>2, <1>3, <1>4, <1>5 DEF Grown, Span
<1>10. \A b \in {b1, b2, b3} : /\ Span(b[2], b[3]) \subseteq Span(call.s, n)
                               /\ Span(b[1], b[3]) \subseteq Span(call.d, n)
  BY <1>2, <1>3, <1>4, <1>5 DEF Span
<1>11. rd' \subseteq Span(call.s, n) /\ wr' \subseteq Span(call.d, n)
  BY <1>1, <1>10 DEF Finish
<1>. QED
  BY <1>1, <1>8, <1>9, <1>11, ReturnStep DEF Finish

\* Copies of 4 .. 32 bytes: the bits of count that are tested bound it.
LEMMA Copy4to7Step == ASSUME IInv, Copy4to7 PROVE IInv'
<1>1. /\ pc = "entry" /\ count < 16 /\ ~Bit(3) /\ Bit(2) /\ HeadAndTail(4)
      /\ count \in Nat
  BY EntryFacts, CallFacts DEF Copy4to7
<1>2. 4 <= count /\ count <= 2 * 4
  <2>1. 2 ^ 3 = 8 /\ 2 ^ 2 = 4
    OBVIOUS
  <2>2. (count \div 8) % 2 # 1 /\ (count \div 4) % 2 = 1
    BY <1>1, <2>1 DEF Bit
  <2>. QED
    BY <1>1, <2>2
<1>. QED
  BY <1>1, <1>2, HeadAndTailStep

LEMMA Copy8to15Step == ASSUME IInv, Copy8to15 PROVE IInv'
<1>1. /\ pc = "entry" /\ count < 16 /\ Bit(3) /\ HeadAndTail(8)
      /\ count \in Nat
  BY EntryFacts, CallFacts DEF Copy8to15
<1>2. 8 <= count /\ count <= 2 * 8
  <2>1. 2 ^ 3 = 8
    OBVIOUS
  <2>2. (count \div 8) % 2 = 1
    BY <1>1, <2>1 DEF Bit
  <2>. QED
    BY <1>1, <2>2
<1>. QED
  BY <1>1, <1>2, HeadAndTailStep

LEMMA Copy16to32Step == ASSUME IInv, Copy16to32 PROVE IInv'
<1>1. pc = "entry" /\ 16 <= count /\ count <= 2 * 16 /\ HeadAndTail(16)
  BY DEF Copy16to32
<1>. QED
  BY <1>1, HeadAndTailStep

\* Nothing to copy.
LEMMA Copy0Step == ASSUME IInv, Copy0 PROVE IInv'
<1>1. pc = "entry" /\ count = 0 /\ Finish(mem, {})
  BY DEF Copy0
<1>2. /\ call \in Calls /\ mem = Copied(Mem0, Shift, {}) /\ dstin = call.d
      /\ call.n = 0
  BY <1>1, EntryFacts
<1>3. Span(dstin, call.n) = {}
  BY <1>2, CallFacts DEF Span
<1>4. mem' = Copied(Mem0, Shift, Span(dstin, call.n))
  BY <1>1, <1>2, <1>3 DEF Finish
<1>5. rd' = {} /\ wr' = {}
  BY <1>1 DEF Finish
<1>. QED
  BY <1>1, <1>4, <1>5, ReturnStep DEF Finish

\* The distance the large copies compare with count: dstin - src, to which
\* the address space is added when it is negative.
LEMMA DistanceFacts ==
    ASSUME call \in Calls, dstin = call.d, src = call.s, AddrSpace > 0
    PROVE  /\ Distance \in Nat
           /\ dstin >= src => Distance = dstin - src
           /\ dstin < src => Distance = dstin - src + AddrSpace
<1>1. /\ call.d \in Addr /\ call.s \in Addr
  BY DEF ValidCall
<1>2. /\ call.d \in 0 .. (AddrSpace - 1) /\ call.s \in 0 .. (AddrSpace - 1)
  BY <1>1 DEF Addr
<1>3. ASSUME NEW a \in Nat, a > 0, NEW x \in Int, 0 <= x, x < a
      PROVE  x % a = x
  BY <1>3
<1>4. ASSUME NEW a \in Nat, a > 0, NEW x \in Int, -a < x, x < 0
      PROVE  x % a = x + a
  BY <1>4
<1>. QED
  BY <1>2, <1>3, <1>4 DEF Distance

LEMMA CopyLongInPlaceStep == ASSUME IInv, CopyLongInPlace PROVE IInv'
<1>1. pc = "entry" /\ count > 128 /\ Distance = 0 /\ Finish(mem, {})
  BY DEF CopyLongInPlace
<1>2. /\ call \in Calls /\ mem = Mem0 /\ dstin = call.d /\ src = call.s
      /\ call.n > 128
  BY <1>1, EntryFacts
<1>3. /\ call.d \in Nat /\ call.s \in Nat /\ call.n \in Nat /\ AddrSpace > 0
      /\ call.d < AddrSpace /\ call.s < AddrSpace /\ DOMAIN Mem0 \subseteq Int
  BY <1>2, CallFacts
<1>4. call.s = call.d
  BY <1>1, <1>2, <1>3, DistanceFacts
<1>5. Shift = 0
  BY <1>2, <1>3, <1>4 DEF Shift
<1>6. Copied(Mem0, 0, Span(dstin, call.n)) = Mem0
  BY <1>3 DEF Copied
<1>7. mem' = Copied(Mem0, Shift, Span(dstin, call.n))
  BY <1>1, <1>2, <1>5, <1>6 DEF Finish
<1>8. rd' = {} /\ wr' = {}
  BY <1>1 DEF Finish
<1>. QED
  BY <1>1, <1>7, <1>8, ReturnStep DEF Finish

\* What an action has to establish to go on with a copy in either direction.
LEMMA LoopInvStep ==
    ASSUME IInv, UNCHANGED call, Footprint',
           \/ pc' \in {"loop64", "copy64_from_end"} /\ ForwardInv'
           \/ pc' \in {"loop64_backwards", "copy64_from_start"} /\ BackwardInv'
    PROVE  IInv'
<1>1. call \in Calls /\ DOMAIN Mem0 = Addr
  BY CallFacts DEF IInv, TypeOK
<1>2. \E R : mem' = Copied(Mem0, (call.s - dstin)', R)
  BY DEF ForwardInv, BackwardInv
<1>3. DOMAIN mem' = Addr
  BY <1>1, <1>2, CopiedDomain
<1>4. \E a : Pending(a, A', B', C', D') \/ Pending(a, D', C', B', A')
  BY DEF ForwardInv, BackwardInv
<1>5. \A q \in {A', B', C', D'} : DOMAIN q = 0 .. 15
  BY <1>4 DEF Pending, Ld, Load
<1>6. TypeOK'
  BY <1>1, <1>3, <1>5 DEF TypeOK, ForwardInv, BackwardInv
<1>. QED
  BY <1>6 DEF IInv, EntryInv, ForwardInv, BackwardInv, MovedAtRet

\* The 16 bytes stored before a large copy aligns, wherever they go.
LEMMA FirstStore ==
    ASSUME call \in Calls, NEW q \in Int, NEW p \in Int, p - q = Shift
    PROVE  St(Mem0, q, Ld(Mem0, p)) = Copied(Mem0, Shift, Span(q, 16))
<1>1. Shift \in Int /\ DOMAIN Mem0 \subseteq Int
  BY CallFacts
<1>2. Store(Copied(Mem0, Shift, {}), q, 16, Load(Mem0, p, 16))
        = Copied(Mem0, Shift, Grown({}, q, 16))
  BY <1>1, StoreExtends
<1>3. Copied(Mem0, Shift, {}) = Mem0
  BY CopiedNothing
<1>4. Grown({}, q, 16) = Span(q, 16)
  BY DEF Grown
<1>. QED
  BY <1>2, <1>3, <1>4 DEF St, Ld

\* A load of source bytes that the copy has not reached.
LEMMA LoadsOriginal ==
    ASSUME call \in Calls, NEW R, NEW p \in Int,
           call.s <= p, p + 16 <= call.s + call.n,
           Span(p, 16) \cap R = {}
    PROVE  Ld(Copied(Mem0, Shift, R), p) = Ld(Mem0, p)
<1>1. /\ call.s \in Nat /\ call.n \in Nat /\ AddrSpace \in Nat
      /\ call.s + call.n <= AddrSpace /\ DOMAIN Mem0 = Addr
  BY CallFacts
<1>2. Span(p, 16) \subseteq DOMAIN Mem0
  BY <1>1 DEF Span, Addr
<1>. QED
  BY <1>2, LoadIntact DEF Ld

\* A forward copy that has stored only below e finds the source at and above
\* the matching address as it was.
LEMMA ForwardLoad ==
    ASSUME call \in Calls, NEW R, NEW e \in Int, NEW p \in Int,
           call.d < call.s \/ call.s + call.n <= call.d,
           R \subseteq call.d .. (e - 1), p - e >= Shift,
           call.s <= p, p + 16 <= call.s + call.n
    PROVE  Ld(Copied(Mem0, Shift, R), p) = Ld(Mem0, p)
<1>1. call.d \in Nat /\ call.s \in Nat /\ call.n \in Nat /\ Shift = call.s - call.d
  BY CallFacts DEF Shift
<1>2. Span(p, 16) \cap R = {}
  BY <1>1 DEF Span
<1>. QED
  BY <1>2, LoadsOriginal

\* A store of 16 original bytes at the matching place extends the copy.
LEMMA ChunkExtends ==
    ASSUME call \in Calls, NEW R, NEW q \in Int, NEW p \in Int, p - q = Shift
    PROVE  St(Copied(Mem0, Shift, R), q, Ld(Mem0, p))
              = Copied(Mem0, Shift, Grown(R, q, 16))
<1>1. Shift \in Int /\ DOMAIN Mem0 \subseteq Int
  BY CallFacts
<1>. QED
  BY <1>1, StoreExtends DEF St, Ld

\* The start of a large copy that goes forward.
LEMMA CopyLongStep == ASSUME IInv, CopyLong PROVE IInv'
<1> DEFINE n == call.n
           tmp1 == Misaligned(dstin)
           s == src - tmp1
           m1 == St(mem, dstin, Ld(mem, src))
<1>1. /\ pc = "entry" /\ count > 128 /\ Distance # 0 /\ Distance >= count
      /\ call' = call /\ srcend' = srcend /\ dstend' = dstend
  BY DEF CopyLong
<1>2. /\ A' = Ld(mem, s + 16) /\ B' = Ld(m1, s + 32)
      /\ C' = Ld(m1, s + 48) /\ D' = Ld(m1, s + 64)
      /\ mem' = m1
  BY DEF CopyLong
<1>3. /\ src' = s + 64 /\ dst' = dstin - tmp1
      /\ count' = count - ForwardTail(tmp1)
      /\ pc' = IF count > ForwardTail(tmp1) THEN "loop64" ELSE "copy64_from_end"
  BY DEF CopyLong
<1>4. /\ rd' = Span(src, 16) \cup Span(s + 16, 64)
      /\ wr' = Span(dstin, 16)
  BY DEF CopyLong
<1>5. /\ call \in Calls /\ mem = Mem0 /\ dstin = call.d /\ src = call.s
      /\ srcend = call.s + n /\ dstend = call.d + n /\ count = n
  BY <1>1, EntryFacts
<1>6. /\ call.d \in Nat /\ call.s \in Nat /\ n \in Nat /\ AddrSpace \in Nat
      /\ call.d + n <= AddrSpace /\ call.s + n <= AddrSpace
  BY <1>5, CallFacts
<1>7. call.d < call.s \/ call.s + n <= call.d
  BY <1>1, <1>5, <1>6, DistanceFacts
<1>8. tmp1 \in Int /\ 0 <= tmp1 /\ tmp1 <= 15
  BY <1>5, <1>6 DEF Misaligned
<1>aligned. dst' % 16 = 0
  BY <1>3, <1>5, <1>6 DEF Misaligned
<1>9. s = call.s - tmp1 /\ ForwardTail(tmp1) = 144 - tmp1 /\ n > 128 /\ n \in Nat
  BY <1>1, <1>5, <1>6, <1>8 DEF ForwardTail
<1>10. m1 = Copied(Mem0, Shift, Span(dstin, 16))
  BY <1>5, <1>6, FirstStore DEF Shift
<1>11. dstin' = dstin
  BY <1>1 DEF dstin
<1> HIDE DEF tmp1, s, m1, n
<1>12. /\ Ld(m1, s + 32) = Ld(Mem0, s + 32)
       /\ Ld(m1, s + 48) = Ld(Mem0, s + 48)
       /\ Ld(m1, s + 64) = Ld(Mem0, s + 64)
  <2>1. ASSUME NEW i \in {32, 48, 64}
        PROVE  Ld(m1, s + i) = Ld(Mem0, s + i)
    <3>1. s + i \in Int /\ call.s <= s + i /\ (s + i) + 16 <= call.s + n
      BY <1>6, <1>8, <1>9, <2>1
    <3>2. Span(s + i, 16) \cap Span(dstin, 16) = {}
      BY <1>5, <1>6, <1>7, <1>8, <1>9, <2>1 DEF Span
    <3>. QED
      BY <1>5, <1>10, <3>1, <3>2, LoadsOriginal DEF n
  <2>. QED
    BY <2>1
<1>13. Pending(src' - 48, A', B', C', D')
  <2>1. /\ src' - 48 = s + 16 /\ src' - 48 + 16 = s + 32
        /\ src' - 48 + 32 = s + 48 /\ src' - 48 + 48 = s + 64
    BY <1>3, <1>6, <1>8, <1>9
  <2>. QED
    BY <1>2, <1>5, <1>12, <2>1 DEF Pending
<1>14. mem' = Copied(Mem0, (call.s - dstin)', StoredForward')
  <2>1. StoredForward' = Span(dstin, 16)
    BY <1>3, <1>5, <1>6, <1>8, <1>11 DEF StoredForward
  <2>. QED
    BY <1>1, <1>2, <1>10, <1>11, <2>1 DEF Shift
<1>15. /\ src' = call.s + (dst' - dstin) + 64
       /\ count' = n - (dst' - dstin) - 144
       /\ dst' + 16 > dstin /\ dst' <= dstin
       /\ IF pc' = "loop64" THEN count' > 0 ELSE -64 < count' /\ count' <= 0
       /\ pc' \in {"loop64", "copy64_from_end"}
  BY <1>3, <1>5, <1>6, <1>8, <1>9
<1>15a. dst' \in Int
  BY <1>3, <1>5, <1>6, <1>8
<1>16. ForwardInv'
  BY <1>1, <1>5, <1>7, <1>9, <1>11, <1>13, <1>14, <1>15, <1>15a, <1>aligned
     DEF ForwardInv, n
<1>17. Footprint'
  <2>1. /\ Span(src, 16) \subseteq Span(call.s, n)
        /\ Span(s + 16, 64) \subseteq Span(call.s, n)
        /\ Span(dstin, 16) \subseteq Span(call.d, n)
    BY <1>5, <1>6, <1>8, <1>9 DEF Span
  <2>. QED
    BY <1>1, <1>4, <2>1 DEF Footprint, n
<1>. QED
  BY <1>1, <1>15, <1>16, <1>17, LoopInvStep

\* What a forward copy has stored after each of the four stores from the
\* registers.
Fwd1 == Grown(StoredForward, dst + 16, 16)
Fwd2 == Grown(Fwd1, dst + 32, 16)
Fwd3 == Grown(Fwd2, dst + 48, 16)
Fwd4 == Grown(Fwd3, dst + 64, 16)

\* The state of a forward copy, in numbers.
LEMMA ForwardFacts ==
    ASSUME IInv, pc \in {"loop64", "copy64_from_end"}
    PROVE  /\ call \in Calls /\ dstin = call.d
           /\ call.d \in Nat /\ call.s \in Nat /\ call.n \in Nat
           /\ Shift = call.s - call.d
           /\ call.d < call.s \/ call.s + call.n <= call.d
           /\ srcend = call.s + call.n /\ dstend = call.d + call.n
           /\ dst \in Int /\ src = dst + Shift + 64
           /\ dst + 16 > call.d
           /\ count = call.n - (dst - call.d) - 144
           /\ -64 < count /\ call.n > 128
<1>1. call \in Calls /\ dstin = call.d
  BY DEF IInv, TypeOK, dstin
<1>2. /\ call.d \in Nat /\ call.s \in Nat /\ call.n \in Nat
      /\ Shift = call.s - call.d
  BY <1>1, CallFacts DEF Shift
<1>3. ForwardInv
  BY DEF IInv
<1>4. /\ call.d < call.s \/ call.s + call.n <= call.d
      /\ srcend = call.s + call.n /\ dstend = call.d + call.n
      /\ call.n > 128
      /\ dst \in Int /\ dst + 16 > call.d
      /\ src = call.s + (dst - call.d) + 64
      /\ count = call.n - (dst - call.d) - 144
      /\ IF pc = "loop64" THEN count > 0 ELSE -64 < count /\ count <= 0
  BY <1>1, <1>3 DEF ForwardInv
<1>. QED
  BY <1>1, <1>2, <1>4

\* The four stores from the registers each extend the copy.
LEMMA ForwardStores ==
    ASSUME IInv, pc \in {"loop64", "copy64_from_end"}
    PROVE  /\ St(mem, dst + 16, A) = Copied(Mem0, Shift, Fwd1)
           /\ St(Copied(Mem0, Shift, Fwd1), dst + 32, B) = Copied(Mem0, Shift, Fwd2)
           /\ St(Copied(Mem0, Shift, Fwd2), dst + 48, C) = Copied(Mem0, Shift, Fwd3)
           /\ St(Copied(Mem0, Shift, Fwd3), dst + 64, D) = Copied(Mem0, Shift, Fwd4)
<1>1. /\ call \in Calls /\ dst \in Int /\ Shift \in Int /\ src = dst + Shift + 64
      /\ call.d \in Nat /\ dstin = call.d
  BY ForwardFacts
<1>2. /\ mem = Copied(Mem0, Shift, StoredForward)
      /\ Pending(src - 48, A, B, C, D)
  BY DEF IInv, ForwardInv, Shift
<1> DEFINE p == src - 48
<1>3. /\ p \in Int /\ p - (dst + 16) = Shift /\ (p + 16) - (dst + 32) = Shift
      /\ (p + 32) - (dst + 48) = Shift /\ (p + 48) - (dst + 64) = Shift
  BY <1>1
<1>4. A = Ld(Mem0, p) /\ B = Ld(Mem0, p + 16) /\ C = Ld(Mem0, p + 32) /\ D = Ld(Mem0, p + 48)
  BY <1>2 DEF Pending
<1> HIDE DEF p
<1>5. /\ dst + 16 \in Int /\ dst + 32 \in Int /\ dst + 48 \in Int /\ dst + 64 \in Int
      /\ p + 16 \in Int /\ p + 32 \in Int /\ p + 48 \in Int
  BY <1>1, <1>3
<1>6. St(mem, dst + 16, A) = Copied(Mem0, Shift, Fwd1)
  BY <1>1, <1>2, <1>3, <1>4, <1>5, ChunkExtends DEF Fwd1
<1>7. St(Copied(Mem0, Shift, Fwd1), dst + 32, B) = Copied(Mem0, Shift, Fwd2)
  BY <1>1, <1>3, <1>4, <1>5, ChunkExtends DEF Fwd2
<1>8. St(Copied(Mem0, Shift, Fwd2), dst + 48, C) = Copied(Mem0, Shift, Fwd3)
  BY <1>1, <1>3, <1>4, <1>5, ChunkExtends DEF Fwd3
<1>9. St(Copied(Mem0, Shift, Fwd3), dst + 64, D) = Copied(Mem0, Shift, Fwd4)
  BY <1>1, <1>3, <1>4, <1>5, ChunkExtends DEF Fwd4
<1>. QED
  BY <1>6, <1>7, <1>8, <1>9

\* They do not reach the source bytes that are loaded between them: those of
\* an iteration, and those of the end.
LEMMA ForwardReach ==
    ASSUME IInv, pc \in {"loop64", "copy64_from_end"}
    PROVE  /\ Fwd1 \subseteq call.d .. ((dst + 32) - 1)
           /\ Fwd2 \subseteq call.d .. ((dst + 48) - 1)
           /\ Fwd3 \subseteq call.d .. ((dst + 64) - 1)
           /\ Fwd4 \subseteq call.d .. ((dst + 80) - 1)
           /\ Fwd4 = call.d .. (dst + 79)
<1>1. call.d \in Nat /\ dstin = call.d /\ dst \in Int /\ dst + 16 > call.d
  BY ForwardFacts
<1>2. \/ StoredForward = dstin .. (dst + 15)
      \/ StoredForward = Span(dstin, 16) /\ dst <= dstin
  BY DEF StoredForward
<1>3. Fwd1 = call.d .. (dst + 31)
  BY <1>1, <1>2 DEF Fwd1, Grown, Span
<1>4. Fwd2 = call.d .. (dst + 47)
  BY <1>1, <1>3 DEF Fwd2, Grown, Span
<1>5. Fwd3 = call.d .. (dst + 63)
  BY <1>1, <1>4 DEF Fwd3, Grown, Span
<1>6. Fwd4 = call.d .. (dst + 79)
  BY <1>1, <1>5 DEF Fwd4, Grown, Span
<1>. QED
  BY <1>1, <1>2, <1>3, <1>4, <1>5, <1>6

LEMMA Loop64Step == ASSUME IInv, Loop64 PROVE IInv'
<1> DEFINE m1 == St(mem, dst + 16, A)
           m2 == St(m1, dst + 32, B)
           m3 == St(m2, dst + 48, C)
           m4 == St(m3, dst + 64, D)
<1>1. pc = "loop64"
  BY DEF Loop64
<1>2. /\ A' = Ld(m1, src + 16) /\ B' = Ld(m2, src + 32)
      /\ C' = Ld(m3, src + 48) /\ D' = Ld(m4, src + 64)
      /\ mem' = m4
  BY DEF Loop64
<1>3. /\ src' = src + 64 /\ dst' = dst + 64 /\ count' = count - 64
      /\ rd' = Span(src + 16, 64) /\ wr' = Span(dst + 16, 64)
      /\ pc' = IF count > 64 THEN "loop64" ELSE "copy64_from_end"
      /\ call' = call /\ srcend' = srcend /\ dstend' = dstend /\ dstin' = dstin
  BY DEF Loop64, dstin
<1>4. /\ call \in Calls /\ dstin = call.d
      /\ call.d \in Nat /\ call.s \in Nat /\ call.n \in Nat
      /\ Shift = call.s - call.d
      /\ call.d < call.s \/ call.s + call.n <= call.d
      /\ srcend = call.s + call.n /\ dstend = call.d + call.n
      /\ dst \in Int /\ src = dst + Shift + 64
      /\ dst + 16 > call.d
      /\ count = call.n - (dst - call.d) - 144 /\ call.n > 128
  BY <1>1, ForwardFacts
<1>5. count > 0 /\ dst % 16 = 0
  BY <1>1 DEF IInv, ForwardInv
<1>6. /\ m1 = Copied(Mem0, Shift, Fwd1) /\ m2 = Copied(Mem0, Shift, Fwd2)
      /\ m3 = Copied(Mem0, Shift, Fwd3) /\ m4 = Copied(Mem0, Shift, Fwd4)
  BY <1>1, ForwardStores
<1>7. /\ Fwd1 \subseteq call.d .. ((dst + 32) - 1)
      /\ Fwd2 \subseteq call.d .. ((dst + 48) - 1)
      /\ Fwd3 \subseteq call.d .. ((dst + 64) - 1)
      /\ Fwd4 \subseteq call.d .. ((dst + 80) - 1)
  BY <1>1, ForwardReach
<1> HIDE DEF m1, m2, m3, m4
<1>8. /\ A' = Ld(Mem0, src + 16) /\ B' = Ld(Mem0, src + 32)
      /\ C' = Ld(Mem0, src + 48) /\ D' = Ld(Mem0, src + 64)
  <2>1. /\ src + 16 \in Int /\ (src + 16) - (dst + 32) >= Shift
        /\ src + 32 \in Int /\ (src + 32) - (dst + 48) >= Shift
        /\ src + 48 \in Int /\ (src + 48) - (dst + 64) >= Shift
        /\ src + 64 \in Int /\ (src + 64) - (dst + 80) >= Shift
        /\ dst + 32 \in Int /\ dst + 48 \in Int /\ dst + 64 \in Int /\ dst + 80 \in Int
        /\ call.s <= src + 16 /\ (src + 16) + 16 <= call.s + call.n
        /\ call.s <= src + 32 /\ (src + 32) + 16 <= call.s + call.n
        /\ call.s <= src + 48 /\ (src + 48) + 16 <= call.s + call.n
        /\ call.s <= src + 64 /\ (src + 64) + 16 <= call.s + call.n
    BY <1>4, <1>5
  <2>2. Ld(m1, src + 16) = Ld(Mem0, src + 16)
    BY <1>4, <1>6, <1>7, <2>1, ForwardLoad
  <2>3. Ld(m2, src + 32) = Ld(Mem0, src + 32)
    BY <1>4, <1>6, <1>7, <2>1, ForwardLoad
  <2>4. Ld(m3, src + 48) = Ld(Mem0, src + 48)
    BY <1>4, <1>6, <1>7, <2>1, ForwardLoad
  <2>5. Ld(m4, src + 64) = Ld(Mem0, src + 64)
    BY <1>4, <1>6, <1>7, <2>1, ForwardLoad
  <2>. QED
    BY <1>2, <2>2, <2>3, <2>4, <2>5
<1>9. Pending(src' - 48, A', B', C', D')
  <2>1. /\ src' - 48 = src + 16 /\ src' - 48 + 16 = src + 32
        /\ src' - 48 + 32 = src + 48 /\ src' - 48 + 48 = src + 64
    BY <1>3, <1>4
  <2>. QED
    BY <1>8, <2>1 DEF Pending
<1>10. mem' = Copied(Mem0, (call.s - dstin)', StoredForward')
  <2>1. StoredForward' = call.d .. (dst + 79)
    BY <1>3, <1>4 DEF StoredForward
  <2>2. Fwd4 = call.d .. (dst + 79)
    BY <1>1, ForwardReach
  <2>. QED
    BY <1>2, <1>3, <1>4, <1>6, <2>1, <2>2
<1>11. /\ dst' \in Int /\ src' = call.s + (dst' - dstin) + 64
       /\ count' = call.n - (dst' - dstin) - 144
       /\ dst' + 16 > dstin /\ dst' >= dstin + 49
       /\ IF pc' = "loop64" THEN count' > 0 ELSE -64 < count' /\ count' <= 0
       /\ pc' \in {"loop64", "copy64_from_end"}
  BY <1>3, <1>4, <1>5
<1>12. dst' % 16 = 0
  BY <1>3, <1>4, <1>5
<1>13. ForwardInv'
  BY <1>3, <1>4, <1>9, <1>10, <1>11, <1>12 DEF ForwardInv
<1>14. Footprint'
  <2>1. /\ Span(src + 16, 64) \subseteq Span(call.s, call.n)
        /\ Span(dst + 16, 64) \subseteq Span(call.d, call.n)
    BY <1>4, <1>5 DEF Span
  <2>. QED
    BY <1>3, <2>1 DEF Footprint
<1>. QED
  BY <1>3, <1>11, <1>13, <1>14, LoopInvStep

LEMMA Copy64FromEndStep == ASSUME IInv, Copy64FromEnd PROVE IInv'
<1> DEFINE m1 == St(mem, dst + 16, A)
           m2 == St(m1, dst + 32, B)
           m3 == St(m2, dst + 48, C)
           m4 == St(m3, dst + 64, D)
           e == Ld(mem, srcend - 64)
           a == Ld(m1, srcend - 48)
           b == Ld(m2, srcend - 32)
           c == Ld(m3, srcend - 16)
           m5 == St(m4, dstend - 64, e)
           m6 == St(m5, dstend - 48, a)
           m7 == St(m6, dstend - 32, b)
           m8 == St(m7, dstend - 16, c)
           R5 == Grown(Fwd4, dstend - 64, 16)
           R6 == Grown(R5, dstend - 48, 16)
           R7 == Grown(R6, dstend - 32, 16)
           R8 == Grown(R7, dstend - 16, 16)
<1>1. pc = "copy64_from_end" /\ pc' = "ret" /\ UNCHANGED <<call, ptrs, pairs>>
  BY DEF Copy64FromEnd
<1>2. /\ mem' = m8
      /\ rd' = Span(srcend - 64, 64)
      /\ wr' = Span(dst + 16, 64) \cup Span(dstend - 64, 64)
  BY DEF Copy64FromEnd
<1>3. /\ call \in Calls /\ dstin = call.d
      /\ call.d \in Nat /\ call.s \in Nat /\ call.n \in Nat
      /\ Shift = call.s - call.d
      /\ call.d < call.s \/ call.s + call.n <= call.d
      /\ srcend = call.s + call.n /\ dstend = call.d + call.n
      /\ dst \in Int /\ dst + 16 > call.d
      /\ count = call.n - (dst - call.d) - 144 /\ call.n > 128 /\ -64 < count
  BY <1>1, ForwardFacts
<1>4. count <= 0
  BY <1>1 DEF IInv, ForwardInv
<1>5. mem = Copied(Mem0, Shift, StoredForward)
  BY <1>1 DEF IInv, ForwardInv, Shift
<1>6. /\ m1 = Copied(Mem0, Shift, Fwd1) /\ m2 = Copied(Mem0, Shift, Fwd2)
      /\ m3 = Copied(Mem0, Shift, Fwd3) /\ m4 = Copied(Mem0, Shift, Fwd4)
  BY <1>1, ForwardStores
<1>7. /\ Fwd1 \subseteq call.d .. ((dst + 32) - 1)
      /\ Fwd2 \subseteq call.d .. ((dst + 48) - 1)
      /\ Fwd3 \subseteq call.d .. ((dst + 64) - 1)
      /\ Fwd4 = call.d .. (dst + 79)
  BY <1>1, ForwardReach
<1> HIDE DEF m1, m2, m3, m4
<1>8. /\ e = Ld(Mem0, srcend - 64) /\ a = Ld(Mem0, srcend - 48)
      /\ b = Ld(Mem0, srcend - 32) /\ c = Ld(Mem0, srcend - 16)
  <2>1. /\ srcend - 64 \in Int /\ (srcend - 64) - (dst + 16) >= Shift
        /\ srcend - 48 \in Int /\ (srcend - 48) - (dst + 32) >= Shift
        /\ srcend - 32 \in Int /\ (srcend - 32) - (dst + 48) >= Shift
        /\ srcend - 16 \in Int /\ (srcend - 16) - (dst + 64) >= Shift
        /\ dst + 16 \in Int /\ dst + 32 \in Int /\ dst + 48 \in Int /\ dst + 64 \in Int
        /\ call.s <= srcend - 64 /\ (srcend - 64) + 16 <= call.s + call.n
        /\ call.s <= srcend - 48 /\ (srcend - 48) + 16 <= call.s + call.n
        /\ call.s <= srcend - 32 /\ (srcend - 32) + 16 <= call.s + call.n
        /\ call.s <= srcend - 16 /\ (srcend - 16) + 16 <= call.s + call.n
    BY <1>3
  <2>2. e = Ld(Mem0, srcend - 64)
    <3>1. Span(srcend - 64, 16) \cap StoredForward = {}
      BY <1>3, <2>1 DEF StoredForward, Span
    <3>. QED
      BY <1>3, <1>5, <2>1, <3>1, LoadsOriginal
  <2>3. a = Ld(Mem0, srcend - 48)
    BY <1>3, <1>6, <1>7, <2>1, ForwardLoad
  <2>4. b = Ld(Mem0, srcend - 32)
    BY <1>3, <1>6, <1>7, <2>1, ForwardLoad
  <2>5. c = Ld(Mem0, srcend - 16)
    BY <1>3, <1>6, <1>7, <2>1, ForwardLoad
  <2>. QED
    BY <2>2, <2>3, <2>4, <2>5
<1> HIDE DEF e, a, b, c
<1>9. m8 = Copied(Mem0, Shift, R8)
  <2>1. /\ dstend - 64 \in Int /\ srcend - 64 \in Int /\ (srcend - 64) - (dstend - 64) = Shift
        /\ dstend - 48 \in Int /\ srcend - 48 \in Int /\ (srcend - 48) - (dstend - 48) = Shift
        /\ dstend - 32 \in Int /\ srcend - 32 \in Int /\ (srcend - 32) - (dstend - 32) = Shift
        /\ dstend - 16 \in Int /\ srcend - 16 \in Int /\ (srcend - 16) - (dstend - 16) = Shift
    BY <1>3
  <2>2. m5 = Copied(Mem0, Shift, R5)
    BY <1>3, <1>6, <1>8, <2>1, ChunkExtends
  <2>3. m6 = Copied(Mem0, Shift, R6)
    <3> HIDE DEF m5, R5
    <3>. QED
      BY <1>3, <1>8, <2>1, <2>2, ChunkExtends
  <2>4. m7 = Copied(Mem0, Shift, R7)
    <3> HIDE DEF m6, R6
    <3>. QED
      BY <1>3, <1>8, <2>1, <2>3, ChunkExtends
  <2>5. m8 = Copied(Mem0, Shift, R8)
    <3> HIDE DEF m7, R7
    <3>. QED
      BY <1>3, <1>8, <2>1, <2>4, ChunkExtends
  <2>. QED
    BY <2>5
<1>10. R8 = Span(dstin, call.n)
  <2>1. R8 = Grown(Fwd4, dstend - 64, 64)
    BY <1>3 DEF Grown, Span
  <2> HIDE DEF R8
  <2>2. /\ dst \in Int /\ dstend \in Int /\ call.d \in Int
        /\ call.d <= dstend - 64 /\ dstend - 64 <= dst + 80
        /\ dst + 80 <= dstend
    BY <1>3, <1>4
  <2>3. Fwd4 = call.d .. (dst + 79)
    BY <1>7
  <2>4. R8 = call.d .. (dstend - 1)
    BY <2>1, <2>2, <2>3 DEF Grown, Span
  <2>. QED
    BY <1>3, <2>4 DEF Span
<1>11. mem' = Copied(Mem0, Shift, Span(dstin, call.n))
  BY <1>2, <1>9, <1>10
<1>12. rd' \subseteq Span(call.s, call.n) /\ wr' \subseteq Span(call.d, call.n)
  <2>1. /\ Span(srcend - 64, 64) \subseteq Span(call.s, call.n)
        /\ Span(dst + 16, 64) \subseteq Span(call.d, call.n)
        /\ Span(dstend - 64, 64) \subseteq Span(call.d, call.n)
    BY <1>3 DEF Span
  <2>. QED
    BY <1>2, <2>1
<1>. QED
  BY <1>1, <1>11, <1>12, ReturnStep

\* The mirror image: a backward copy that has stored only at and above e finds
\* the source below the matching address as it was.
LEMMA BackwardLoad ==
    ASSUME call \in Calls, NEW R, NEW e \in Int, NEW p \in Int,
           call.s < call.d,
           R \subseteq e .. (call.d + call.n - 1), (p + 16) - e <= Shift,
           call.s <= p, p + 16 <= call.s + call.n
    PROVE  Ld(Copied(Mem0, Shift, R), p) = Ld(Mem0, p)
<1>1. call.d \in Nat /\ call.s \in Nat /\ call.n \in Nat /\ Shift = call.s - call.d
  BY CallFacts DEF Shift
<1>2. Span(p, 16) \cap R = {}
  BY <1>1 DEF Span
<1>. QED
  BY <1>2, LoadsOriginal

\* The start of a large copy that goes backwards.
LEMMA CopyLongBackwardsStep == ASSUME IInv, CopyLongBackwards PROVE IInv'
<1> DEFINE n == call.n
           tmp1 == Misaligned(dstend)
           s == srcend - tmp1
           m1 == St(mem, dstend - 16, Ld(mem, srcend - 16))
<1>1. /\ pc = "entry" /\ count > 128 /\ Distance # 0 /\ Distance < count
      /\ call' = call /\ src' = src
  BY DEF CopyLongBackwards
<1>2. /\ A' = Ld(mem, s - 16) /\ B' = Ld(m1, s - 32)
      /\ C' = Ld(m1, s - 48) /\ D' = Ld(m1, s - 64)
      /\ mem' = m1
  BY DEF CopyLongBackwards
<1>3. /\ srcend' = s - 64 /\ dstend' = dstend - tmp1
      /\ count' = count - BackwardTail(tmp1)
      /\ pc' = IF count > BackwardTail(tmp1) THEN "loop64_backwards"
                                             ELSE "copy64_from_start"
  BY DEF CopyLongBackwards
<1>4. /\ rd' = Span(srcend - 16, 16) \cup Span(s - 64, 64)
      /\ wr' = Span(dstend - 16, 16)
  BY DEF CopyLongBackwards
<1>5. /\ call \in Calls /\ mem = Mem0 /\ dstin = call.d /\ src = call.s
      /\ srcend = call.s + n /\ dstend = call.d + n /\ count = n
  BY <1>1, EntryFacts
<1>6. /\ call.d \in Nat /\ call.s \in Nat /\ n \in Nat /\ AddrSpace \in Nat
      /\ call.d + n <= AddrSpace /\ call.s + n <= AddrSpace
  BY <1>5, CallFacts
<1>7. call.s < call.d /\ call.d < call.s + n
  BY <1>1, <1>5, <1>6, DistanceFacts
<1>8. tmp1 \in Int /\ 0 <= tmp1 /\ tmp1 <= 15
  BY <1>5, <1>6 DEF Misaligned
<1>aligned. dstend' % 16 = 0
  BY <1>3, <1>5, <1>6 DEF Misaligned
<1>9. /\ s = call.s + n - tmp1 /\ BackwardTail(tmp1) = 128 + tmp1 /\ n > 128 /\ n \in Nat
  BY <1>1, <1>5, <1>6, <1>8 DEF BackwardTail
<1>10. m1 = Copied(Mem0, Shift, Span(dstend - 16, 16))
  BY <1>5, <1>6, FirstStore DEF Shift
<1>11. dstin' = dstin
  BY <1>1 DEF dstin
<1> HIDE DEF tmp1, s, m1, n
<1>12. /\ Ld(m1, s - 32) = Ld(Mem0, s - 32)
       /\ Ld(m1, s - 48) = Ld(Mem0, s - 48)
       /\ Ld(m1, s - 64) = Ld(Mem0, s - 64)
  <2>1. ASSUME NEW i \in {32, 48, 64}
        PROVE  Ld(m1, s - i) = Ld(Mem0, s - i)
    <3>1. s - i \in Int /\ call.s <= s - i /\ (s - i) + 16 <= call.s + n
      BY <1>6, <1>8, <1>9, <2>1
    <3>2. Span(s - i, 16) \cap Span(dstend - 16, 16) = {}
      BY <1>5, <1>6, <1>7, <1>8, <1>9, <2>1 DEF Span
    <3>. QED
      BY <1>5, <1>10, <3>1, <3>2, LoadsOriginal DEF n
  <2>. QED
    BY <2>1
<1>13. Pending(srcend', D', C', B', A')
  <2>1. /\ srcend' = s - 64 /\ srcend' + 16 = s - 48
        /\ srcend' + 32 = s - 32 /\ srcend' + 48 = s - 16
    BY <1>3, <1>6, <1>8, <1>9
  <2>. QED
    BY <1>2, <1>5, <1>12, <2>1 DEF Pending
<1>14. mem' = Copied(Mem0, (call.s - dstin)', StoredBackward')
  <2>1. StoredBackward' = Span(dstend - 16, 16)
    BY <1>1, <1>3, <1>5, <1>6, <1>8, <1>11 DEF StoredBackward, n
  <2>. QED
    BY <1>1, <1>2, <1>10, <1>11, <2>1 DEF Shift
<1>15. /\ dstend' \in Int /\ srcend' = call.s + (dstend' - dstin) - 64
       /\ count' = (dstend' - dstin) - 128
       /\ dstend' <= dstin + n /\ dstend' + 16 > dstin + n
       /\ IF pc' = "loop64_backwards" THEN count' > 0 ELSE -64 < count' /\ count' <= 0
       /\ pc' \in {"loop64_backwards", "copy64_from_start"}
  BY <1>3, <1>5, <1>6, <1>8, <1>9
<1>16. BackwardInv'
  BY <1>1, <1>5, <1>7, <1>9, <1>11, <1>13, <1>14, <1>15, <1>aligned
     DEF BackwardInv, n
<1>17. Footprint'
  <2>1. /\ Span(srcend - 16, 16) \subseteq Span(call.s, n)
        /\ Span(s - 64, 64) \subseteq Span(call.s, n)
        /\ Span(dstend - 16, 16) \subseteq Span(call.d, n)
    BY <1>5, <1>6, <1>8, <1>9 DEF Span
  <2>. QED
    BY <1>1, <1>4, <2>1 DEF Footprint, n
<1>. QED
  BY <1>1, <1>15, <1>16, <1>17, LoopInvStep

\* What a backward copy has stored after each of the four stores.
Bwd1 == Grown(StoredBackward, dstend - 16, 16)
Bwd2 == Grown(Bwd1, dstend - 32, 16)
Bwd3 == Grown(Bwd2, dstend - 48, 16)
Bwd4 == Grown(Bwd3, dstend - 64, 16)

\* The state of a backward copy, in numbers.
LEMMA BackwardFacts ==
    ASSUME IInv, pc \in {"loop64_backwards", "copy64_from_start"}
    PROVE  /\ call \in Calls /\ dstin = call.d
           /\ call.d \in Nat /\ call.s \in Nat /\ call.n \in Nat
           /\ Shift = call.s - call.d
           /\ call.s < call.d /\ call.d < call.s + call.n
           /\ src = call.s
           /\ dstend \in Int /\ srcend = dstend + Shift - 64
           /\ dstend <= call.d + call.n
           /\ count = (dstend - call.d) - 128
           /\ -64 < count /\ call.n > 128
<1>1. call \in Calls /\ dstin = call.d
  BY DEF IInv, TypeOK, dstin
<1>2. /\ call.d \in Nat /\ call.s \in Nat /\ call.n \in Nat
      /\ Shift = call.s - call.d
  BY <1>1, CallFacts DEF Shift
<1>3. BackwardInv
  BY DEF IInv
<1>4. /\ call.s < call.d /\ call.d < call.s + call.n
      /\ src = call.s /\ call.n > 128
      /\ dstend \in Int /\ dstend <= call.d + call.n
      /\ srcend = call.s + (dstend - call.d) - 64
      /\ count = (dstend - call.d) - 128
      /\ IF pc = "loop64_backwards" THEN count > 0 ELSE -64 < count /\ count <= 0
  BY <1>1, <1>3 DEF BackwardInv
<1>. QED
  BY <1>1, <1>2, <1>4

LEMMA BackwardStores ==
    ASSUME IInv, pc \in {"loop64_backwards", "copy64_from_start"}
    PROVE  /\ St(mem, dstend - 16, A) = Copied(Mem0, Shift, Bwd1)
           /\ St(Copied(Mem0, Shift, Bwd1), dstend - 32, B) = Copied(Mem0, Shift, Bwd2)
           /\ St(Copied(Mem0, Shift, Bwd2), dstend - 48, C) = Copied(Mem0, Shift, Bwd3)
           /\ St(Copied(Mem0, Shift, Bwd3), dstend - 64, D) = Copied(Mem0, Shift, Bwd4)
<1>1. /\ call \in Calls /\ dstend \in Int /\ Shift \in Int
      /\ srcend = dstend + Shift - 64 /\ call.d \in Nat /\ dstin = call.d
  BY BackwardFacts
<1>2. /\ mem = Copied(Mem0, Shift, StoredBackward)
      /\ Pending(srcend, D, C, B, A)
  BY DEF IInv, BackwardInv, Shift
<1>3. /\ srcend \in Int /\ (srcend + 48) - (dstend - 16) = Shift
      /\ (srcend + 32) - (dstend - 32) = Shift
      /\ (srcend + 16) - (dstend - 48) = Shift /\ srcend - (dstend - 64) = Shift
  BY <1>1
<1>4. /\ A = Ld(Mem0, srcend + 48) /\ B = Ld(Mem0, srcend + 32)
      /\ C = Ld(Mem0, srcend + 16) /\ D = Ld(Mem0, srcend)
  BY <1>2 DEF Pending
<1>5. /\ dstend - 16 \in Int /\ dstend - 32 \in Int /\ dstend - 48 \in Int
      /\ dstend - 64 \in Int
      /\ srcend + 16 \in Int /\ srcend + 32 \in Int /\ srcend + 48 \in Int
  BY <1>1, <1>3
<1>6. St(mem, dstend - 16, A) = Copied(Mem0, Shift, Bwd1)
  BY <1>1, <1>2, <1>3, <1>4, <1>5, ChunkExtends DEF Bwd1
<1>7. St(Copied(Mem0, Shift, Bwd1), dstend - 32, B) = Copied(Mem0, Shift, Bwd2)
  BY <1>1, <1>3, <1>4, <1>5, ChunkExtends DEF Bwd2
<1>8. St(Copied(Mem0, Shift, Bwd2), dstend - 48, C) = Copied(Mem0, Shift, Bwd3)
  BY <1>1, <1>3, <1>4, <1>5, ChunkExtends DEF Bwd3
<1>9. St(Copied(Mem0, Shift, Bwd3), dstend - 64, D) = Copied(Mem0, Shift, Bwd4)
  BY <1>1, <1>3, <1>4, <1>5, ChunkExtends DEF Bwd4
<1>. QED
  BY <1>6, <1>7, <1>8, <1>9

LEMMA BackwardReach ==
    ASSUME IInv, pc \in {"loop64_backwards", "copy64_from_start"}
    PROVE  /\ Bwd1 \subseteq (dstend - 16) .. (call.d + call.n - 1)
           /\ Bwd2 \subseteq (dstend - 32) .. (call.d + call.n - 1)
           /\ Bwd3 \subseteq (dstend - 48) .. (call.d + call.n - 1)
           /\ Bwd4 \subseteq (dstend - 64) .. (call.d + call.n - 1)
           /\ Bwd4 = (dstend - 64) .. (call.d + call.n - 1)
<1>1. /\ call.d \in Nat /\ call.n \in Nat /\ dstin = call.d
      /\ dstend \in Int /\ dstend <= call.d + call.n
  BY BackwardFacts
<1>2. \/ StoredBackward = dstend .. (call.d + call.n - 1)
      \/ /\ StoredBackward = Span(call.d + call.n - 16, 16)
         /\ dstend + 16 > call.d + call.n
  BY <1>1 DEF StoredBackward
<1> DEFINE b == call.d + call.n - 1
<1>3. b \in Int /\ dstend \in Int /\ dstend <= b + 1
  BY <1>1
<1>4. \/ StoredBackward = dstend .. b
      \/ StoredBackward = (b - 15) .. b /\ dstend + 15 > b
  BY <1>1, <1>2 DEF Span
<1> HIDE DEF b
<1>5. Bwd1 = (dstend - 16) .. b
  BY <1>3, <1>4 DEF Bwd1, Grown, Span
<1>6. Bwd2 = (dstend - 32) .. b
  BY <1>3, <1>5 DEF Bwd2, Grown, Span
<1>7. Bwd3 = (dstend - 48) .. b
  BY <1>3, <1>6 DEF Bwd3, Grown, Span
<1>8. Bwd4 = (dstend - 64) .. b
  BY <1>3, <1>7 DEF Bwd4, Grown, Span
<1>. QED
  BY <1>5, <1>6, <1>7, <1>8 DEF b

LEMMA Loop64BackwardsStep == ASSUME IInv, Loop64Backwards PROVE IInv'
<1> DEFINE m1 == St(mem, dstend - 16, A)
           m2 == St(m1, dstend - 32, B)
           m3 == St(m2, dstend - 48, C)
           m4 == St(m3, dstend - 64, D)
<1>1. pc = "loop64_backwards"
  BY DEF Loop64Backwards
<1>2. /\ A' = Ld(m1, srcend - 16) /\ B' = Ld(m2, srcend - 32)
      /\ C' = Ld(m3, srcend - 48) /\ D' = Ld(m4, srcend - 64)
      /\ mem' = m4
  BY DEF Loop64Backwards
<1>3. /\ srcend' = srcend - 64 /\ dstend' = dstend - 64 /\ count' = count - 64
      /\ rd' = Span(srcend - 64, 64) /\ wr' = Span(dstend - 64, 64)
      /\ pc' = IF count > 64 THEN "loop64_backwards" ELSE "copy64_from_start"
      /\ call' = call /\ src' = src /\ dstin' = dstin
  BY DEF Loop64Backwards, dstin
<1>4. /\ call \in Calls /\ dstin = call.d
      /\ call.d \in Nat /\ call.s \in Nat /\ call.n \in Nat
      /\ Shift = call.s - call.d
      /\ call.s < call.d /\ call.d < call.s + call.n
      /\ src = call.s
      /\ dstend \in Int /\ srcend = dstend + Shift - 64
      /\ dstend <= call.d + call.n
      /\ count = (dstend - call.d) - 128 /\ call.n > 128
  BY <1>1, BackwardFacts
<1>5. count > 0 /\ dstend % 16 = 0
  BY <1>1 DEF IInv, BackwardInv
<1>6. /\ m1 = Copied(Mem0, Shift, Bwd1) /\ m2 = Copied(Mem0, Shift, Bwd2)
      /\ m3 = Copied(Mem0, Shift, Bwd3) /\ m4 = Copied(Mem0, Shift, Bwd4)
  BY <1>1, BackwardStores
<1>7. /\ Bwd1 \subseteq (dstend - 16) .. (call.d + call.n - 1)
      /\ Bwd2 \subseteq (dstend - 32) .. (call.d + call.n - 1)
      /\ Bwd3 \subseteq (dstend - 48) .. (call.d + call.n - 1)
      /\ Bwd4 \subseteq (dstend - 64) .. (call.d + call.n - 1)
  BY <1>1, BackwardReach
<1> HIDE DEF m1, m2, m3, m4
<1>8. /\ A' = Ld(Mem0, srcend - 16) /\ B' = Ld(Mem0, srcend - 32)
      /\ C' = Ld(Mem0, srcend - 48) /\ D' = Ld(Mem0, srcend - 64)
  <2>1. /\ srcend - 16 \in Int /\ ((srcend - 16) + 16) - (dstend - 16) <= Shift
        /\ srcend - 32 \in Int /\ ((srcend - 32) + 16) - (dstend - 32) <= Shift
        /\ srcend - 48 \in Int /\ ((srcend - 48) + 16) - (dstend - 48) <= Shift
        /\ srcend - 64 \in Int /\ ((srcend - 64) + 16) - (dstend - 64) <= Shift
        /\ dstend - 16 \in Int /\ dstend - 32 \in Int /\ dstend - 48 \in Int
        /\ dstend - 64 \in Int
        /\ call.s <= srcend - 16 /\ (srcend - 16) + 16 <= call.s + call.n
        /\ call.s <= srcend - 32 /\ (srcend - 32) + 16 <= call.s + call.n
        /\ call.s <= srcend - 48 /\ (srcend - 48) + 16 <= call.s + call.n
        /\ call.s <= srcend - 64 /\ (srcend - 64) + 16 <= call.s + call.n
    BY <1>4, <1>5
  <2>2. Ld(m1, srcend - 16) = Ld(Mem0, srcend - 16)
    BY <1>4, <1>6, <1>7, <2>1, BackwardLoad
  <2>3. Ld(m2, srcend - 32) = Ld(Mem0, srcend - 32)
    BY <1>4, <1>6, <1>7, <2>1, BackwardLoad
  <2>4. Ld(m3, srcend - 48) = Ld(Mem0, srcend - 48)
    BY <1>4, <1>6, <1>7, <2>1, BackwardLoad
  <2>5. Ld(m4, srcend - 64) = Ld(Mem0, srcend - 64)
    BY <1>4, <1>6, <1>7, <2>1, BackwardLoad
  <2>. QED
    BY <1>2, <2>2, <2>3, <2>4, <2>5
<1>9. Pending(srcend', D', C', B', A')
  <2>1. /\ srcend' = srcend - 64 /\ srcend' + 16 = srcend - 48
        /\ srcend' + 32 = srcend - 32 /\ srcend' + 48 = srcend - 16
    BY <1>3, <1>4
  <2>. QED
    BY <1>8, <2>1 DEF Pending
<1>10. mem' = Copied(Mem0, (call.s - dstin)', StoredBackward')
  <2>1. StoredBackward' = (dstend - 64) .. (call.d + call.n - 1)
    BY <1>3, <1>4 DEF StoredBackward
  <2>2. Bwd4 = (dstend - 64) .. (call.d + call.n - 1)
    BY <1>1, BackwardReach
  <2>. QED
    BY <1>2, <1>3, <1>4, <1>6, <2>1, <2>2
<1>11. /\ dstend' \in Int /\ srcend' = call.s + (dstend' - dstin) - 64
       /\ count' = (dstend' - dstin) - 128
       /\ dstend' <= dstin + call.n /\ dstend' + 64 <= dstin + call.n
       /\ IF pc' = "loop64_backwards" THEN count' > 0 ELSE -64 < count' /\ count' <= 0
       /\ pc' \in {"loop64_backwards", "copy64_from_start"}
  BY <1>3, <1>4, <1>5
<1>12. dstend' % 16 = 0
  BY <1>3, <1>4, <1>5
<1>13. BackwardInv'
  BY <1>3, <1>4, <1>9, <1>10, <1>11, <1>12 DEF BackwardInv
<1>14. Footprint'
  <2>1. /\ Span(srcend - 64, 64) \subseteq Span(call.s, call.n)
        /\ Span(dstend - 64, 64) \subseteq Span(call.d, call.n)
    BY <1>4, <1>5 DEF Span
  <2>. QED
    BY <1>3, <2>1 DEF Footprint
<1>. QED
  BY <1>3, <1>11, <1>13, <1>14, LoopInvStep

LEMMA Copy64FromStartStep == ASSUME IInv, Copy64FromStart PROVE IInv'
<1> DEFINE m1 == St(mem, dstend - 16, A)
           m2 == St(m1, dstend - 32, B)
           m3 == St(m2, dstend - 48, C)
           m4 == St(m3, dstend - 64, D)
           g == Ld(mem, src + 48)
           a == Ld(m1, src + 32)
           b == Ld(m2, src + 16)
           c == Ld(m3, src)
           m5 == St(m4, dstin + 48, g)
           m6 == St(m5, dstin + 32, a)
           m7 == St(m6, dstin + 16, b)
           m8 == St(m7, dstin, c)
           R5 == Grown(Bwd4, dstin + 48, 16)
           R6 == Grown(R5, dstin + 32, 16)
           R7 == Grown(R6, dstin + 16, 16)
           R8 == Grown(R7, dstin, 16)
<1>1. pc = "copy64_from_start" /\ pc' = "ret" /\ UNCHANGED <<call, ptrs, pairs>>
  BY DEF Copy64FromStart
<1>2. /\ mem' = m8
      /\ rd' = Span(src, 64)
      /\ wr' = Span(dstend - 64, 64) \cup Span(dstin, 64)
  BY DEF Copy64FromStart
<1>3. /\ call \in Calls /\ dstin = call.d
      /\ call.d \in Nat /\ call.s \in Nat /\ call.n \in Nat
      /\ Shift = call.s - call.d
      /\ call.s < call.d /\ call.d < call.s + call.n
      /\ src = call.s
      /\ dstend \in Int
      /\ dstend <= call.d + call.n
      /\ count = (dstend - call.d) - 128 /\ call.n > 128 /\ -64 < count
  BY <1>1, BackwardFacts
<1>4. count <= 0
  BY <1>1 DEF IInv, BackwardInv
<1>5. mem = Copied(Mem0, Shift, StoredBackward)
  BY <1>1 DEF IInv, BackwardInv, Shift
<1>6. /\ m1 = Copied(Mem0, Shift, Bwd1) /\ m2 = Copied(Mem0, Shift, Bwd2)
      /\ m3 = Copied(Mem0, Shift, Bwd3) /\ m4 = Copied(Mem0, Shift, Bwd4)
  BY <1>1, BackwardStores
<1>7. /\ Bwd1 \subseteq (dstend - 16) .. (call.d + call.n - 1)
      /\ Bwd2 \subseteq (dstend - 32) .. (call.d + call.n - 1)
      /\ Bwd3 \subseteq (dstend - 48) .. (call.d + call.n - 1)
  BY <1>1, BackwardReach
<1> HIDE DEF m1, m2, m3, m4
<1>8. /\ g = Ld(Mem0, src + 48) /\ a = Ld(Mem0, src + 32)
      /\ b = Ld(Mem0, src + 16) /\ c = Ld(Mem0, src)
  <2>1. /\ src + 48 \in Int
        /\ src + 32 \in Int /\ ((src + 32) + 16) - (dstend - 16) <= Shift
        /\ src + 16 \in Int /\ ((src + 16) + 16) - (dstend - 32) <= Shift
        /\ src \in Int /\ (src + 16) - (dstend - 48) <= Shift
        /\ dstend - 16 \in Int /\ dstend - 32 \in Int /\ dstend - 48 \in Int
        /\ call.s <= src + 48 /\ (src + 48) + 16 <= call.s + call.n
        /\ call.s <= src + 32 /\ (src + 32) + 16 <= call.s + call.n
        /\ call.s <= src + 16 /\ (src + 16) + 16 <= call.s + call.n
        /\ call.s <= src /\ src + 16 <= call.s + call.n
    BY <1>3
  <2>2. g = Ld(Mem0, src + 48)
    <3>1. Span(src + 48, 16) \cap StoredBackward = {}
      BY <1>3, <2>1 DEF StoredBackward, Span
    <3>. QED
      BY <1>3, <1>5, <2>1, <3>1, LoadsOriginal
  <2>3. a = Ld(Mem0, src + 32)
    BY <1>3, <1>6, <1>7, <2>1, BackwardLoad
  <2>4. b = Ld(Mem0, src + 16)
    BY <1>3, <1>6, <1>7, <2>1, BackwardLoad
  <2>5. c = Ld(Mem0, src)
    BY <1>3, <1>6, <1>7, <2>1, BackwardLoad
  <2>. QED
    BY <2>2, <2>3, <2>4, <2>5
<1> HIDE DEF g, a, b, c
<1>9. m8 = Copied(Mem0, Shift, R8)
  <2>1. /\ dstin + 48 \in Int /\ src + 48 \in Int /\ (src + 48) - (dstin + 48) = Shift
        /\ dstin + 32 \in Int /\ src + 32 \in Int /\ (src + 32) - (dstin + 32) = Shift
        /\ dstin + 16 \in Int /\ src + 16 \in Int /\ (src + 16) - (dstin + 16) = Shift
        /\ dstin \in Int /\ src \in Int /\ src - dstin = Shift
    BY <1>3
  <2>2. m5 = Copied(Mem0, Shift, R5)
    BY <1>3, <1>6, <1>8, <2>1, ChunkExtends
  <2>3. m6 = Copied(Mem0, Shift, R6)
    <3> HIDE DEF m5, R5
    <3>. QED
      BY <1>3, <1>8, <2>1, <2>2, ChunkExtends
  <2>4. m7 = Copied(Mem0, Shift, R7)
    <3> HIDE DEF m6, R6
    <3>. QED
      BY <1>3, <1>8, <2>1, <2>3, ChunkExtends
  <2>5. m8 = Copied(Mem0, Shift, R8)
    <3> HIDE DEF m7, R7
    <3>. QED
      BY <1>3, <1>8, <2>1, <2>4, ChunkExtends
  <2>. QED
    BY <2>5
<1>10. R8 = Span(dstin, call.n)
  <2>1. R8 = Grown(Bwd4, dstin, 64)
    BY <1>3 DEF Grown, Span
  <2> HIDE DEF R8
  <2> DEFINE e == call.d + call.n - 1
  <2>2. /\ e \in Int /\ dstend \in Int /\ dstin \in Int
        /\ dstin <= dstend - 64 /\ dstend - 64 <= dstin + 64
        /\ dstend <= e + 1 /\ dstin + 64 <= e
    BY <1>3, <1>4
  <2>3. Bwd4 = (dstend - 64) .. e
    BY <1>1, BackwardReach
  <2>4. Span(dstin, call.n) = dstin .. e
    BY <1>3 DEF Span
  <2> HIDE DEF e
  <2>5. R8 = dstin .. e
    BY <2>1, <2>2, <2>3 DEF Grown, Span
  <2>. QED
    BY <2>4, <2>5
<1>11. mem' = Copied(Mem0, Shift, Span(dstin, call.n))
  BY <1>2, <1>9, <1>10
<1>12. rd' \subseteq Span(call.s, call.n) /\ wr' \subseteq Span(call.d, call.n)
  <2>1. /\ Span(src, 64) \subseteq Span(call.s, call.n)
        /\ Span(dstend - 64, 64) \subseteq Span(call.d, call.n)
        /\ Span(dstin, 64) \subseteq Span(call.d, call.n)
    BY <1>3 DEF Span
  <2>. QED
    BY <1>2, <2>1
<1>. QED
  BY <1>1, <1>11, <1>12, ReturnStep

\* Every step preserves the invariant.
LEMMA NextIInv == IInv /\ [Next]_vars => IInv'
<1> SUFFICES ASSUME IInv, [Next]_vars PROVE IInv'
  OBVIOUS
<1>1. CASE Copy0
  BY <1>1, Copy0Step
<1>2. CASE Copy1to3
  BY <1>2, Copy1to3Step
<1>3. CASE Copy4to7
  BY <1>3, Copy4to7Step
<1>4. CASE Copy8to15
  BY <1>4, Copy8to15Step
<1>5. CASE Copy16to32
  BY <1>5, Copy16to32Step
<1>6. CASE Copy33to64
  BY <1>6, Copy33to64Step
<1>7. CASE Copy65to96
  BY <1>7, Copy65to96Step
<1>8. CASE Copy97to128
  BY <1>8, Copy97to128Step
<1>9. CASE CopyLongInPlace
  BY <1>9, CopyLongInPlaceStep
<1>10. CASE CopyLong
  BY <1>10, CopyLongStep
<1>11. CASE Loop64
  BY <1>11, Loop64Step
<1>12. CASE Copy64FromEnd
  BY <1>12, Copy64FromEndStep
<1>13. CASE CopyLongBackwards
  BY <1>13, CopyLongBackwardsStep
<1>14. CASE Loop64Backwards
  BY <1>14, Loop64BackwardsStep
<1>15. CASE Copy64FromStart
  BY <1>15, Copy64FromStartStep
<1>16. CASE UNCHANGED vars
  BY <1>16 DEF vars, ptrs, pairs, IInv, TypeOK, Footprint, EntryInv, ForwardInv,
     BackwardInv, MovedAtRet, StoredForward, StoredBackward, Pending, dstin
<1>. QED
  BY <1>1, <1>2, <1>3, <1>4, <1>5, <1>6, <1>7, <1>8, <1>9, <1>10, <1>11, <1>12,
     <1>13, <1>14, <1>15, <1>16 DEF Next

-----------------------------------------------------------------------------
\* The inductive invariant holds in every reachable state, for every address
\* space, memory and call.
THEOREM Invariance == Spec => []IInv
<1>1. Init => IInv
  BY InitIInv
<1>2. IInv /\ [Next]_vars => IInv'
  BY NextIInv
<1>. QED
  BY <1>1, <1>2, PTL DEF Spec

\* The registers hold whole chunks, control is at a label of the code, and dst
\* (dstend, going backwards) is 16-byte aligned throughout the loops.
THEOREM TypeCorrect == Spec => []TypeOK
<1>1. IInv => TypeOK
  BY DEF IInv
<1>. QED
  BY <1>1, Invariance, PTL

\* However the buffers overlap, the destination holds at ret what the source
\* held at entry, and no other byte has changed.
THEOREM Moves == Spec => []MovedAtRet
<1>1. IInv => MovedAtRet
  BY DEF IInv
<1>. QED
  BY <1>1, Invariance, PTL

\* No access is outside the caller's buffers.
THEOREM StaysInBuffers == Spec => []Footprint
<1>1. IInv => Footprint
  BY DEF IInv
<1>. QED
  BY <1>1, Invariance, PTL

\* The safety part of the contract of memmove: a caller sees the one step that
\* moves all the bytes, and nothing before or after it.
ContractSafety == Contract!Init /\ [][Contract!Next]_(Contract!vars)

LEMMA NextFrom == Next => pc # "ret" /\ call' = call
BY DEF Next, Copy0, Copy1to3, Copy4to7, Copy8to15, Copy16to32, Copy33to64,
       Copy65to96, Copy97to128, CopyLongInPlace, CopyLong, Loop64, Copy64FromEnd,
       CopyLongBackwards, Loop64Backwards, Copy64FromStart, HeadAndTail, Copy96, Finish

LEMMA StepImplements ==
    IInv' /\ [Next]_vars => [Contract!Next]_(Contract!vars)
<1> SUFFICES ASSUME IInv', [Next]_vars PROVE [Contract!Next]_(Contract!vars)
  OBVIOUS
<1>1. CASE Next /\ pc' = "ret"
  <2>1. pc # "ret" /\ call' = call
    BY <1>1, NextFrom
  <2>2. mem' = Moved(Mem0, call.d, call.s, call.n)
    BY <1>1, <2>1 DEF IInv, MovedAtRet
  <2>. QED
    BY <1>1, <2>1, <2>2
       DEF Contract!Next, Contract!Return, Contract!Moved, Contract!Copied,
           Contract!Span, Moved, Copied, Span
<1>2. CASE Next /\ pc' # "ret"
  BY <1>2, NextFrom DEF Contract!vars
<1>3. CASE UNCHANGED vars
  BY <1>3 DEF vars, Contract!vars
<1>. QED
  BY <1>1, <1>2, <1>3

\* The routine implements the contract, every step a step of it or a stutter.
THEOREM Implements == Spec => ContractSafety
<1>1. Init => Contract!Init
  BY DEF Init, Contract!Init
<1>2. IInv' /\ [Next]_vars => [Contract!Next]_(Contract!vars)
  BY StepImplements
<1>. QED
  BY <1>1, <1>2, Invariance, PTL DEF Spec, ContractSafety

=============================================================================
