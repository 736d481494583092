----------------------------- MODULE StrcpyAArch64 -----------------------------
(***************************************************************************)
(* string/aarch64/strcpy.S: strcpy and, with BUILD_STPCPY, stpcpy.  A      *)
(* string of up to 31 bytes is copied at once when its end is known, by    *)
(* chunks that overlap; a longer one chunk by chunk and then by the last W *)
(* bytes.  A chunk loaded into a q register is stored from it later.       *)
(***************************************************************************)
EXTENDS Memory, Simd

CONSTANT Calls   \* the calls [routine, big, d, s, mem]: dstin, srcin and the memory;
                 \* big, is this the big-endian build

VARIABLES call, pc, mem, src, dst, tmp, len,
          vdata,    \* the data in dataq
          rd, wr,   \* addresses the last step loaded, stored to
          result

vars == <<call, pc, mem, src, dst, tmp, len, vdata, rd, wr, result>>

big == call.big
dstin == call.d
srcin == call.s

Init == /\ call \in Calls
        /\ pc = "entry"
        /\ mem = call.mem
        /\ src = srcin - (srcin % W)
        /\ dst = 0 /\ tmp = 0 /\ len = 0
        /\ vdata = [i \in Lanes |-> 0]
        /\ rd = {} /\ wr = {} /\ result = 0

LoadQ(m, a) == vdata' = ldrq(m, a, big) /\ rd' = Span(a, W)

\* str of a q register: its bytes in memory order again.
StoredQ(a) == Store(mem, a, W, [i \in Lanes |-> vdata[IF big THEN (W - 1) - i ELSE i]])

Syndrome(v) == shrn(cmeq(v, 0))
HasNul(v) == fmov(umaxp(cmeq(v, 0), cmeq(v, 0))) # {}

\* The index of the first NUL of a chunk from its syndrome: rbit is left out where
\* the first byte is at the top, which an ldr makes it in the big-endian build.
IndexUnswapped(X) == clz(rbit(X)) \div 4
Index(X) == clz(IF big THEN X ELSE rbit(X)) \div 4

\* The string ends i bytes from srcin; what the function returns then.
ReturnsLast(i) == dstin + (IF call.routine = "stpcpy" THEN i ELSE 0)
Returns(i) == result' = ReturnsLast(i) /\ pc' = "ret"

\* Blocks of w bytes, at the offsets of Os, copied from srcin to dstin.
Copy(w, Os) ==
    /\ mem' = Copied(mem, srcin - dstin, UNION {Span(dstin + o, w) : o \in Os})
    /\ rd' = UNION {Span(srcin + o, w) : o \in Os}
    /\ wr' = UNION {Span(dstin + o, w) : o \in Os}

-----------------------------------------------------------------------------
\* tbz: is the bit of x set?
Bit(b, x) == (x \div 2 ^ b) % 2 = 1

\* The first chunk, loaded in memory order, less the bytes before the string.
Entry == /\ pc = "entry"
         /\ vdata' = ld1(mem, src) /\ rd' = Span(src, W) /\ wr' = {}
         /\ LET synd == lsr(Syndrome(vdata'), 4 * srcin)
            IN  IF synd = {}
                THEN pc' = "second" /\ UNCHANGED len
                ELSE pc' = "less16" /\ len' = clz(rbit(synd)) \div 4
         /\ UNCHANGED <<call, mem, src, dst, tmp, result>>

Second == /\ pc = "second"
          /\ LoadQ(mem, src + W) /\ wr' = {}
          /\ src' = src + W
          /\ LET synd == Syndrome(vdata')
             IN  IF synd = {}
                 THEN pc' = "start_loop" /\ UNCHANGED len
                 ELSE /\ len' = (src' - srcin) + Index(synd)
                      /\ pc' = IF Bit(4, len') THEN "more16" ELSE "less16"
          /\ UNCHANGED <<call, mem, dst, tmp, result>>

\* The first and the last bytes, with the NUL.
EndsOf(w) == /\ Copy(w, {0, (len + 1) - w})
             /\ Returns(len)
             /\ UNCHANGED <<call, src, dst, tmp, len, vdata>>

More16 == pc = "more16" /\ EndsOf(16)
Less16 == pc = "less16" /\ Bit(3, len) /\ EndsOf(8)
Less8 == pc = "less16" /\ ~Bit(3, len) /\ len >= 3 /\ EndsOf(4)

\* A halfword if there is one, and the NUL.
Less4 == /\ pc = "less16" /\ ~Bit(3, len) /\ len < 3
         /\ LET half == IF len = 0 THEN {} ELSE Span(dstin, 2)
            IN  /\ mem' = [Copied(mem, srcin - dstin, half) EXCEPT ![dstin + len] = 0]
                /\ rd' = {a + (srcin - dstin) : a \in half}
                /\ wr' = half \cup {dstin + len}
         /\ Returns(len)
         /\ UNCHANGED <<call, src, dst, tmp, len, vdata>>

-----------------------------------------------------------------------------
\* The chunk at src is in dataq; tmp is the distance from dst to it.
StartLoop == /\ pc = "start_loop"
             /\ tmp' = srcin - dstin
             /\ dst' = src - tmp'
             /\ Copy(W, {0})
             /\ pc' = "loop"
             /\ UNCHANGED <<call, src, len, vdata, result>>

\* A chunk is stored before the next is loaded, which may have the NUL.
Loop == /\ pc = "loop"
        /\ mem' = StoredQ(dst) /\ wr' = Span(dst, W)
        /\ LoadQ(mem', src + W)
        /\ dst' = dst + 2 * W
        /\ pc' = IF HasNul(vdata') THEN "loopend" ELSE "loop_half"
        /\ UNCHANGED <<call, src, tmp, len, result>>

SkippedBoth(d) == d
SkippedOne(d) == d + W

LoopHalf == /\ pc = "loop_half"
            /\ mem' = StoredQ(dst - W) /\ wr' = Span(dst - W, W)
            /\ LoadQ(mem', src + 2 * W)
            /\ src' = src + 2 * W
            /\ IF HasNul(vdata')
               THEN dst' = SkippedOne(dst) /\ pc' = "loopend"
               ELSE dst' = dst /\ pc' = "loop"
            /\ UNCHANGED <<call, tmp, len, result>>

\* The last W bytes, which end with the NUL.
LoopEnd == /\ pc = "loopend"
           /\ len' = Index(Syndrome(vdata))
           /\ dst' = (dst - (2 * W - 1)) + len'
           /\ mem' = Copied(mem, tmp, Span(dst', W))
           /\ rd' = Span(dst' + tmp, W) /\ wr' = Span(dst', W)
           /\ result' = IF call.routine = "stpcpy" THEN dst' + (W - 1) ELSE dstin
           /\ pc' = "ret"
           /\ UNCHANGED <<call, src, tmp, vdata>>

Next == \/ Entry \/ Second \/ More16 \/ Less16 \/ Less8 \/ Less4
        \/ StartLoop \/ Loop \/ LoopHalf \/ LoopEnd

Spec == Init /\ [][Next]_vars /\ WF_vars(Next)

-----------------------------------------------------------------------------
\* The length of the string.
Ends(c, k) == c.mem[c.s + k] = 0 /\ \A j \in 0 .. (k - 1) : c.mem[c.s + j] # 0
Length == CHOOSE k \in DOMAIN call.mem : Ends(call, k)

\* At ret the string has been copied with its NUL and no other byte has changed;
\* stpcpy returns the address of the NUL.
Effect == /\ mem = Moved(call.mem, dstin, srcin, Length + 1)
          /\ result = dstin + (IF call.routine = "stpcpy" THEN Length ELSE 0)

\* Loads are of granules that hold a byte of the string, though the chunks read
\* begin before it and end after it; stores are to the copy only.
Footprint == LET end == srcin + Length
             IN  /\ rd \subseteq (srcin - (srcin % W)) .. ((end - (end % W)) + W - 1)
                 /\ wr \subseteq Span(dstin, Length + 1)

-----------------------------------------------------------------------------
(* The inductive invariant.                                                *)

\* The string ends, in memory, and the copy does not overlap it.
ValidCall(c) ==
    /\ c.routine \in {"strcpy", "stpcpy"} /\ c.big \in BOOLEAN
    /\ c.d \in Nat /\ c.s \in Nat
    /\ DOMAIN c.mem \subseteq Nat /\ c.mem = [a \in DOMAIN c.mem |-> c.mem[a]]
    /\ \E k \in DOMAIN c.mem : /\ Ends(c, k) /\ Span(c.s, k + 1) \subseteq DOMAIN c.mem
                               /\ c.s + k < c.d \/ c.d + k < c.s

\* The first k bytes have been copied, and nothing stored outside the copy.
SoFar(k) ==
    LET copy == Span(dstin, Length + 1)
    IN  /\ mem = [a \in DOMAIN call.mem |-> mem[a]]
        /\ \A a \in DOMAIN call.mem :
               /\ a \in Span(dstin, k) => mem[a] = call.mem[a + (srcin - dstin)]
               /\ a \notin copy => mem[a] = call.mem[a]

\* The chunk at a is in dataq, and all before it has been copied.
Loaded(a) == /\ a % W = 0 /\ srcin < a /\ a + W <= srcin + Length
             /\ vdata = ldrq(call.mem, a, big)
InLoop(a) == Loaded(a) /\ tmp = srcin - dstin /\ SoFar(a - srcin)

\* The chunk at a has the NUL; dst is past where it would be copied to.
AtEnd(a) == /\ a \in Nat /\ srcin + W < a /\ a <= srcin + Length
            /\ vdata = ldrq(mem, a, big) /\ ~(\A i \in Lanes : mem[a + i] # 0)
            /\ tmp = srcin - dstin /\ SoFar(a - srcin)

IInv == /\ ValidCall(call)
        /\ pc \in {"entry", "second", "less16", "more16", "start_loop", "loop", "loop_half",
                   "loopend", "ret"}
        /\ src \in Nat
        /\ pc \in {"entry", "second", "less16", "more16", "start_loop"} => mem = call.mem
        /\ pc \in {"entry", "second"} => src = srcin - (srcin % W)
        /\ pc = "second" => src + W <= srcin + Length
        /\ pc = "less16" => len = Length /\ len < 16
        /\ pc = "more16" => len = Length /\ len \in 16 .. 31
        /\ pc = "start_loop" => Loaded(src) /\ src <= srcin + W
        /\ pc = "loop" => InLoop(src) /\ dst = src - tmp
        /\ pc = "loop_half" => InLoop(src + W) /\ dst = (src - tmp) + 2 * W
        /\ pc = "loopend" => dst \in Int /\ AtEnd((dst + tmp) - W)
        /\ pc = "ret" => Effect
        /\ Footprint

=============================================================================
