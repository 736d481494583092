--------------------------------- MODULE Fills ---------------------------------
(***************************************************************************)
(* The routines of string/aarch64 that fill a region: memset.S,            *)
(* memset-scalar.S and memset-sve.S with a byte, __mtag_tag_region.S with  *)
(* the tag of its pointer, __mtag_tag_zero_region.S with the tag and with  *)
(* zeros.  The code of a size without a loop, the code before a loop, an   *)
(* iteration and the code after it are an action each.                     *)
(***************************************************************************)
EXTENDS Memory

CONSTANTS Calls,   \* the calls [routine, d, n, val, dczid, mem]: dstin, count, val,
                   \* the system register dczid_el0 and the memory; regions to be
                   \* tagged are of whole granules of 16 bytes
          Size     \* the number of values of a size_t, and of addresses

VARIABLES call, pc, mem,
          tags,         \* of each address, is the tag of its granule the pointer's?
          dst, count,
          wr            \* addresses the last step stored to

vars == <<call, pc, mem, tags, dst, count, wr>>

routine == call.routine
dstin == call.d
n == call.n
dstend == dstin + n

Tagging == routine \in {"tag_region", "tag_zero_region"}
Sve == routine = "memset_sve"
Memset == routine \in {"memset", "memset_scalar"}

Init == /\ call \in Calls
        /\ pc = "entry"
        /\ mem = call.mem
        /\ tags = [a \in DOMAIN mem |-> FALSE]
        /\ dst = 0 /\ count = call.n
        /\ wr = {}

\* The byte of val that is stored.
FillByte == call.val % 256

\* Byte b stored at the addresses of S, or their tags, or both.
Write(S, b) ==
    /\ mem' = IF routine = "tag_region" THEN mem
              ELSE [a \in DOMAIN mem |-> IF a \in S THEN b ELSE mem[a]]
    /\ tags' = IF Tagging THEN [a \in DOMAIN tags |-> tags[a] \/ a \in S] ELSE tags
    /\ wr' = S

Fill(S) == Write(S, IF Tagging THEN 0 ELSE FillByte)

Aligned(a, w) == a - (a % w)

\* Stores of w bytes each at the addresses of As.
Stores(w, As) == UNION {Span(a, w) : a \in As}

FillAndReturn(S) == Fill(S) /\ pc' = "ret" /\ UNCHANGED <<call, dst, count>>

-----------------------------------------------------------------------------
(* Sizes without a loop.                                                   *)

Set0to3 == /\ pc = "entry" /\ Memset /\ n < 4
           /\ FillAndReturn(IF n = 0 THEN {} ELSE {dstin, dstin + (n \div 2), dstend - 1})

\* off is 0 or, from 8 bytes on, 1.
Set4to15 == /\ pc = "entry" /\ Memset /\ n \in 4 .. 15
            /\ LET off == 4 * (n \div 8)
               IN  FillAndReturn(Stores(4, {dstin, dstin + off, dstend - off - 4, dstend - 4}))

\* whilelo: the first count lanes of a vector of at least 16.
SetPredicated == /\ pc = "entry" /\ Sve /\ n < 16
                 /\ FillAndReturn(Span(dstin, n))

\* 48 & (count >> 1)
HalfIn16s(c) == 16 * ((c \div 32) % 4)
Set16to64 == /\ pc = "entry" /\ ~Tagging /\ n \in 16 .. 64
             /\ LET off == HalfIn16s(n)
                IN  FillAndReturn(Stores(16, {dstin, dstin + off, dstend - off - 16, dstend - 16}))

Set65to128 == /\ pc = "entry" /\ ~Tagging /\ n \in 65 .. 128
              /\ FillAndReturn(Stores(32, {dstin, dstin + 32, dstend - 64, dstend - 32}))

Bit6(c) == (c \div 64) % 2 = 1

\* 0, 16, 32 or 48 bytes.
Tag48 == /\ pc = "entry" /\ Tagging /\ n <= 96 /\ ~Bit6(n)
         /\ LET tmp == dstin + 16 * (n \div 32)
            IN  FillAndReturn(IF n = 0 THEN {} ELSE Stores(16, {dstin, tmp, dstend - 16}))

Tag96 == /\ pc = "entry" /\ Tagging /\ n <= 96 /\ Bit6(n)
         /\ FillAndReturn(Stores(32, {dstin, dstin + 32, dstend - 32}))

-----------------------------------------------------------------------------
(* Larger ones: dc zva, gva or gzva if they work on blocks of 64 bytes.    *)

\* The block size is 4 * 2^BS bytes, BS the low four bits of dczid_el0; the next
\* bit prohibits these instructions.
AnyBlock(dczid) == (dczid \div 16) % 2 = 0
Is64(dczid) == dczid % 32 = 4
Block(a) == LET size == 4 * 2 ^ (call.dczid % 16) IN Span(Aligned(a, size), size)

FromZva == IF Tagging THEN 160 ELSE IF Sve THEN 256 ELSE 129
LargerThan == IF Tagging THEN 96 ELSE 128
Zva == n >= FromZva /\ (Tagging \/ FillByte = 0) /\ Is64(call.dczid)

\* What the loop has to do, of the bytes from the 64-byte block of dstin on: all
\* but the first 64 and, so that it never goes beyond the end, the last 64.
Unbiased(bytes) == bytes - 64
Biased(bytes) == bytes - 128

EnterZva(S) == /\ Fill(S)
               /\ dst' = Aligned(dstin, 64)
               /\ count' = Biased(dstend - dst') % Size
               /\ pc' = "zva64_loop"
               /\ UNCHANGED call

LongZva == /\ pc = "entry" /\ Memset /\ n > LargerThan /\ Zva
           /\ LET d == Aligned(dstin, 16)
              IN  EnterZva(Span(dstin, 16) \cup Span(d + 16, 48) \cup Span(dstend - 64, 64))

LongZvaSve ==
    /\ pc = "entry" /\ Sve /\ n > LargerThan /\ Zva
    /\ LET d == Aligned(dstin, 16)
           x8 == Aligned(dstend - 1, 16)
       IN  EnterZva(Stores(16, {dstin, d + 16, dstend - 16})
                      \cup Span(Aligned(dstin, 32) + 32, 32) \cup Span(x8 - 48, 48))

LongZvaTags == /\ pc = "entry" /\ Tagging /\ n > LargerThan /\ Zva
               /\ EnterZva(Span(dstin, 64))

\* The end of both loops: subs count, count, 64; b.hi.
UntilZero == IF Tagging THEN count # 64 ELSE count > 64
More == count > 64
Advance(again, then) == /\ dst' = (dst + 64) % Size
                        /\ count' = (count - 64) % Size
                        /\ pc' = IF More THEN again ELSE then
                        /\ UNCHANGED call

Zva64Loop == /\ pc = "zva64_loop"
             /\ Write(Block(dst + 64), 0)
             /\ Advance("zva64_loop", IF Tagging THEN "tail" ELSE "ret")

\* L(no_zva): the bytes d0 that the loop does not store to are left out of count.
EnterNoZva(S, d, d0) == /\ Fill(S)
                        /\ dst' = d
                        /\ count' = ((dstend - d) - (64 + d0)) % Size
                        /\ pc' = "no_zva_loop"
                        /\ UNCHANGED call

LongNoZva == /\ pc = "entry" /\ Memset /\ n > LargerThan /\ ~Zva
             /\ LET d == Aligned(dstin, 16)
                IN  EnterNoZva(Stores(16, {dstin, d + 16}), d, 32)

LongNoZvaSve == /\ pc = "entry" /\ Sve /\ n > LargerThan /\ ~Zva
                /\ EnterNoZva(Span(dstin, 16), Aligned(dstin, 16), 16)

LongNoZvaTags == /\ pc = "entry" /\ Tagging /\ n > LargerThan /\ ~Zva
                 /\ EnterNoZva({}, dstin - 32, 32)

\* Stores start after the bytes that were filled before the loop.
NoZvaLoop == /\ pc = "no_zva_loop"
             /\ Fill(Span(dst + (IF Sve THEN 16 ELSE 32), 64))
             /\ Advance("no_zva_loop", "tail")

Tail == /\ pc = "tail"
        /\ FillAndReturn(Span(dstend - 64, 64))

Next == \/ Set0to3 \/ Set4to15 \/ SetPredicated \/ Set16to64 \/ Set65to128
        \/ Tag48 \/ Tag96
        \/ LongZva \/ LongZvaSve \/ LongZvaTags \/ Zva64Loop
        \/ LongNoZva \/ LongNoZvaSve \/ LongNoZvaTags \/ NoZvaLoop \/ Tail

Spec == Init /\ [][Next]_vars /\ WF_vars(Next)

-----------------------------------------------------------------------------
Region == Span(dstin, n)

\* What is stored at an address of the region.
Value(a) == IF routine = "tag_region" THEN call.mem[a] ELSE IF Tagging THEN 0 ELSE FillByte

\* At ret the region has the byte or the tag, and nothing else has changed,
\* though the head, the blocks of the loop and the tail overlap, or would leave
\* a gap if one were misplaced.
EffectAtRet ==
    pc = "ret" =>
        /\ mem = [a \in DOMAIN call.mem |-> IF a \in Region THEN Value(a) ELSE call.mem[a]]
        /\ tags = [a \in DOMAIN call.mem |-> Tagging /\ a \in Region]

\* No store is outside the region; a block zeroed by dc zva is as long as the
\* processor says, and the loops go on for a whole number of blocks.
Footprint == wr \subseteq Region

-----------------------------------------------------------------------------
(* The inductive invariant.                                                *)

ValidCall(c) ==
    /\ c.routine \in {"memset", "memset_scalar", "memset_sve", "tag_region", "tag_zero_region"}
    /\ c.d \in Nat /\ c.n \in Nat /\ c.d + c.n <= Size
    /\ c.val \in Nat /\ c.dczid \in 0 .. 31
    /\ c.mem = [a \in DOMAIN c.mem |-> c.mem[a]]
    /\ c.routine \in {"tag_region", "tag_zero_region"} => c.d % 16 = 0 /\ c.n % 16 = 0

\* The addresses of S have been stored to, and none outside the region.
Filled(S) ==
    /\ mem = [a \in DOMAIN call.mem |-> mem[a]] /\ tags = [a \in DOMAIN call.mem |-> tags[a]]
    /\ \A a \in DOMAIN call.mem :
           /\ a \in S => mem[a] = Value(a) /\ tags[a] = Tagging
           /\ a \notin Region \/ routine = "tag_region" => mem[a] = call.mem[a]
           /\ a \notin Region \/ ~Tagging => tags[a] = FALSE

\* The loops store from Head on; what is stored before them at the end of the
\* region starts at TailStart.
Head == dst + (IF Zva THEN 64 ELSE IF Sve THEN 16 ELSE 32)
TailStart == IF ~Zva \/ Tagging THEN dstend
             ELSE IF Sve THEN Aligned(dstend - 1, 16) - 48 ELSE dstend - 64
SoFar == (dstin .. (Head - 1)) \cup (TailStart .. (dstend - 1))

EntryInv == pc = "entry" => Filled({})

\* In a loop, count is what remains but for a block, which the tail fills.
Looping == pc \in {"zva64_loop", "no_zva_loop"}
LoopInv == Looping => /\ pc = "zva64_loop" <=> Zva
                      /\ n > LargerThan
                      /\ dst \in Int /\ (Zva => dst % 64 = 0)
                      /\ dstin <= Head
                      /\ count = dstend - (Head + 64) /\ count > 0
                      /\ Filled(SoFar)

TailInv == pc = "tail" => /\ n > LargerThan
                          /\ dst \in Int
                          /\ Head \in (dstend - 64) .. dstend
                          /\ TailStart = dstend
                          /\ Filled(SoFar)

IInv == /\ ValidCall(call)
        /\ pc \in {"entry", "zva64_loop", "no_zva_loop", "tail", "ret"}
        /\ EntryInv /\ LoopInv /\ TailInv
        /\ Footprint /\ EffectAtRet

=============================================================================
