---------------------------- MODULE MemcpyAArch64 ----------------------------
(***************************************************************************)
(* string/aarch64/memcpy.S: __memcpy_aarch64, also entered as              *)
(* __memmove_aarch64, so its buffers may overlap in any way.  Each branch  *)
(* of the routine that runs to a ret without a loop is one action; of the  *)
(* large copies, the code before the loop, one iteration and the tail are  *)
(* an action each.  Within an action the loads and stores are taken in the *)
(* order of the code, because a load that follows a store to the same      *)
(* bytes sees what was stored.                                             *)
(***************************************************************************)
EXTENDS Memory

CONSTANTS AddrSpace,   \* number of addresses; 2^64 in the code
          Mem0,        \* the memory when the routine is entered
          Calls        \* the calls considered: dstin, src and count

Addr == 0 .. (AddrSpace - 1)

\* The caller's buffers lie in the address space and do not wrap around it.
ValidCall(c) == /\ c.d \in Addr /\ c.s \in Addr /\ c.n \in Nat
                /\ c.d + c.n <= AddrSpace
                /\ c.s + c.n <= AddrSpace

ASSUME AddrSpaceAssumption == AddrSpace \in Nat /\ AddrSpace % 16 = 0
ASSUME Mem0Assumption == Mem0 = [a \in Addr |-> Mem0[a]]
ASSUME CallsAssumption == \A c \in Calls : ValidCall(c) /\ c = [d |-> c.d, s |-> c.s, n |-> c.n]

VARIABLES
    call,                               \* dstin, src and count at entry
    pc,                                 \* the label control is at
    mem,                                \* the memory
    src, dst, srcend, dstend, count,    \* the registers of these names
    A, B, C, D,                         \* register pairs of 16 bytes
    rd, wr                              \* addresses the last step loaded, stored

ptrs == <<src, dst, srcend, dstend, count>>
pairs == <<A, B, C, D>>
vars == <<call, pc, mem, src, dst, srcend, dstend, count, A, B, C, D, rd, wr>>

dstin == call.d

Zeros == [i \in 0 .. 15 |-> 0]

Init ==
    /\ call \in Calls
    /\ pc = "entry"
    /\ mem = Mem0
    /\ src = call.s
    /\ srcend = call.s + call.n
    /\ dst = call.d
    /\ dstend = call.d + call.n
    /\ count = call.n
    /\ A = Zeros /\ B = Zeros /\ C = Zeros /\ D = Zeros
    /\ rd = {} /\ wr = {}

\* Is bit i of count set (tbz count, i)?
Bit(i) == (count \div (2 ^ i)) % 2 = 1

\* Memory m after block b = <<to, from, w>> is stored, loaded beforehand.
Block(m, b) == Put(m, b[1], mem, b[2], b[3])

\* A branch that loads all its blocks, then stores them giving memory m, then
\* returns.
Finish(m, blocks) ==
    /\ mem' = m
    /\ rd' = UNION {Span(b[2], b[3]) : b \in blocks}
    /\ wr' = UNION {Span(b[1], b[3]) : b \in blocks}
    /\ pc' = "ret"
    /\ UNCHANGED <<call, ptrs, pairs>>

\* w bytes at the start and w bytes at the end; they overlap when count < 2w.
HeadAndTail(w) ==
    LET head == <<dstin, src, w>>
        tail == <<dstend - w, srcend - w, w>>
    IN  Finish(Block(Block(mem, head), tail), {head, tail})

Copy0 == /\ pc = "entry" /\ count = 0
         /\ Finish(mem, {})

\* lsr tmp1, count, 1
HalfRoundedUp(n) == (n + 1) \div 2
Half(n) == n \div 2

\* L(copy4): 1 .. 3 bytes, the first, the middle and the last.
Copy1to3 ==
    /\ pc = "entry" /\ count < 16 /\ ~Bit(3) /\ ~Bit(2) /\ count # 0
    /\ LET half == Half(count)
           b1 == <<dstin, src, 1>>
           b2 == <<dstin + half, src + half, 1>>
           b3 == <<dstend - 1, srcend - 1, 1>>
       IN  Finish(Block(Block(Block(mem, b1), b2), b3), {b1, b2, b3})

Copy4to7 == /\ pc = "entry" /\ count < 16 /\ ~Bit(3) /\ Bit(2)
            /\ HeadAndTail(4)

Copy8to15 == /\ pc = "entry" /\ count < 16 /\ Bit(3)
             /\ HeadAndTail(8)

Copy16to32 == /\ pc = "entry" /\ 16 <= count /\ count <= 32
              /\ HeadAndTail(16)

\* The blocks of 16 bytes at distance i from the start and from the end.
FromStart(i) == <<dstin + i, src + i, 16>>
FromEnd(i) == <<dstend - i, srcend - i, 16>>

Copy33to64 ==
    /\ pc = "entry" /\ 32 < count /\ count <= 64
    /\ Finish(Block(Block(Block(Block(mem, FromStart(0)), FromStart(16)),
                          FromEnd(32)), FromEnd(16)),
              {FromStart(0), FromStart(16), FromEnd(32), FromEnd(16)})

\* L(copy128); memory m is what L(copy96) starts storing into.
Copy96(m, more) ==
    Finish(Block(Block(Block(Block(Block(Block(m,
               FromStart(0)), FromStart(16)), FromStart(32)), FromStart(48)),
               FromEnd(32)), FromEnd(16)),
           more \cup {FromStart(0), FromStart(16), FromStart(32), FromStart(48),
                      FromEnd(32), FromEnd(16)})

Copy65to96 == /\ pc = "entry" /\ 64 < count /\ count <= 96
              /\ Copy96(mem, {})

Copy97to128 == /\ pc = "entry" /\ 96 < count /\ count <= 128
               /\ Copy96(Block(Block(mem, FromEnd(64)), FromEnd(48)),
                         {FromEnd(64), FromEnd(48)})

\* sub tmp1, dstin, src; cmp tmp1, count: does dstin lie in the source, so
\* that a forward copy would overwrite bytes it has yet to load?
DistanceSigned == dstin - src
Distance == (dstin - src) % AddrSpace

\* How far an address is above a multiple of 16 (and tmp1, x, 15).
MisalignedBy8(x) == x % 8
Misaligned(x) == x % 16

\* The bytes the loops leave to the code after them: going forward, 64 to be
\* stored from the registers, 64 from the end and the 16 of the first pair.
ForwardTailNotReadjusted(tmp1) == 128
ForwardTail(tmp1) == 128 + 16 - tmp1
BackwardTailTmpAdded(tmp1) == 128 - tmp1
BackwardTail(tmp1) == 128 + tmp1

Ld(m, a) == Load(m, a, 16)
St(m, a, v) == Store(m, a, 16, v)

\* L(copy_long) with dstin = src: nothing to copy.
CopyLongInPlace ==
    /\ pc = "entry" /\ count > 128 /\ Distance = 0
    /\ Finish(mem, {})

\* L(copy_long) up to the loop: 16 bytes are copied, dst is aligned down, and
\* the next 64 bytes of the source are in A, B, C and D.
CopyLong ==
    /\ pc = "entry" /\ count > 128 /\ Distance # 0 /\ Distance >= count
    /\ LET tmp1 == Misaligned(dstin)
           s == src - tmp1
           m1 == St(mem, dstin, Ld(mem, src))
       IN  /\ A' = Ld(mem, s + 16)
           /\ mem' = m1
           /\ B' = Ld(m1, s + 32)
           /\ C' = Ld(m1, s + 48)
           /\ D' = Ld(m1, s + 64)
           /\ src' = s + 64
           /\ dst' = dstin - tmp1
           /\ count' = count - ForwardTail(tmp1)
           /\ rd' = Span(src, 16) \cup Span(s + 16, 64)
           /\ wr' = Span(dstin, 16)
           /\ pc' = IF count > ForwardTail(tmp1) THEN "loop64" ELSE "copy64_from_end"
    /\ UNCHANGED <<call, srcend, dstend>>

Loop64 ==
    /\ pc = "loop64"
    /\ LET m1 == St(mem, dst + 16, A)
           m2 == St(m1, dst + 32, B)
           m3 == St(m2, dst + 48, C)
           m4 == St(m3, dst + 64, D)
       IN  /\ A' = Ld(m1, src + 16)
           /\ B' = Ld(m2, src + 32)
           /\ C' = Ld(m3, src + 48)
           /\ D' = Ld(m4, src + 64)
           /\ mem' = m4
    /\ src' = src + 64
    /\ dst' = dst + 64
    /\ count' = count - 64
    /\ rd' = Span(src + 16, 64)
    /\ wr' = Span(dst + 16, 64)
    /\ pc' = IF count > 64 THEN "loop64" ELSE "copy64_from_end"
    /\ UNCHANGED <<call, srcend, dstend>>

\* The last 64 bytes in the registers are stored, and 64 bytes from the end
\* are copied, whatever remains to be copied.
Copy64FromEnd ==
    /\ pc = "copy64_from_end"
    /\ LET e == Ld(mem, srcend - 64)
           m1 == St(mem, dst + 16, A)
           a == Ld(m1, srcend - 48)
           m2 == St(m1, dst + 32, B)
           b == Ld(m2, srcend - 32)
           m3 == St(m2, dst + 48, C)
           c == Ld(m3, srcend - 16)
           m4 == St(m3, dst + 64, D)
       IN  mem' = St(St(St(St(m4, dstend - 64, e), dstend - 48, a),
                        dstend - 32, b), dstend - 16, c)
    /\ rd' = Span(srcend - 64, 64)
    /\ wr' = Span(dst + 16, 64) \cup Span(dstend - 64, 64)
    /\ pc' = "ret"
    /\ UNCHANGED <<call, ptrs, pairs>>

\* L(copy_long_backwards) up to its loop, the mirror image of CopyLong.
CopyLongBackwards ==
    /\ pc = "entry" /\ count > 128 /\ Distance # 0 /\ Distance < count
    /\ LET tmp1 == Misaligned(dstend)
           s == srcend - tmp1
           m1 == St(mem, dstend - 16, Ld(mem, srcend - 16))
       IN  /\ A' = Ld(mem, s - 16)
           /\ mem' = m1
           /\ B' = Ld(m1, s - 32)
           /\ C' = Ld(m1, s - 48)
           /\ D' = Ld(m1, s - 64)
           /\ srcend' = s - 64
           /\ dstend' = dstend - tmp1
           /\ count' = count - BackwardTail(tmp1)
           /\ rd' = Span(srcend - 16, 16) \cup Span(s - 64, 64)
           /\ wr' = Span(dstend - 16, 16)
           /\ pc' = IF count > BackwardTail(tmp1) THEN "loop64_backwards"
                                                 ELSE "copy64_from_start"
    /\ UNCHANGED <<call, src, dst>>

Loop64Backwards ==
    /\ pc = "loop64_backwards"
    /\ LET m1 == St(mem, dstend - 16, A)
           m2 == St(m1, dstend - 32, B)
           m3 == St(m2, dstend - 48, C)
           m4 == St(m3, dstend - 64, D)
       IN  /\ A' = Ld(m1, srcend - 16)
           /\ B' = Ld(m2, srcend - 32)
           /\ C' = Ld(m3, srcend - 48)
           /\ D' = Ld(m4, srcend - 64)
           /\ mem' = m4
    /\ srcend' = srcend - 64
    /\ dstend' = dstend - 64
    /\ count' = count - 64
    /\ rd' = Span(srcend - 64, 64)
    /\ wr' = Span(dstend - 64, 64)
    /\ pc' = IF count > 64 THEN "loop64_backwards" ELSE "copy64_from_start"
    /\ UNCHANGED <<call, src, dst>>

Copy64FromStart ==
    /\ pc = "copy64_from_start"
    /\ LET g == Ld(mem, src + 48)
           m1 == St(mem, dstend - 16, A)
           a == Ld(m1, src + 32)
           m2 == St(m1, dstend - 32, B)
           b == Ld(m2, src + 16)
           m3 == St(m2, dstend - 48, C)
           c == Ld(m3, src)
           m4 == St(m3, dstend - 64, D)
       IN  mem' = St(St(St(St(m4, dstin + 48, g), dstin + 32, a),
                        dstin + 16, b), dstin, c)
    /\ rd' = Span(src, 64)
    /\ wr' = Span(dstend - 64, 64) \cup Span(dstin, 64)
    /\ pc' = "ret"
    /\ UNCHANGED <<call, ptrs, pairs>>

Next ==
    \/ Copy0 \/ Copy1to3 \/ Copy4to7 \/ Copy8to15 \/ Copy16to32
    \/ Copy33to64 \/ Copy65to96 \/ Copy97to128
    \/ CopyLongInPlace \/ CopyLong \/ Loop64 \/ Copy64FromEnd
    \/ CopyLongBackwards \/ Loop64Backwards \/ Copy64FromStart

Spec == Init /\ [][Next]_vars /\ WF_vars(Next)

-----------------------------------------------------------------------------
(* Properties. *)

\* The registers hold 16-byte chunks and control is at a label of the code;
\* the loops keep dst (dstend, going backwards) 16-byte aligned, which is what
\* the code before them is for.
TypeOK ==
    /\ call \in Calls
    /\ pc \in {"entry", "loop64", "copy64_from_end",
               "loop64_backwards", "copy64_from_start", "ret"}
    /\ DOMAIN mem = Addr
    /\ \A q \in {A, B, C, D} : DOMAIN q = 0 .. 15
    /\ pc \in {"loop64", "copy64_from_end"} => dst % 16 = 0
    /\ pc \in {"loop64_backwards", "copy64_from_start"} => dstend % 16 = 0

\* The routine loads only bytes of the source and stores only bytes of the
\* destination, even though its large copies run 64 bytes ahead and always
\* finish with 64 bytes: at the edge of a page an access outside would fault.
Footprint == /\ rd \subseteq Span(call.s, call.n)
             /\ wr \subseteq Span(call.d, call.n)

\* Where the routine returns, the destination holds the bytes the source had
\* at entry and no other byte has changed, however the buffers overlap.
MovedAtRet == pc = "ret" => mem = Moved(Mem0, call.d, call.s, call.n)

\* On entry the pointers and the memory are the caller's.
EntryInv ==
    pc = "entry" =>
        /\ mem = Mem0
        /\ src = call.s /\ srcend = call.s + call.n
        /\ dst = call.d /\ dstend = call.d + call.n
        /\ count = call.n

\* The registers hold the 64 bytes that were at address a on entry, in the
\* order w, x, y, z.
Pending(a, w, x, y, z) ==
    /\ w = Ld(Mem0, a) /\ x = Ld(Mem0, a + 16)
    /\ y = Ld(Mem0, a + 32) /\ z = Ld(Mem0, a + 48)

\* The bytes stored by a copy that has come forward to dst, and by one that
\* has come backwards to dstend; 16 bytes are stored before aligning.
StoredForward == IF dst <= dstin THEN Span(dstin, 16)
                                 ELSE dstin .. (dst + 15)
StoredBackward == IF dstend + 16 > dstin + call.n
                     THEN Span(dstin + call.n - 16, 16)
                     ELSE dstend .. (dstin + call.n - 1)

\* Copying forward never overwrites a source byte still to be loaded: what is
\* stored so far is right, the next 64 bytes are in the registers as they were
\* on entry, and the 64-byte tail covers what the loop leaves over.
ForwardInv ==
    pc \in {"loop64", "copy64_from_end"} =>
        /\ call.n > 128
        /\ call.d < call.s \/ call.s + call.n <= call.d
        /\ srcend = call.s + call.n /\ dstend = call.d + call.n
        /\ dst \in Int /\ dst + 16 > dstin /\ dst % 16 = 0
        /\ dst <= dstin \/ dst >= dstin + 49
        /\ src = call.s + (dst - dstin) + 64
        /\ count = call.n - (dst - dstin) - 144
        /\ IF pc = "loop64" THEN count > 0 ELSE -64 < count /\ count <= 0
        /\ Pending(src - 48, A, B, C, D)
        /\ mem = Copied(Mem0, call.s - dstin, StoredForward)

\* The same of a copy that goes backwards because dstin lies in the source.
BackwardInv ==
    pc \in {"loop64_backwards", "copy64_from_start"} =>
        /\ call.n > 128
        /\ call.s < call.d /\ call.d < call.s + call.n
        /\ src = call.s
        /\ dstend \in Int /\ dstend <= dstin + call.n /\ dstend % 16 = 0
        /\ dstend + 16 > dstin + call.n \/ dstend + 64 <= dstin + call.n
        /\ srcend = call.s + (dstend - dstin) - 64
        /\ count = (dstend - dstin) - 128
        /\ IF pc = "loop64_backwards" THEN count > 0 ELSE -64 < count /\ count <= 0
        /\ Pending(srcend, D, C, B, A)
        /\ mem = Copied(Mem0, call.s - dstin, StoredBackward)

\* The inductive invariant.
IInv == TypeOK /\ Footprint /\ EntryInv /\ ForwardInv /\ BackwardInv /\ MovedAtRet

\* The routine implements the contract of memmove: the stores of a copy in
\* progress are invisible to a caller, who sees them all at ret.
Contract == INSTANCE MemMove WITH
                mem <- IF pc = "ret" THEN mem ELSE Mem0,
                done <- pc = "ret"
ImplementsMemMove == Contract!Spec

=============================================================================
