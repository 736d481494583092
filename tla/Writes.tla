--------------------------------- MODULE Writes ---------------------------------
(***************************************************************************)
(* The routines of string/include/stringlib.h that fill a region or copy a *)
(* string: memory changes step by step, with stores that overlap and loads *)
(* beyond the string, and is at ret what the C standard says.              *)
(***************************************************************************)
EXTENDS Simd

CONSTANTS Size,         \* the number of values of a size_t, and of addresses
          FillCalls,    \* the calls of memset and of the routines that tag
          StringCalls   \* the calls of strcpy and stpcpy

VARIABLES call, pc, mem, dst, wr,
          tags, count,                          \* of the fills
          src, tmp, len, vdata, rd, result      \* of strcpy

vars == <<call, pc, mem, dst, wr, tags, count, src, tmp, len, vdata, rd, result>>

fills == INSTANCE Fills WITH Calls <- FillCalls
strcpy == INSTANCE StrcpyAArch64 WITH Calls <- StringCalls

\* The code is for vectors of 16 bytes.
ASSUME VectorsAssumption == W = 16
ASSUME SizeAssumption == Size \in Nat
ASSUME FillCallsAssumption == \A c \in FillCalls : fills!ValidCall(c)
ASSUME StringCallsAssumption == \A c \in StringCalls : strcpy!ValidCall(c)

Copying == call.routine \in {"strcpy", "stpcpy"}
ofFills == <<tags, count>>
ofStrcpy == <<src, tmp, len, vdata, rd, result>>

Init == \/ fills!Init /\ src = 0 /\ tmp = 0 /\ len = 0 /\ vdata = <<>> /\ rd = {} /\ result = 0
        \/ strcpy!Init /\ tags = <<>> /\ count = 0

FillStep == ~Copying /\ fills!Next /\ UNCHANGED ofStrcpy
StrcpyStep == Copying /\ strcpy!Next /\ UNCHANGED ofFills

Next == FillStep \/ StrcpyStep

\* A thread that has called a routine goes on executing it.
Spec == Init /\ [][Next]_vars /\ WF_vars(Next)

-----------------------------------------------------------------------------
\* Every byte and tag of the region or of the copy, and no other, is right at
\* ret, for every alignment of the pointers and for the sizes at which the code
\* branches; and so is what the routine returns.
EffectAtRet == IF Copying THEN pc = "ret" => strcpy!Effect ELSE fills!EffectAtRet

\* What the loops rely on: of the fills, that count is what is left but for the block
\* that the tail fills, and that all before the loop's next store has been stored;
\* of strcpy, that all before the chunk in dataq has been copied.
IInv == IF Copying THEN strcpy!IInv ELSE fills!IInv

\* Meanwhile nothing is stored outside the region or the copy, and nothing read
\* from a granule without a byte of the string.
Footprint == IF Copying THEN strcpy!Footprint ELSE fills!Footprint

\* The loops end: what their counter is biased by does not let it wrap past the
\* end, and the NUL is not missed.
Returns == <>(pc = "ret")

=============================================================================
