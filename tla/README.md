# Formal models of the Arm Optimized Routines

TLA+ models of routines of this repository, TLC configurations that check them
on small instances, and TLAPS proofs of what matters most for every size of
memory and every argument. Paths are relative to `src/`.

* [The system](#the-system): components, state, operations, what is hard
* [Plan](#plan): modules, their order, abstract specifications, theorems
* [Modules](#modules): how each corresponds to the code
* [Runs](#runs): what each shows, its bounds and why they are enough
* [Fairness, deadlock, and other assumptions](#assumptions)
* [Proofs](#proofs)
* [What is not modelled](#what-is-not-modelled)

## The system

The repository is a library of independent routines in four groups. No routine
keeps state between calls, starts a thread or calls back into its caller, so
there is no interleaving of processes, no crash and no message. What a routine
has is registers and the caller's memory, and a build has one routine of each
kind that the processor supports. The routines interact in two ways: an entry
point calls or falls into a helper (`memmove` and `memcpy` are one routine,
`arm_fp_ddiv` calls `__dunder`, `pow` calls `__math_oflow`), and the routines of
one group promise the same thing, so that they can replace one another.

What is hard is therefore inside a call: the order of loads and stores when
buffers overlap, loads of bytes outside of the caller's buffer that must not
fault, several registers that hold parts of one quantity, counters biased for a
loop, and arithmetic at the width of a register.

| component | state | operations | hard behaviours | what makes it correct |
|---|---|---|---|---|
| string/aarch64 copies: `memcpy.S` (memmove too), `memcpy-advsimd.S`, `memcpy-sve.S`, `*-mops.S` | pointers, bytes left, up to 64 bytes in flight in registers, memory | memcpy, memmove | overlapping buffers; loops that load the next block before they store the last; tails copied from the end, overlapping the loop | the destination holds the source's bytes at entry, nothing else changes, nothing outside the buffers is loaded or stored |
| string/aarch64 fills: `memset*.S`, `__mtag_*.S` | pointers, biased count, memory, tags | memset, tag a region | overlapping stores of head and tail; DC ZVA writes whole blocks | exactly the buffer is written |
| string/aarch64 searches by chunks: `strlen-mte.S`, `strnlen.S`, `memchr-mte.S`, `memrchr.S`, `strchr-mte.S`, `strchrnul-mte.S`, `strrchr-mte.S` | chunk address, vector of comparison results, syndrome, bytes left | one search each | bytes before the start in the first chunk, after the limit in the last; two byte orders; size near `SIZE_MAX`; memory tags | the C standard's result; every load is of a tag granule with a byte the routine may read |
| string/aarch64 searches by hunks and words: `strlen.S`, `memchr.S`, `memchr-scalar.S`, `strchr.S`, `strchrnul.S`, `strrchr.S` | two registers of data, syndrome of two bits a byte | one search each | the test of a word for NUL errs on some bytes; reads past the string up to the end of its page | as above, for pages |
| string/aarch64 comparisons: `memcmp.S`, `strcmp.S`, `strncmp.S` | two pointers, words of each, syndrome, limit | comparisons | mutually misaligned strings; pages; limits | sign of the first difference; no load past the chunk that decides |
| string/aarch64 string copies: `strcpy.S`, `stpcpy.S` | pointers, chunk, syndrome | strcpy, stpcpy | reads ahead, overlapping head and tail | the string with its NUL is copied and nothing else written |
| SVE versions of the above | predicates, first-fault register | the same | partial loads at a page end | the same |
| string/arm: 32-bit versions | registers | the same | shifts between misaligned words | the same |
| networking: `chksum.c`, `aarch64/chksum_simd.c`, `arm/chksum_simd.c`, `chksum_common.h` | pointer, bytes left, 64-bit accumulators in 1 to 9 lanes | Internet checksum | carries folded between widths; odd addresses; masked head and tail loads | the checksum of the test's reference; no carry lost |
| fp comparisons: `dcmp.h`, `fcmp.h` | registers, flags | comparisons | signed zeros, NaNs, infinities, negative order | IEEE 754's order, unordered on NaN |
| fp arithmetic: `faddsub.S`, `daddsub.S`, `fmul.S`, `dmul.S`, `fdiv.S`, `ddiv.S` | registers | add, subtract, multiply, divide | rounding and double rounding, cancellation, subnormals, overflow | the exact result rounded to nearest even |
| fp conversions: `f2d.S` ... `ul2f.S` | registers | conversions | range ends, rounding carries | as documented in fp/README.md |
| fp helpers: `dunder.c`, `funder.c`, `dnorm2.c`, `fnorm2.c`, `dnan2.c`, `fnan2.c` | none | called on the slow paths | rounding twice, NaN priority | as above |
| math, special cases | value, `errno`, exception flags | pow, exp, log, sin, ... | order of tests for zeros, infinities, NaNs, subnormals | C Annex F results, errno exactly on errors |
| math, approximation; vector math; tables | values | the same | error bounds | ULP bounds |
| tests, benchmarks, build files | | | | |

`PROJECT.json` lists each component with its sources, and under `hazards` the
places of the code where these difficulties bite.

## Plan

Routines are modelled at the granularity of the source's labels: the code from
one label (or loop entry) to the next branch is one action, whole. Abstract
specifications say what a kind of routine promises, and each routine is shown to
implement one.

1. **Copies** (done): `Memory`, `MemMove` (the contract), `MemcpyAArch64`, its
   proofs. It comes first because everything calls it, because overlap makes its
   loops subtle, and because it can be proved for every size.
2. **Checksums** (done): `Checksums`, the helpers and the three routines, and its
   proofs.
3. **Searches** (done): `Simd`, `Strings`, `Hunks`, `Search` (the contract), a
   module per routine, composed by `SearchChunks` and `SearchHunks`; proofs about
   `Simd`, about the routines by chunks and about those by hunks and words.
4. **Comparisons** (done): `Comparing`, `Memcmp`, `Strcmp`, `Strncmp`, composed by
   `Compares`, and proofs about all three; the contract is `Search`, for the byte at
   which two arguments differ or end.
5. **Fills and string copies** (done): `Fills`, `StrcpyAArch64`, composed by `Writes`,
   and proofs about both.
6. **fp** (done in part): `Fp`, against exact arithmetic in small formats.
7. **math, special cases** (done in part): `ExpLogMath`, `MathCalls`.
8. **Left**: the SVE and 32-bit Arm string routines and the variants of memcpy,
   against the same contracts; division and the arithmetic of doubles in fp;
   erf, cbrt and the gamma function in math.

Theorems worth proving, in order: the inductive invariant of memcpy and the
refinement of `MemMove` (done); the invariant of memset and of the tagging of
regions (done); the footprint of the checksums and that their accumulators never
wrap, for every radix and memory (done); the footprint of the routines by chunks and that they
implement `Search`, for every size of chunk (done); the effect and the footprint of
strcpy (done); the same of the routines by hunks and words as of those by chunks, for
every size of hunk, word and page (done); that memcmp,
strcmp and strncmp implement `Search`, for every length, alignment and limit (done).

## Modules

An operator that no other operator uses is a variant of the one after it, with the
kind of mistake that the property named beside it under `mutants` of `PROJECT.json`
must find.

### Copies

`Memory` has loads and stores of chunks and `Moved`, what memmove owes its
caller. `MemMove` is the contract, one step. `MemcpyAArch64` is
`string/aarch64/memcpy.S`: an action for each way through the code from the entry
for up to 128 bytes (`Copy0` ... `Copy97to128`, after the labels and the comment
of their sizes) and, for more, `CopyLong` and `CopyLongBackwards` (the code
before the loops), `Loop64` and `Loop64Backwards` (an iteration),
`Copy64FromEnd` and `Copy64FromStart` (the code after them) and
`CopyLongInPlace` (the early return when source and destination are equal).
The register pairs `A` to `D` hold chunks of 16 bytes; `rd` and `wr` are the
addresses the step loaded and stored, for the footprint.

### Checksums

`Checksums` has three parts. The first is `chksum_common.h`, `chksum.c` and the
reference `checksum_simple` of `networking/test/chksum.c`. A byte has `Radix` values; the integer types are 2,
4 and 8 bytes of it and wrap at that width, so with a small radix the carries
that take gigabytes to provoke with 256 occur in short buffers.
It also has the variables, which are those of a call of any of the three routines,
and `slurp_small`, which is how all of them sum words and the last bytes
(`SumWord`, `SumTail`; `__chksum` has a copy of that code at its end). The second
is the two SIMD versions, which share the alignment of the pointer and the loop
over groups of 64 bytes and differ after it (`Trailing` is AArch64's; `FoldGroups`,
`Sixteen`, `Narrow` and `Tail8` are Arm's). There is an action each for the code
before, in and after each loop. The third composes them and states their properties once.

### Searches

`Simd` has the A64 vector instructions the routines use: a vector is a function
from lanes to sets of bit numbers, so that a comparison's mask and a syndrome
are sets. `Strings` has the arguments and registers common to all, including
`big`, the byte order of the build. `W` is the number of bytes of a vector
register and of a tag granule, 16 in the architecture.

`Search` is the contract: bytes are looked at in order (memrchr's, downwards),
the one that settles the answer is not passed over, and the reply is what the C
standard says. Each routine's module has `Stop` (how many bytes precede the
settling one) and `Answer`, translated from the standard as the tests of
`string/test` do, `Passed` (what the state of the code knows to be settled) and
`Footprint`.

| module | source | unit of a load |
|---|---|---|
| `StrlenMte`, `Memrchr`, `StrrchrMte` | `strlen-mte.S`, `memrchr.S`, `strrchr-mte.S` | aligned chunks of `W` |
| `MemchrMte` | `memchr-mte.S` and `strnlen.S`, which looks for a NUL | the same |
| `StrchrMte` | `strchr-mte.S` and `strchrnul-mte.S` | the same |
| `MemchrAArch64`, `StrrchrAArch64` | `memchr.S`, `strrchr.S` over `Hunks` | aligned hunks of `2W` |
| `StrchrAArch64` | `strchr.S` and `strchrnul.S` over `Hunks` | the same |
| `StrlenAArch64` | `strlen.S` | words unless that crosses a page, then hunks |
| `MemchrScalar` | `memchr-scalar.S` | words |

`Simd` also has the arithmetic of words, as bytes for `strlen.S` and
`memchr-scalar.S` and as sets of bits for `strcmp.S` and `strncmp.S`: above all the
test for a NUL, `(X - 1) & ~(X | 0x7f)`, with the borrow that makes it err.

`SearchChunks` and `SearchHunks` are the entry points of
`string/include/stringlib.h` that belong to each group: a call is of one
routine, and the property is that the routine called implements `Search`.

### Comparisons

`Comparing` has what the three routines share: a call with its memory, the two
pointers, the addresses the last step loaded from each argument, the sign of a
result. They implement `Search` too: the byte looked for is the first at which
the arguments differ or end, and the answer is the sign of the difference.

`Memcmp` is `memcmp.S`. Its words are functions to bytes, since no branch depends
on single bits: `Less16`, `Less8`, `Less4` are the sizes below 16, `Entry16` the
code up to the choice of a loop, `Loop32` and `Loop32Second` the halves of one
loop, `LoopAlign`, `Loop64`, `Same64` and `Different` the other and its exits.
The branches on sizes are for words of 8 bytes, so those sizes are not
parameters.

`Comparing` also has the registers of the string comparisons as sets of bits,
`data1`, `data2` and `syndrome`, and the end that they share, which takes 8 bits
of each word from the first bit of the syndrome.
`Strcmp` and `Strncmp` have an action for each label of `strcmp.S` and
`strncmp.S`; steps A, B and C of the latter are named as in its comments. Where
the code differs between byte orders (`RevLE`, `RevBE`, `LS_FW`, `LS_BK`,
`FullCheckLE`, `FullCheckBE`, `Before`), both are there and `big` chooses.
`Compares` is a call of any of the three.

### Fills and string copies

`Fills` is `memset.S`, `memset-scalar.S`, `memset-sve.S` and the two routines of
`__mtag_*.S`, which are memset with tags for bytes and share its structure. An
action is the code for one class of sizes (`Set0to3` ... `Set65to128`,
`SetPredicated`, `Tag48`, `Tag96`), the code before a loop (`LongZva`,
`LongNoZva`, their versions for SVE and tags, `EnterZva`, `EnterNoZva`), an
iteration (`Zva64Loop`, `NoZvaLoop`) or the stores after it (`Tail`). `val` is
the whole argument, of which a byte is stored, `dczid` the register that says if
DC ZVA may be used and how large its blocks are, and `tags` the tags of granules
(for `__mtag_tag_zero_region`, beside the bytes, which it zeroes). `wr` is what
the step stored.

`StrcpyAArch64` is `strcpy.S` as it is built for strcpy and stpcpy, which differ
in the pointer returned. The comparison of a chunk with zero and its syndrome are
sets of lanes and bits, `vdata` the register with the chunk, in the byte order of the
build, `big`. A step of the loop stores the chunk before it loads the next one, so
`Loop` and `LoopHalf` load from the memory that they leave.

`Writes` is a call of any of them.

### fp

`Fp` has the comparisons of `at32/` and `armv6-m/` (`fcmp.h`, `dcmp.h` and the
`.S` files that include them with a mapping from flags to result), and of `at32/`
the addition, subtraction (also reversed), multiplication and the conversions of
singles from and to 32-bit integers, in the Arm state (the Thumb code has the
same instructions in an order of its own); and the helpers of `common/`. A format
is a parameter of the call: `E` bits of exponent and `M` of mantissa in a register
of `1 + E + M` bits, over which all the shifts, carries and wraps go. Actions are
the code between branches; `flags` are the flags that conditional instructions
see later. The exact results are integers scaled by the least exponent, and rounding
is half to even of that.

Two comments of `faddsub.S` do not describe its code, without consequence: line
547 says "shifting up by two bits" of an LSR, and lines 446-448 that Z is always
clear, which it is not for equal operands.

### math

`ExpLogMath` starts with operands (the bits that the code tests) and values (the kind,
sign and binary exponent, which is what the properties tell apart). The digits that a
polynomial computes are not followed, hence the modules have all the branches,
`errno`, table indexes, and what becomes of a number's sign and exponent, and none
of the approximation. The rest of `ExpLogMath` is exp, exp2, exp10, expm1, log, log2, log10,
log1p, exp2m1, exp10m1, log2p1, log10p1, pow and powr; `MathCalls` starts
with sin, cos, tan, the same of pi x, the inverses, of one operand or two, and the
hyperbolic functions and their inverses. In pow, the logarithm of x is a number of
steps of 1/128, rounded down (`Steps`), which the code computes from the word of x;
y times that says where the result overflows, underflows, or is 1. Each has the scalar
routine, the AdvSIMD one (`v_...`) and the SVE one (`sv_...`), in both formats where
the library has them.

The rest of `MathCalls` is a call: a scalar routine, or a vector one with an operand in each
lane and, for SVE, inactive lanes. Its actions are the main path of all lanes with
the test for special lanes, and the special case, which recomputes some lanes and
selects. What the results should be (`Right`) is stated from the operands alone, in
one formula per function and not per path.

## Runs

| run | what it checks | distinct states |
|---|---|---|
| `memcpy_aarch64` | `TypeOK`; `Footprint`; `MovedAtRet`; `IInv`, the inductive invariant of the proofs; `ImplementsMemMove`, the refinement with its liveness | 5 thousand |
| `checksums` | `CsumRight` against the reference; `Footprint`; `Assertions`, those of the code; `PartialSum`, at each label the sum so far is that of the bytes passed; `IInv`, the inductive invariant of the proofs; `NoWrap` | 120 thousand |
| `search_chunks`, `search_hunks` | `Implements`, refinement of `Search` with its liveness; `Footprint` by tag granules or pages; `IInv`, the inductive invariant of the proofs | 330 and 270 thousand |
| `compares` | `Implements`; `Footprint`: memcmp loads nothing outside of its buffers, strcmp and strncmp nothing beyond the granules of their strings; `IInv`, the inductive invariants of the proofs about the three | 320 thousand |
| `strncmp_huge_limit` | finds a violation of `ResultHasSign` (see [Findings](#findings)) | |
| `writes` | `EffectAtRet`: at ret every byte and tag of the region or the copy is right, and no other has changed; `Footprint`; `IInv`, the inductive invariant of the proofs; `Returns`, the loops end | 52 thousand |
| `fp` | `ComparesRight`, the order of IEEE 754, unordered on NaNs; `ArithmeticRight`, exact results rounded once, NaNs and infinities | 3.4 million |
| `math` | `TypeOK`; `ResultRight`, the kind, sign and size of every result; `LaneIndependent`, a lane's result does not depend on its neighbours; `TablesInBounds`, with the entry of the operand; of scalar routines `SignRight`, the sign of zeros and poles, and `ErrnoRight` | 920 thousand |
| `atan2pif_lanes`, `sve_pow_lanes`, `acosh_errno` | find violations of `LaneIndependent` (two) and of `ErrnoRight` (see [Findings](#findings)) | |

Bounds:

* `memcpy_aarch64`: every size from 0 to 128 (all branches without a loop, both
  sides of each comparison) with the buffers apart, shifted by less than their
  size either way, and equal; sizes from 129 to 257 that give each loop 0, 1 and
  2 iterations, with every kind of misalignment and the distances around 0, 16,
  64 and the size itself, where the choice of direction and the loads in flight
  matter. Each byte of memory is distinct. For everything else there is the
  proof.
* `checksums`: bytes of 8 values; six memories, of which two carry always, two
  hardly ever; all alignments; the thresholds of the code (300, 50, 40) and
  sizes on both sides of them, with 0, 1 and 2 rounds of the 64-byte loop and
  every remainder. More rounds repeat the same state of pointer and remainder.
* `search_chunks`: vectors of 4 bytes; a NUL or a match at any two of the places
  from before the string to the fourth chunk, so that each unrolled loop goes
  round; limits at, before and after chunk ends, and `SIZE_MAX`, with size_t
  arithmetic that wraps.
* `search_hunks`: the same with hunks of 8 bytes, words of 2 and pages of 16,
  neighbouring bytes 0 and 1 (where the test of a word errs), and starts at
  both sides of a page end.

* `compares`, memcmp: the sizes on both sides of each comparison with a size, and those with
  which each loop goes round 0, 1 and 2 times and hands over to the other; for the
  64-byte loop, three alignments of the second buffer. The first difference is at
  every place or nowhere, with later ones that point the other way.
* `compares`, strcmp and strncmp: words of 4 bytes, every alignment of both strings
  (of the second in pairs of words, for strncmp); strings of up to 9 (strcmp) or 14
  (strncmp) bytes, so that the loops go round twice with every alignment, in which
  the first difference is at every place in the longest and about the end in the
  others. Bytes are 1 and 128, on which the test for NUL errs, and 0, 2 and 255.
  Limits are those at the difference and the end, and large ones. A size_t has 512
  values, so that limits wrap as with 2^64; big-endian limits are below an eighth of
  that, 2^61, and the finding is about the others.
* `writes`: vectors and chunks of 16 bytes, as in the architecture. Regions of
  every size up to 18, and of those on both sides of each comparison and of each
  number of iterations of both loops, at alignments on both sides of 16, 32 and 64;
  `dczid` for blocks of 64 bytes, for the same but prohibited, and for 128; values
  0, another, and one whose low byte only is 0. Strings of every length up to 50
  and of those around the next two iterations, at all 16 alignments of the source
  and as many of the destination, with NULs before and after. The
  proofs have every other size, alignment, string and place in memory.
* `fp`: comparisons have 3 bits of exponent and 2 of mantissa, all pairs of words,
  with and without low words. Arithmetic and conversions have 5 and 5, the least
  with which the product of two subnormals stays in the range `__funder` is made
  for (`M <= 2^(E-3) + 1`) and a mantissa is longer than the bits below it in the
  register (`M + 1 > E`), as for singles: all pairs of mantissas, with the exponents
  of each way through the code; all words for the conversions. `__funder` and `__dunder`
  are also called for every result that underflows with 4 and 4 bits, first rounded
  from 3 more.
* `math`: for each function the words on both sides of every
  bound in the code, the ends of the format, infinities and NaNs, and operands of
  every quarter (large ones, sixteenth) of a turn or piece of an inverse. Vectors have
  two lanes, which is enough for one to be special beside one that is not, inactive
  or differently special: beside the lane with the operands there is 1, a NaN, minus
  infinity or the least subnormal (`Beside`; not the last for the pow of SVE, which
  `sve_pow_lanes` has). For pow and powr, all pairs of 15 magnitudes of x, around 1 and
  the ends of the format, and 28 (singles 26) of y: halves, odd and even numbers, those
  from which all are whole or even, and those at which the powers of 2 and of the
  extremes overflow, underflow or are 1. Operands are truncated to 16 bits where a reduction
  rounds them (`Nearest`), so none is within 1/128 of an octave of a bound for
  overflow; the low words of doubles are 0.

<a name="findings"></a>
### Findings

The big-endian `L(full_check)` of `strncmp.S` (line 106) asks if bit 63 of the limit
is set after 8 has been subtracted, to learn if the limit was reached in this word.
It is also set for limits of 2^63 + 8 or more. Such a limit then masks off the bytes
from `limit % 8` on, the last one if the limit is `SIZE_MAX` (strings that are
aligned alike, or step A), and two strings whose first difference is there compare
equal. `strncmp_huge_limit` shows it with the limit 511 of 512 values;
`test/strncmp.c` has no such limits. Line 297 has a similar overflow, of 8 times the
limit, for limits of 2^61 or more and strings not aligned alike: with 2^61 itself
(64 of 512 values, which the run has too) a difference in the first word compared
there gives 0. Little-endian builds have neither, and are in the passing run with
limits up to `SIZE_MAX`.

SVE `atan2pif` (`math/aarch64/sve/atan2pif.c:42`), when a lane is special, multiplies
the special lanes by 1/pi with `svmul_f32_x`, which leaves the others, that hold
their results, unspecified: a build may multiply them too. `sve/atan2pi.c` has
`svmul_f64_m` there. `atan2pif_lanes` shows an ordinary lane beside a NaN that is
divided by pi; the function is in no passing run.

SVE `pow` and `powf` (`math/aarch64/sve/pow.c:112`, `powf.c:98`) bring the words of
subnormal and zero x to a normal exponent with `svmul_m (x_is_subnormal, x, 0x1p52)`.
Inactive lanes of a merging multiplication keep its first operand, which is x, where
`vix` is meant: a lane with a negative x, whose sign line 102 (powf 83) has taken off
("ix set to abs(ix) if y is integer"), gets its sign back, and the logarithm counts it
into the exponent. So pow of -2 and 3 is -8 alone and -0 in a vector with a zero or a
subnormal x in another lane. `sve_pow_lanes` shows such a lane. `powr` has the same
line, without consequence: it has no negative x there.

`acosh` and `acoshf` of a number below 1 return a NaN and leave `errno` alone
(`math/aarch64/experimental/acosh_3u.c:52`), where `math/test/testcases/directed/acosh.tst`
expects EDOM. `acosh_errno` shows it.

Other scalar routines leave errno alone on some paths, of which nothing in the
repository says that they should not: log1pf of minus infinity; sinh, cosh and
coshf between the overflow and the bound of their special case; expm1 and expm1f
the same. `ErrnoRight` leaves these out (`MCQuiet` in `MCMath`); their values are checked.

<a name="assumptions"></a>
## Fairness, deadlock, and other assumptions

Each `Spec` of the string and networking routines has weak fairness of `Next`: the
thread that called a routine goes on executing it. Nothing else runs, so this is
what the processor does, and it is all that termination needs. A routine stops when
it has returned, hence `CHECK_DEADLOCK FALSE` in the configurations; that it does
return is checked by the liveness of the refinements and by `Returns`. The fp and
math routines have no loop, and no fairness.

Memory changes only by the routine's own stores. The networking code is modelled
in little-endian order, which its masks assume; the string routines in both.
The registers that `strrchr` uses before it has written them are 0 at the start
of a call: the code reads them only where their value has no effect. A call is
as the C standard allows it: strings are terminated, buffers lie in memory, and
the pointer plus the size may exceed the address space only where the standard
lets the routine stop early (memchr, strnlen). DC ZVA zeroes the aligned block
that holds its address, of the size that `dczid` says.

The math routines are those of a build with `WANT_ERRNO` and `WANT_ERRNO_UFLOW`,
with rounding to nearest. The reductions of angles are taken to be exact, and a
polynomial to be as accurate as it says: for the inverses of the trigonometric
functions, whose pieces are joined by adding constants, an increasing function with
the right ends stands for the polynomial. In vector routines the sign of a zero
is not checked.

## Proofs

### Copies

`MemcpyAArch64Proofs` starts with the facts about loads, stores and `Copied` that it
uses, and proves, for every size of address space, every initial memory and every
set of valid calls:

* `Invariance`: `Spec => []IInv`;
* `TypeCorrect`, `StaysInBuffers`, `Moves`: the type invariant, the footprint,
  and that at `ret` the destination holds the source's bytes at entry and nothing
  else has changed;
* `Implements`: every step is a step of `MemMove` or a stutter.

They assume that calls are valid (`CallsAssumption`: both buffers in the
address space), the memory's domain (`Mem0Assumption`) and that the address space is a
natural number.

The invariant to be proved, `MovedAtRet`, says nothing of the loops. `IInv` adds
what holds at each label: memory is the initial one with an interval of the
destination already copied (a prefix, going forward, or a suffix, backward), the
registers in flight hold bytes of the *initial* source, and the part of the
source not yet loaded is beyond the part of the destination already stored. The
last is where the overlap matters: forward copying is chosen when the
destination is below the source or at least `n` above it, and the proofs'
central step is that a store of 64 bytes at the destination pointer cannot reach
a byte that is still to be loaded. `ForwardStores` and `BackwardStores` have that
argument. Each action has a lemma `...Step` that it preserves `IInv`.

### Checksums

`ChecksumsProofs` proves of `Checksums`, for every number of values of a byte
(`Radix` > 1, 256 in the code), every memory and every call:

* `Invariance`: `Spec => []IInv`;
* `TypeCorrect`: registers keep to their widths and the pointer to its alignment;
* `ReadsOnlyWords`: no load leaves the aligned words that hold a byte of the buffer;
* `AssertionsHold`: what the code asserts of sums and lanes after folding;
* `NeverWraps`: no accumulator of 64 bits wraps.

The assumptions are that a byte has one of `Radix` values, that the buffer is in
memory and its size an unsigned int (`CallsAssumption`), and that the thresholds
are no smaller than the alignment they lead to (300, 50 and 40 in the code).

None of the four is inductive by itself. `ReadsOnlyWords` needs `Partition`, that
what has been passed and what is left make up the buffer at every label, and the
alignment of the pointer: the masked load of the last 1 to 7 bytes starts at an
aligned pointer inside the buffer and so ends with the word that holds the last byte
(`TailWord`). `NeverWraps` needs `Room`: a lane is worth at most two words for each
group passed, and a sum at most a word for each word passed, with the head counted
as words of its own. As there are fewer than 2^32 bytes, that many words stay below
2^64 (`LaneAdded`, `WordAdded`). `AssertionsHold` rests on `CarriedTwice`: a number
of two digits in base `w`, its carry added in twice, is one digit. It is used for 32
and for 16 bits by `fold_and_swap` and once more for the pairwise additions of
vector lanes. Each action has a lemma `...Safe` that it preserves `IInv` and lets
nothing wrap.

### Searches by chunks

`SearchChunksProofs` proves of `SearchChunks`, that is of strlen, strnlen, memchr,
memrchr, strchr, strchrnul and strrchr, for every size of chunk that is a multiple of
4, every memory, pointer, count and character, and both byte orders:

* `Invariance`: `Spec => []IInv`;
* `LoadsOnlyGranules`: no load is outside the granules of the string or the buffer,
  up to the byte that settles the answer;
* `StepsSearch`: `Spec => S!Init /\ [][S!Next]_(S!vars)`, every step is one of
  `Search` or a stutter, so that the result is what the C standard says.

The assumptions are those of the callers and the architecture. Memories are of whole
granules (`MemoriesAssumption`), addresses are numbers (`PointersAssumption`), a count
is a size_t (`CountsAssumption`), and from each pointer on there is a NUL and, if need
be beyond the buffer, each character (`EndsAssumption`: it gives the first match,
of which the counted searches take the lesser with the end of the buffer; by
`LoadsOnlyGranules` they do not look for it there).

`IInv` is the disjunction over the routines of an invariant in each one's module. It
says at each label which chunks are known to hold no match, which register holds
which chunk, and in which byte order. Three points make that more than bookkeeping.
memchr and strnlen count down in pairs of chunks and `cntrem` may wrap to the top of
a size_t: `Halves` says that it is what is left, or that and one chunk, so that its
sign and its bits tell the last chunk (`EvenChunks`, `OddChunks`). The two loops of
strrchr hand over to each other with a match that may be known only as a syndrome
and the address of its chunk: `Kept` is where it lies, and `LastMatch` that it
is the last so far. And the chunk a loop ends at has only been *loaded*: its match is
found after the loop, from the register, and `loop_end` finds what the test saw.

The rest is about syndromes. `SimdProofs` has what the vector instructions compute,
lane by lane and bit by bit: `shrn` leaves four bits a byte (`shrnBit`) or, under a
mask, two for each kind of match (`PairsFirst`, `PairsLast`), `addhn` and `umaxp`
say whether there are any (`NarrowEmpty`, `umaxpEmpty`), a shift by four times the
address drops the bytes before the string (`ShiftedHaving`, `ld1First`), and counting
the zeros at the top of a syndrome, or at the bottom with `rbit`, gives the lane of
the first or last match, whichever way round `ldr` and `ld1` fill a register in
either byte order (`ldrqFirst`, `ldrqLast`). In its second loop strrchr narrows the
syndrome by `umaxp`, which may mark the byte before a match as well but leaves which
is the last one (`KeptSyndrome`, `SmearLast`). For the chunk with the NUL it narrows
again by `addp`, which is right up to the NUL (`AddedSyndrome`), and subtracts 1 from
the NULs' bits, whose borrow runs up to the first of them, to keep the matches before
it (`UpToNul`). `Sum`, the addition of those bytes, has `Carry(k)`, the carry into a bit
by what the bits below it are, as a recursive definition is beyond the provers.

Each routine has a lemma `...Inv`, that each of its steps preserves its invariant,
and `...Passed` and `...Grows`, that what it has passed never exceeds the stop nor
shrinks, which is what a step of `Search` may do.

### Searches by hunks and words

`SearchHunksProofs` proves the same three theorems of `SearchHunks`, that is of memchr,
strchr, strchrnul and strrchr by hunks, of strlen by words and hunks, and of memchr by
words: `Invariance`, `LoadsOnlyGranules` and `StepsSearch`. They hold for every size of
hunk, word and page, every memory, pointer, count and character, and both byte orders.

The assumptions are again those of callers and architecture. Memories are of bytes,
of whole hunks, as pages are, and do not end at the last address of all
(`HunksAssumption`, `BytesAssumption`); a page is of whole hunks
(`MinPageSizeAssumption`); a count is a size_t (`CountsAssumption`); from each pointer on
there is each byte that may be looked for (`EndsAssumption`).

`IInv` has an invariant for each routine, for when it is the one called. What they have
to say beyond what has been passed over is this.

* The syndrome has two bits a byte, made by adding neighbours twice. Additions of masks
  carry as soon as two bits of the same weight meet; `AddedTwice` and `SyndromeBit`
  show that the masks of the code keep the fours of bits apart, so that it is the
  union, and `MergedMarks` and `MarksFirst` that its lowest bit is the first match. The
  tests of the loops add once only, of unmasked bytes: `SumFinds` and `AddedFinds`
  prove that they tell whether there is a match, and no more.
* memchr subtracts sizes of hunks from the count and goes by the borrow. In its last
  hunk it shifts out what is beyond the buffer by arithmetic on two remainders, of the
  pointer and the count; `UpAndDown`, `ModOfEnd` and `EndInHunk` show that it is the
  distance from the buffer's end to the hunk's.
* strrchr keeps a match as the syndrome and the end of its hunk, and looks at it once
  the NUL is found. `LatestBefore` is that it has the last match of all hunks passed,
  which a hunk without one must not disturb (`KeepLatest`), and of the hunk with the NUL
  only the matches up to it count (`UpToLowest`, `LatestAnswers`).
* The words' test for NUL, `(X - 1) & ~(X | 0x7f)`, errs on bytes 1 above a NUL, because
  the subtraction borrows. `WordFinds` is that it errs upwards only, so that its lowest
  mark is right, which is the first byte once a big-endian build has reversed the word.
  `TwoWordsFind` is about two words in a row.
* strlen reads by words from wherever the string starts unless 32 bytes from there may
  cross the smallest page. `IInv` has what each of its labels knows of that
  (`MayCross`); `HunkInPages` and `BytesInPage` then bound the loads by pages that
  the string reaches. From the page's end on it goes by hunks, with the minima of bytes
  (`MinimaAre`, `MinimaMark`, `FoundIs`), and `CrossFinds` shifts out the bytes before
  the string.

As above, each routine has its lemmas `...Inv`, `...Passed` and `...Grows`.

### Fills and string copies

`WritesProofs` proves of `Writes`, that is of memset (scalar, SIMD and SVE), of the
tagging of regions, and of strcpy and stpcpy:

* `Invariance`: `Spec => []IInv`;
* `MemoryAtRet`: at ret all of the region is set, or the string and its NUL copied,
  nothing else has changed, and stpcpy returns the address of the NUL;
* `StaysInside`: no store or zeroed block reaches beyond the region or the copy, and
  strcpy reads nothing but granules that hold a byte of the string.

They hold for every size of address space, region, string, alignment, value, initial
contents and `dczid`, and in both byte orders. The assumptions are of the caller: a
region lies in the address space, aligned to granules for tags
(`FillCallsAssumption`); a string ends within its memory, and the copy does not
overlap it (`StringCallsAssumption`), which `restrict` in the prototype says. That
vectors have 16 bytes (`VectorsAssumption`) is what the bits of `len` that strcpy
tests rest on.

`MemoryAtRet` says nothing of the loops. Of the fills, `IInv` says at each of their labels
what has been stored: all from the start of the region up to `Head`, where the
loop's next store begins, and all from `TailStart`, what the code before the loop
stored at the end; nothing outside the region has changed (`Filled`). The hard part
is the bias: `count` is not what is left, but what is left less the block that
`Tail` stores from the end, with another 64 taken off for the test at the loop's
bottom. `LoopInv` ties `count` to the pointer and the end of the region; from it
follow both that the loop leaves at most the tail's block (nothing is missed) and
that an iteration never begins with less than a block before the end (nothing is
overrun). The block of DC ZVA, `4 * 2^BS` bytes, is used when it is 64, which the
proofs need where a block must neither reach over the aligned pointer nor beyond the
end.

Of strcpy, `IInv` says that a chunk which is in `dataq` lies within the string, and
that all before it has been copied (`SoFar`, `InLoop`). Memory changes while the string
is still being looked at, hence `Kept`: as nothing has been stored outside the copy,
the chunks that the loop goes on to load are those of the call, and the first NUL in
them is where the string ends. `Advance` is the step that both halves of the loop
take, with `StoredQAdds`, that the lanes go back in the order they came in, whichever
that is. The chunk with the NUL is never stored as such. The last 16 bytes are copied
again from where the NUL is, which is right because the first chunk and one more have
been passed (`AtEnd`: the string has more than 16 bytes before that chunk) and because
`dst` is then one distance past the chunk whichever half of the loop found it. Without a
loop, two blocks of a size that the bits of `len` give cover the string between them
(`EndsOfStep`). Which lane the NUL is in is what `SimdProofs` says of syndromes
(`ld1First` for the first chunk, `QuadsFirst` for the others, `FoundMask` for the loop's
test). Each action has a lemma that it preserves `IInv`.

### Comparisons

`ComparesProofs` proves of `Compares`, so of memcmp, strcmp and strncmp, for arguments
of every length, contents and alignment, for every limit but those below, both byte
orders and, of strcmp and strncmp, every size of word:

* `Invariance`: `Spec => []IInv`;
* `ReadsOnlyArguments`: `Spec => []Footprint`;
* `StepsSearch`: `Spec => S!Init /\ [][S!Next]_(S!vars)`, every step is one of `Search`
  or a stutter: no difference and no end is passed over, and the result has the sign of
  the first.

The hypothesis `ValidCalls` is what the C standard and the machine say of a call. The
buffers of memcmp hold numbers. The memory of the others is of bytes and of whole
granules, and each string ends in it (`ValidStrings`); the addresses are below `SIZE_MAX`,
and so is 8 times the limit in a big-endian build (`ValidLimit`): beyond that the result
may be wrong (see [Findings](#findings)). In a little-endian build the limit is any
`size_t`. `IInv` has these as conjuncts, so that the run `compares` shows each call it
makes to be valid.

**memcmp.** What is left to compare is never in a register by itself: it is `limit` plus
32, plus 80 or plus nothing less the 16 or 32 bytes that the loads are ahead of the
pointers (`PlaceInv`), and the last 16 bytes are loaded from the end, whatever has been
compared (`SameInv` has that everything before them is the same). The first of two words
that differ decides because a word is a number whose most significant byte is that of
the lowest address, after `rev` in little-endian builds; of a load of 2 or 4 bytes that
is so at another place in each byte order (`MemcmpWordOrder`,
`MemcmpDifferenceDecides`). `MemcmpWordsDecide` is about the two words of every exit,
the second of which may overlap the first. At the exit of the loop of 64 bytes only
`tmp` knows where the difference is: `MemcmpDifferencesAre` shows that `umaxp`, and
`rev16` in big-endian builds, leave a mark for each word that differs, in the order of
addresses.

**Words as bytes.** strcmp and strncmp have words as sets of bits. `Bits(X, i)` are
those of the byte of a word at the i-th address, and the lemmas up to `AllCompared` say
what shifts, masks, `rev` and loads do to them in either byte order. The test for a NUL
marks the least significant one, and may take bytes of 1 that are more significant for
others. In a little-endian word those come after it in memory; in a big-endian one they
come before it, and the code repeats the test on the reversed word (`Nuls`). Either way
the first NUL is marked and nothing before it (`NulsFirst`). So of a syndrome only the
first mark is to be trusted, and what is proved of it is no more than that
(`FirstMark`): `EndQuick` takes the sign from the bytes there (`MarksOrder`).

**strcmp.** With strings aligned alike the first words are compared with the bytes
before the strings set to ones in both. Otherwise the loop compares a word of `src1`
with parts of two of `src2`, and does not load the second unless the first has no NUL
from the string on: that is the invariant of the loop (`PassedInv`), from which the
footprint follows, and at the tail the NUL that stopped it is in `data3`, with its bits
shifted to where the bytes of `src1` are (`TailInv`).

**strncmp.** The invariant ties the limit to the pointer at each label: it is what is
left of `n`, plus the bytes before an aligned pointer, or, where that would have
wrapped, less, but still beyond the byte that decides (`Leaves`). The loops subtract
before they test, so a limit that is used up wraps, and `Left` is what it was. At
`full_check` the words have whatever made the loop stop, be it a NUL, a difference or
the limit (`FullInv`); `syndrome_check` asks whether the first mark of the syndrome is
before the limit, and `SyndromeInv` is that if so it decides, and if not all up to the
limit is the same. The big-endian check cuts the words at the limit before it compares
them as numbers (`CutWords`, `BelowIs`). In the misaligned loop, `tmp1` and `tmp2` are
the two words of the second string that the next word of the first is compared with, in
turn the halves of one pair and the halves of two (`WordsInv`); step C loads the next
pair only with more than `N - Into2` bytes of the limit left, so that there is a byte in
it to be read.

**The contract.** `Alike(k)`, that the first `k` bytes are the same and not NUL, is what
the invariant says of the progress at each label, and progress only grows
(`StrcmpGrows`, `StrncmpGrows`), so that each step looks at more bytes, replies or is
not seen by `Search`.

### What is only checked

Termination (the liveness of the refinement, `Returns`) is checked by TLC only. So
are fp and math, whose operators on bits are beyond the
provers. Of the checksums, `CsumRight` and `PartialSum` are
checked only: the reference sum is defined by recursion over the buffer, which the
provers cannot do induction on.

## What is not modelled

See `components` in `PROJECT.json`, with a reason for each.

* string: the SVE and 32-bit Arm routines, `memcpy-advsimd.S`, `memcpy-sve.S` and the
  MOPS variants, whose loop is one instruction of the processor.
* fp: division (its approximation is for a fixed width, and the repository proves that
  of doubles with Gappa), the arithmetic and most conversions of doubles, the
  arithmetic of armv6-m, the Thumb order of instructions.
* math: approximation (polynomials in floating point against real functions) is out
  of reach of both tools, and with it the exception flags that rounding raises; the
  reductions of large angles; `erf`, `cbrt`, the gamma function and the inverse
  of erf; the experimental `powi` and the `_umax` routines.
* Data tables, tools, tests and benchmarks have no behaviour of their own.
