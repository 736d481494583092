------------------------------ MODULE WritesProofs -----------------------------
(***************************************************************************)
(* Proofs about Writes for every size of address space, memory and valid   *)
(* set of calls: the fills first, then strcpy.                             *)
(***************************************************************************)
EXTENDS Writes, SimdProofs

-----------------------------------------------------------------------------
\* A call's arguments do not change.
LEMMA SameCall ==
    ASSUME UNCHANGED call
    PROVE  /\ fills!routine' = fills!routine /\ fills!dstin' = fills!dstin
           /\ fills!n' = fills!n /\ fills!dstend' = fills!dstend
           /\ fills!Region' = fills!Region /\ fills!FillByte' = fills!FillByte
           /\ fills!LargerThan' = fills!LargerThan
           /\ (fills!Tagging' <=> fills!Tagging) /\ (fills!Sve' <=> fills!Sve)
           /\ (fills!Zva' <=> fills!Zva)
           /\ fills!TailStart' = fills!TailStart
BY DEF fills!routine, fills!dstin, fills!n, fills!dstend, fills!Region, fills!FillByte,
       fills!LargerThan, fills!Tagging, fills!Sve, fills!Zva, fills!FromZva, fills!TailStart

\* The arguments are numbers.
LEMMA CallFacts ==
    ASSUME fills!ValidCall(call)
    PROVE  /\ fills!dstin \in Nat /\ fills!n \in Nat /\ fills!dstend = fills!dstin + fills!n
           /\ fills!dstend <= Size
           /\ fills!dstend \in Nat
           /\ fills!Region = fills!dstin .. (fills!dstend - 1)
           /\ (fills!Tagging => fills!dstin % 16 = 0 /\ fills!n % 16 = 0)
BY DEF fills!ValidCall, fills!dstend, fills!dstin, fills!n, fills!Region, fills!Span,
       fills!Tagging, fills!routine

\* A step that stores within the region adds to what has been stored.
LEMMA WriteStep ==
    ASSUME NEW S, NEW T, fills!Filled(S), T \subseteq fills!Region, UNCHANGED call,
           fills!Write(T, IF fills!Tagging THEN 0 ELSE fills!FillByte)
    PROVE  fills!Filled(S \cup T)' /\ fills!Footprint'
<1>1. /\ fills!Region' = fills!Region /\ (fills!Tagging' <=> fills!Tagging)
      /\ fills!FillByte' = fills!FillByte /\ fills!routine' = fills!routine
  BY SameCall
<1>2. fills!Footprint'
  BY <1>1 DEF fills!Footprint, fills!Write
<1>3. DOMAIN mem = DOMAIN call.mem /\ DOMAIN tags = DOMAIN call.mem
  BY DEF fills!Filled
<1>4. /\ tags' = [a \in DOMAIN call.mem |-> tags'[a]]
      /\ mem' = [a \in DOMAIN call.mem |-> mem'[a]]
  BY <1>3 DEF fills!Write, fills!Filled
<1>5. ASSUME NEW a \in DOMAIN call.mem
      PROVE  /\ a \in S \cup T => mem'[a] = fills!Value(a) /\ tags'[a] = fills!Tagging
             /\ a \notin fills!Region \/ fills!routine = "tag_region" => mem'[a] = call.mem[a]
             /\ a \notin fills!Region \/ ~fills!Tagging => tags'[a] = FALSE
  <2>1. mem'[a] = IF fills!routine # "tag_region" /\ a \in T
                  THEN IF fills!Tagging THEN 0 ELSE fills!FillByte
                  ELSE mem[a]
    BY <1>3 DEF fills!Write
  <2>2. tags'[a] = IF fills!Tagging THEN tags[a] \/ a \in T ELSE tags[a]
    BY <1>3 DEF fills!Write
  <2>3. /\ a \in S => mem[a] = fills!Value(a) /\ tags[a] = fills!Tagging
        /\ a \notin fills!Region \/ fills!routine = "tag_region" => mem[a] = call.mem[a]
        /\ a \notin fills!Region \/ ~fills!Tagging => tags[a] = FALSE
    BY DEF fills!Filled
  <2>4. a \in S \cup T => mem'[a] = fills!Value(a)
    BY <2>1, <2>3 DEF fills!Value
  <2>5. a \in S \cup T => tags'[a] = fills!Tagging
    <3>1. fills!Tagging \in BOOLEAN
      BY DEF fills!Tagging
    <3>2. CASE fills!Tagging
      <4>1. fills!Tagging = TRUE
        BY <3>1, <3>2
      <4>2. a \in S => tags[a] = TRUE
        BY <2>3, <4>1
      <4>3. a \in S \cup T => (tags[a] \/ a \in T) = TRUE
        BY <4>2
      <4>. QED
        BY <2>2, <3>2, <4>1, <4>3
    <3>3. CASE ~fills!Tagging
      <4>1. fills!Tagging = FALSE
        BY <3>1, <3>3
      <4>. QED
        BY <2>2, <2>3, <3>3, <4>1
    <3>. QED
      BY <3>2, <3>3
  <2>. QED
    BY <2>1, <2>2, <2>3, <2>4, <2>5
<1>6. \A a : fills!Value(a)' = fills!Value(a)
  BY <1>1 DEF fills!Value
<1>. QED
  BY <1>1, <1>2, <1>4, <1>5, <1>6 DEF fills!Filled

\* At entry nothing has been stored.
LEMMA FillsInitIInv ==
    ASSUME fills!Init
    PROVE  fills!IInv
<1>1. fills!ValidCall(call)
  BY FillCallsAssumption DEF fills!Init
<1>2. call.mem = [a \in DOMAIN call.mem |-> call.mem[a]]
  BY <1>1 DEF fills!ValidCall
<1>3. fills!Filled({})
  BY <1>2 DEF fills!Init, fills!Filled
<1>4. fills!Footprint
  BY DEF fills!Init, fills!Footprint
<1>. QED
  BY <1>1, <1>3, <1>4 DEF fills!IInv, fills!EntryInv, fills!LoopInv, fills!Looping,
                          fills!TailInv, fills!EffectAtRet, fills!Init

\* A routine may return when it has stored to the whole region.
LEMMA ReturnStep ==
    ASSUME fills!IInv, UNCHANGED call, pc' = "ret", fills!Footprint',
           NEW S, fills!Filled(S)', fills!Region \subseteq S
    PROVE  fills!IInv'
<1>1. fills!Region' = fills!Region /\ (fills!Tagging' <=> fills!Tagging)
  BY SameCall
<1>2. /\ mem' = [a \in DOMAIN call.mem |-> mem'[a]]
      /\ tags' = [a \in DOMAIN call.mem |-> tags'[a]]
  BY DEF fills!Filled
<1>3. ASSUME NEW a \in DOMAIN call.mem
      PROVE  mem'[a] = IF a \in fills!Region THEN fills!Value(a)' ELSE call.mem[a]
  BY <1>1 DEF fills!Filled
<1>4. ASSUME NEW a \in DOMAIN call.mem
      PROVE  tags'[a] = (fills!Tagging' /\ a \in fills!Region)
  <2>1. CASE a \in fills!Region /\ fills!Tagging'
    <3>1. tags'[a] = fills!Tagging'
      BY <2>1 DEF fills!Filled
    <3>. QED
      BY <2>1, <3>1
  <2>2. CASE ~(a \in fills!Region /\ fills!Tagging')
    <3>1. tags'[a] = FALSE
      BY <1>1, <2>2 DEF fills!Filled
    <3>. QED
      BY <2>2, <3>1
  <2>. QED
    BY <2>1, <2>2
<1>5. fills!EffectAtRet'
  BY <1>1, <1>2, <1>3, <1>4 DEF fills!EffectAtRet
<1>. QED
  BY <1>5 DEF fills!IInv, fills!EntryInv, fills!LoopInv, fills!Looping, fills!TailInv

\* What is left of a call without a loop: its stores are the region.
LEMMA NoLoopStep ==
    ASSUME fills!IInv, pc = "entry", NEW S, fills!FillAndReturn(S), S = fills!Region
    PROVE  fills!IInv'
<1>1. fills!Filled({} \cup S)' /\ fills!Footprint'
  BY WriteStep DEF fills!IInv, fills!EntryInv, fills!FillAndReturn, fills!Fill
<1>. QED
  BY <1>1, ReturnStep DEF fills!FillAndReturn

-----------------------------------------------------------------------------
\* Sizes without a loop: the stores, which overlap, are together the region.

\* The addresses that four stores reach (three, if two of them are the same).
LEMMA StoresReach ==
    ASSUME NEW w \in Nat, NEW a \in Int, NEW b \in Int, NEW c \in Int, NEW d \in Int
    PROVE  \A x : x \in fills!Stores(w, {a, b, c, d}) <=>
                     /\ x \in Int
                     /\ \/ a <= x /\ x < a + w
                        \/ b <= x /\ x < b + w
                        \/ c <= x /\ x < c + w
                        \/ d <= x /\ x < d + w
<1>1. \A q \in Int : \A x : x \in fills!Span(q, w) <=> x \in Int /\ q <= x /\ x < q + w
  BY DEF fills!Span
<1>2. \A x : x \in fills!Stores(w, {a, b, c, d})
                <=> \E q \in {a, b, c, d} : x \in fills!Span(q, w)
  BY DEF fills!Stores
<1>. QED
  BY <1>1, <1>2

\* Stores of w bytes at both ends of the region, and as far from either end, cover
\* what lies between.
LEMMA StoresFromEnds ==
    ASSUME fills!ValidCall(call), NEW w \in Nat, NEW a \in Int, NEW b \in Int, NEW c \in Int,
           fills!dstin <= a, a + w <= fills!dstend,
           b = (fills!dstend - (a - fills!dstin)) - w, c = fills!dstend - w,
           \/ a <= fills!dstin + w /\ b <= a + w
           \/ a = fills!dstin + 2 * w /\ b = fills!dstin + w
    PROVE  fills!Stores(w, {fills!dstin, a, b, c}) = fills!Region
<1> DEFINE S == fills!Stores(w, {fills!dstin, a, b, c})
<1>1. /\ fills!dstin \in Int /\ fills!dstend \in Int
      /\ fills!Region = fills!dstin .. (fills!dstend - 1)
  BY CallFacts
<1>2. \A x : x \in S <=> /\ x \in Int
                         /\ \/ fills!dstin <= x /\ x < fills!dstin + w
                            \/ a <= x /\ x < a + w
                            \/ b <= x /\ x < b + w
                            \/ c <= x /\ x < c + w
  BY <1>1, StoresReach
<1>. HIDE DEF S
<1>3. \A x \in S : x \in fills!Region
  BY <1>1, <1>2
<1>4. \A x \in fills!Region : x \in S
  BY <1>1, <1>2
<1>5. S = fills!Region
  BY <1>3, <1>4
<1>. QED
  BY <1>5 DEF S

\* The same with three stores.
LEMMA StoresFromEnds3 ==
    ASSUME fills!ValidCall(call), NEW w \in Nat, NEW a \in Int, NEW c \in Int,
           c = fills!dstend - w,
           fills!dstin <= a, a <= fills!dstin + w, c <= a + w, a + w <= fills!dstend
    PROVE  fills!Stores(w, {fills!dstin, a, c}) = fills!Region
<1> DEFINE S == fills!Stores(w, {fills!dstin, a, c, c})
<1>1. /\ fills!dstin \in Int /\ fills!dstend \in Int
      /\ fills!Region = fills!dstin .. (fills!dstend - 1)
  BY CallFacts
<1>2. \A x : x \in S <=> /\ x \in Int
                         /\ \/ fills!dstin <= x /\ x < fills!dstin + w
                            \/ a <= x /\ x < a + w
                            \/ c <= x /\ x < c + w
  BY <1>1, StoresReach
<1>3. {fills!dstin, a, c} = {fills!dstin, a, c, c}
  OBVIOUS
<1>. HIDE DEF S
<1>4. \A x \in S : x \in fills!Region
  BY <1>1, <1>2
<1>5. \A x \in fills!Region : x \in S
  BY <1>1, <1>2
<1>6. S = fills!Region
  BY <1>4, <1>5
<1>. QED
  BY <1>3, <1>6 DEF S

LEMMA Set0to3Step == fills!IInv /\ fills!Set0to3 => fills!IInv'
<1> SUFFICES ASSUME fills!IInv, fills!Set0to3 PROVE fills!IInv'
  OBVIOUS
<1> DEFINE S == IF fills!n = 0 THEN {}
                ELSE {fills!dstin, fills!dstin + (fills!n \div 2), fills!dstend - 1}
<1>1. /\ fills!dstin \in Nat /\ fills!n \in Nat /\ fills!dstend = fills!dstin + fills!n
      /\ fills!Region = fills!dstin .. (fills!dstend - 1)
  BY CallFacts DEF fills!IInv
<1>2. fills!n \in {0, 1, 2, 3}
  BY <1>1 DEF fills!Set0to3
<1>3. CASE fills!n = 0
  BY <1>1, <1>3, NoLoopStep DEF fills!Set0to3
<1>4. CASE fills!n # 0
  <2>1. fills!n \div 2 = IF fills!n = 1 THEN 0 ELSE 1
    BY <1>2, <1>4
  <2>2. fills!dstin + (fills!n \div 2) = IF fills!n = 1 THEN fills!dstin ELSE fills!dstin + 1
    BY <1>1, <2>1
  <2>3. fills!Region = {fills!dstin, fills!dstin + (fills!n \div 2), fills!dstend - 1}
    BY <1>1, <1>2, <1>4, <2>2
  <2>. QED
    BY <1>4, <2>3, NoLoopStep DEF fills!Set0to3
<1>. QED
  BY <1>3, <1>4

LEMMA Set4to15Step == fills!IInv /\ fills!Set4to15 => fills!IInv'
<1> SUFFICES ASSUME fills!IInv, fills!Set4to15 PROVE fills!IInv'
  OBVIOUS
<1> DEFINE off == 4 * (fills!n \div 8)
           a == fills!dstin + off
           b == fills!dstend - off - 4
           c == fills!dstend - 4
           S == fills!Stores(4, {fills!dstin, a, b, c})
<1>1. /\ fills!dstin \in Nat /\ fills!n \in Nat /\ fills!dstend = fills!dstin + fills!n
      /\ fills!Region = fills!dstin .. (fills!dstend - 1)
      /\ fills!dstend \in Nat /\ fills!ValidCall(call)
  BY CallFacts DEF fills!IInv
<1>2. fills!n \in 4 .. 15 /\ fills!FillAndReturn(S) /\ pc = "entry"
  BY DEF fills!Set4to15
<1>3. off = IF fills!n < 8 THEN 0 ELSE 4
  BY <1>1, <1>2
<1>4. /\ fills!dstin <= a /\ a + 4 <= fills!dstend /\ a <= fills!dstin + 4 /\ b <= a + 4
      /\ b = (fills!dstend - (a - fills!dstin)) - 4 /\ c = fills!dstend - 4
      /\ a \in Int /\ b \in Int /\ c \in Int /\ 4 \in Nat
  BY <1>1, <1>2, <1>3
<1>. HIDE DEF off, a, b, c
<1>5. S = fills!Region
  BY <1>1, <1>4, StoresFromEnds, SMTT(30)
<1>. HIDE DEF S
<1>. QED
  BY <1>2, <1>5, NoLoopStep

LEMMA SetPredicatedStep == fills!IInv /\ fills!SetPredicated => fills!IInv'
<1>1. ASSUME fills!IInv, fills!SetPredicated
      PROVE  fills!Span(fills!dstin, fills!n) = fills!Region
  BY DEF fills!Region
<1>. QED
  BY <1>1, NoLoopStep DEF fills!SetPredicated

LEMMA Set16to64Step == fills!IInv /\ fills!Set16to64 => fills!IInv'
<1> SUFFICES ASSUME fills!IInv, fills!Set16to64 PROVE fills!IInv'
  OBVIOUS
<1> DEFINE off == fills!HalfIn16s(fills!n)
           a == fills!dstin + off
           b == fills!dstend - off - 16
           c == fills!dstend - 16
           S == fills!Stores(16, {fills!dstin, a, b, c})
<1>1. /\ fills!dstin \in Nat /\ fills!n \in Nat /\ fills!dstend = fills!dstin + fills!n
      /\ fills!Region = fills!dstin .. (fills!dstend - 1)
      /\ fills!dstend \in Nat /\ fills!ValidCall(call)
  BY CallFacts DEF fills!IInv
<1>2. fills!n \in 16 .. 64 /\ fills!FillAndReturn(S) /\ pc = "entry"
  BY DEF fills!Set16to64
<1>3. off = IF fills!n < 32 THEN 0 ELSE IF fills!n < 64 THEN 16 ELSE 32
  BY <1>1, <1>2 DEF fills!HalfIn16s
<1>4. /\ fills!dstin <= a /\ a + 16 <= fills!dstend
      /\ \/ a <= fills!dstin + 16 /\ b <= a + 16
         \/ a = fills!dstin + 2 * 16 /\ b = fills!dstin + 16
      /\ b = (fills!dstend - (a - fills!dstin)) - 16 /\ c = fills!dstend - 16
      /\ a \in Int /\ b \in Int /\ c \in Int /\ 16 \in Nat
  BY <1>1, <1>2, <1>3
<1>. HIDE DEF a, b, c
<1>5. S = fills!Region
  BY <1>1, <1>4, StoresFromEnds
<1>. HIDE DEF S
<1>. QED
  BY <1>2, <1>5, NoLoopStep

LEMMA Set65to128Step == fills!IInv /\ fills!Set65to128 => fills!IInv'
<1> SUFFICES ASSUME fills!IInv, fills!Set65to128 PROVE fills!IInv'
  OBVIOUS
<1> DEFINE a == fills!dstin + 32
           b == fills!dstend - 64
           c == fills!dstend - 32
           S == fills!Stores(32, {fills!dstin, a, b, c})
<1>1. /\ fills!dstin \in Nat /\ fills!n \in Nat /\ fills!dstend = fills!dstin + fills!n
      /\ fills!Region = fills!dstin .. (fills!dstend - 1)
      /\ fills!dstend \in Nat /\ fills!ValidCall(call)
  BY CallFacts DEF fills!IInv
<1>2. fills!n \in 65 .. 128 /\ fills!FillAndReturn(S) /\ pc = "entry"
  BY DEF fills!Set65to128
<1>3. /\ fills!dstin <= a /\ a + 32 <= fills!dstend /\ a <= fills!dstin + 32 /\ b <= a + 32
      /\ b = (fills!dstend - (a - fills!dstin)) - 32 /\ c = fills!dstend - 32
      /\ a \in Int /\ b \in Int /\ c \in Int /\ 32 \in Nat
  BY <1>1, <1>2
<1>. HIDE DEF a, b, c
<1>4. S = fills!Region
  BY <1>1, <1>3, StoresFromEnds
<1>. HIDE DEF S
<1>. QED
  BY <1>2, <1>4, NoLoopStep

\* Sizes of tagged regions are multiples of 16.
LEMMA Tag48Step == fills!IInv /\ fills!Tag48 => fills!IInv'
<1> SUFFICES ASSUME fills!IInv, fills!Tag48 PROVE fills!IInv'
  OBVIOUS
<1> DEFINE off == 16 * (fills!n \div 32)
           a == fills!dstin + off
           c == fills!dstend - 16
           S == fills!Stores(16, {fills!dstin, a, c})
<1>1. /\ fills!dstin \in Nat /\ fills!n \in Nat /\ fills!dstend = fills!dstin + fills!n
      /\ fills!Region = fills!dstin .. (fills!dstend - 1)
      /\ fills!n % 16 = 0 /\ fills!dstend \in Nat /\ fills!ValidCall(call)
  BY CallFacts DEF fills!IInv, fills!Tag48
<1>2. fills!n <= 96 /\ (fills!n \div 64) % 2 # 1
  BY DEF fills!Tag48, fills!Bit6
<1>3. fills!n \in {0, 16, 32, 48}
  BY <1>1, <1>2
<1>4. CASE fills!n = 0
  BY <1>1, <1>4, NoLoopStep DEF fills!Tag48
<1>5. CASE fills!n # 0
  <2>1. off = IF fills!n < 32 THEN 0 ELSE 16
    BY <1>3, <1>5
  <2>2. /\ a \in Int /\ c \in Int /\ c = fills!dstend - 16 /\ 16 \in Nat
        /\ fills!dstin <= a /\ a <= fills!dstin + 16 /\ c <= a + 16 /\ a + 16 <= fills!dstend
    BY <1>1, <1>3, <1>5, <2>1
  <2>3. fills!FillAndReturn(S) /\ pc = "entry"
    BY <1>5 DEF fills!Tag48
  <2>. HIDE DEF off, a, c
  <2>4. S = fills!Region
    BY <1>1, <2>2, StoresFromEnds3
  <2>. HIDE DEF S
  <2>. QED
    BY <2>3, <2>4, NoLoopStep
<1>. QED
  BY <1>4, <1>5

LEMMA Tag96Step == fills!IInv /\ fills!Tag96 => fills!IInv'
<1> SUFFICES ASSUME fills!IInv, fills!Tag96 PROVE fills!IInv'
  OBVIOUS
<1> DEFINE a == fills!dstin + 32
           c == fills!dstend - 32
           S == fills!Stores(32, {fills!dstin, a, c})
<1>1. /\ fills!dstin \in Nat /\ fills!n \in Nat /\ fills!dstend = fills!dstin + fills!n
      /\ fills!Region = fills!dstin .. (fills!dstend - 1)
      /\ fills!dstend \in Nat /\ fills!ValidCall(call)
  BY CallFacts DEF fills!IInv
<1>2. fills!n <= 96 /\ (fills!n \div 64) % 2 = 1 /\ fills!FillAndReturn(S) /\ pc = "entry"
  BY DEF fills!Tag96, fills!Bit6
<1>3. fills!n \in 64 .. 96
  BY <1>1, <1>2
<1>4. /\ a \in Int /\ c \in Int /\ c = fills!dstend - 32 /\ 32 \in Nat
      /\ fills!dstin <= a /\ a <= fills!dstin + 32 /\ c <= a + 32 /\ a + 32 <= fills!dstend
  BY <1>1, <1>3
<1>. HIDE DEF a, c
<1>5. S = fills!Region
  BY <1>1, <1>4, StoresFromEnds3
<1>. HIDE DEF S
<1>. QED
  BY <1>2, <1>5, NoLoopStep

-----------------------------------------------------------------------------
\* The loops.

\* For nothing less has been stored than up to Head and from TailStart.
LEMMA LoopStep ==
    ASSUME fills!IInv, UNCHANGED call, fills!Footprint', NEW S, fills!Filled(S)',
           fills!SoFar' \subseteq S,
           fills!Looping', pc' = "zva64_loop" <=> fills!Zva, fills!n > fills!LargerThan,
           dst' \in Int, fills!Zva => dst' % 64 = 0, fills!dstin <= fills!Head',
           count' = fills!dstend - (fills!Head' + 64), count' > 0
    PROVE  fills!IInv'
<1>1. fills!Filled(fills!SoFar)'
  BY DEF fills!Filled
<1>2. fills!LoopInv'
  BY <1>1, SameCall DEF fills!LoopInv
<1>. QED
  BY <1>2 DEF fills!IInv, fills!EntryInv, fills!Looping, fills!TailInv, fills!EffectAtRet

\* What is stored before the loop of dc zva covers the first block and, but for
\* tags, the end.
LEMMA EnterZvaStep ==
    ASSUME fills!IInv, pc = "entry", fills!n > fills!LargerThan, fills!Zva, NEW S,
           fills!EnterZva(S), S \subseteq fills!Region,
           \A x \in fills!dstin .. (fills!Aligned(fills!dstin, 64) + 63) : x \in S,
           \A x \in fills!TailStart .. (fills!dstend - 1) : x \in S
    PROVE  fills!IInv'
<1>1. /\ fills!dstin \in Nat /\ fills!n \in Nat /\ fills!dstend = fills!dstin + fills!n
      /\ fills!dstend \in Nat /\ fills!dstend <= Size
      /\ Size \in Nat
  BY CallFacts, SizeAssumption DEF fills!IInv
<1>2. fills!n > 128
  BY <1>1 DEF fills!Zva, fills!FromZva
<1>3. fills!Filled({} \cup S)' /\ fills!Footprint'
  BY WriteStep DEF fills!IInv, fills!EntryInv, fills!EnterZva, fills!Fill
<1>4. dst' = fills!Aligned(fills!dstin, 64) /\ pc' = "zva64_loop" /\ UNCHANGED call
  BY DEF fills!EnterZva
<1>5. dst' \in Nat /\ dst' % 64 = 0 /\ dst' <= fills!dstin /\ fills!dstin <= dst' + 63
  BY <1>1, <1>4 DEF fills!Aligned
<1>6. fills!Head' = dst' + 64
  BY <1>4, SameCall DEF fills!Head
<1>7. count' = fills!dstend - (fills!Head' + 64) /\ count' > 0
  BY <1>1, <1>2, <1>5, <1>6 DEF fills!EnterZva, fills!Biased
<1>8. fills!SoFar' \subseteq S
  BY <1>1, <1>4, <1>5, <1>6, SameCall DEF fills!SoFar
<1>. QED
  BY <1>1, <1>3, <1>4, <1>5, <1>6, <1>7, <1>8, LoopStep DEF fills!Looping

LEMMA LongZvaStep == fills!IInv /\ fills!LongZva => fills!IInv'
<1> SUFFICES ASSUME fills!IInv, fills!LongZva PROVE fills!IInv'
  OBVIOUS
<1> DEFINE d == fills!Aligned(fills!dstin, 16)
           S == fills!Span(fills!dstin, 16) \cup fills!Span(d + 16, 48)
                  \cup fills!Span(fills!dstend - 64, 64)
<1>1. /\ fills!dstin \in Nat /\ fills!n \in Nat /\ fills!dstend = fills!dstin + fills!n
      /\ fills!dstend \in Nat
      /\ fills!Region = fills!dstin .. (fills!dstend - 1)
  BY CallFacts DEF fills!IInv
<1>2. /\ pc = "entry" /\ fills!n > fills!LargerThan /\ fills!Zva /\ fills!EnterZva(S)
      /\ ~fills!Tagging /\ ~fills!Sve
  BY DEF fills!LongZva, fills!Memset, fills!Tagging, fills!Sve
<1>3. fills!n > 128 /\ fills!TailStart = fills!dstend - 64
  BY <1>2 DEF fills!LargerThan, fills!TailStart
<1>4. /\ d \in Nat /\ d <= fills!dstin /\ fills!dstin < d + 16
      /\ fills!Aligned(fills!dstin, 64) <= d
  BY <1>1 DEF fills!Aligned
<1>5. \A x : x \in S <=> /\ x \in Int
                         /\ \/ fills!dstin <= x /\ x < fills!dstin + 16
                            \/ d + 16 <= x /\ x < d + 64
                            \/ fills!dstend - 64 <= x /\ x < fills!dstend
  <2>. HIDE DEF d
  <2>. QED
    BY <1>1, <1>4 DEF fills!Span
<1>6. fills!Aligned(fills!dstin, 64) \in Int
  BY <1>1 DEF fills!Aligned
<1>. HIDE DEF S, d
<1>7. S \subseteq fills!Region
  BY <1>1, <1>3, <1>4, <1>5
<1>8. \A x \in fills!dstin .. (fills!Aligned(fills!dstin, 64) + 63) : x \in S
  BY <1>1, <1>4, <1>5, <1>6
<1>9. \A x \in fills!TailStart .. (fills!dstend - 1) : x \in S
  BY <1>1, <1>3, <1>5
<1>. QED
  BY <1>2, <1>7, <1>8, <1>9, EnterZvaStep

LEMMA LongZvaSveStep == fills!IInv /\ fills!LongZvaSve => fills!IInv'
<1> SUFFICES ASSUME fills!IInv, fills!LongZvaSve PROVE fills!IInv'
  OBVIOUS
<1> DEFINE d == fills!Aligned(fills!dstin, 16)
           a == fills!Aligned(fills!dstin, 32)
           x8 == fills!Aligned(fills!dstend - 1, 16)
           S == fills!Stores(16, {fills!dstin, d + 16, fills!dstend - 16})
                  \cup fills!Span(a + 32, 32) \cup fills!Span(x8 - 48, 48)
<1>1. /\ fills!dstin \in Nat /\ fills!n \in Nat /\ fills!dstend = fills!dstin + fills!n
      /\ fills!dstend \in Nat
      /\ fills!Region = fills!dstin .. (fills!dstend - 1)
  BY CallFacts DEF fills!IInv
<1>2. /\ pc = "entry" /\ fills!n > fills!LargerThan /\ fills!Zva /\ fills!EnterZva(S)
      /\ ~fills!Tagging /\ fills!Sve
  BY DEF fills!LongZvaSve, fills!Tagging, fills!Sve
<1>3. fills!n >= 256 /\ fills!TailStart = x8 - 48
  BY <1>2 DEF fills!Zva, fills!FromZva, fills!TailStart
<1>4. /\ d \in Nat /\ d <= fills!dstin /\ fills!dstin < d + 16
      /\ a \in Nat /\ a <= d /\ fills!dstin < a + 32
      /\ x8 \in Int /\ x8 < fills!dstend /\ x8 >= fills!dstend - 16
      /\ fills!Aligned(fills!dstin, 64) \in Nat /\ fills!Aligned(fills!dstin, 64) <= a
  BY <1>1, <1>3 DEF fills!Aligned
<1>. HIDE DEF d, a, x8
<1>5. \A x : x \in S <=> /\ x \in Int
                         /\ \/ fills!dstin <= x /\ x < fills!dstin + 16
                            \/ d + 16 <= x /\ x < d + 32
                            \/ fills!dstend - 16 <= x /\ x < fills!dstend
                            \/ a + 32 <= x /\ x < a + 64
                            \/ x8 - 48 <= x /\ x < x8
  <2> DEFINE b == d + 16
             c == fills!dstend - 16
             T == fills!Stores(16, {fills!dstin, b, c})
  <2>1. fills!dstin \in Int /\ b \in Int /\ c \in Int /\ 16 \in Nat
    BY <1>1, <1>4
  <2>2. b = d + 16 /\ c = fills!dstend - 16
    OBVIOUS
  <2>. HIDE DEF b, c
  <2>3. {fills!dstin, b, c} = {fills!dstin, b, c, c}
    OBVIOUS
  <2>4. \A x : x \in T <=> /\ x \in Int
                           /\ \/ fills!dstin <= x /\ x < fills!dstin + 16
                              \/ b <= x /\ x < b + 16
                              \/ c <= x /\ x < c + 16
    BY <2>1, <2>3, StoresReach
  <2>5. S = T \cup fills!Span(a + 32, 32) \cup fills!Span(x8 - 48, 48)
    BY DEF b, c
  <2>. HIDE DEF S, T
  <2>. QED
    BY <1>1, <1>4, <2>2, <2>4, <2>5 DEF fills!Span
<1>. HIDE DEF S
<1>6. S \subseteq fills!Region
  BY <1>1, <1>3, <1>4, <1>5
<1>7. \A x \in fills!dstin .. (fills!Aligned(fills!dstin, 64) + 63) : x \in S
  BY <1>1, <1>4, <1>5
<1>8. \A x \in fills!TailStart .. (fills!dstend - 1) : x \in S
  BY <1>1, <1>3, <1>4, <1>5
<1>. QED
  BY <1>2, <1>6, <1>7, <1>8, EnterZvaStep

LEMMA LongZvaTagsStep == fills!IInv /\ fills!LongZvaTags => fills!IInv'
<1> SUFFICES ASSUME fills!IInv, fills!LongZvaTags PROVE fills!IInv'
  OBVIOUS
<1> DEFINE S == fills!Span(fills!dstin, 64)
<1>1. /\ fills!dstin \in Nat /\ fills!n \in Nat /\ fills!dstend = fills!dstin + fills!n
      /\ fills!dstend \in Nat
      /\ fills!Region = fills!dstin .. (fills!dstend - 1)
  BY CallFacts DEF fills!IInv
<1>2. /\ pc = "entry" /\ fills!n > fills!LargerThan /\ fills!Zva /\ fills!EnterZva(S)
      /\ fills!Tagging
  BY DEF fills!LongZvaTags
<1>3. fills!n >= 160 /\ fills!TailStart = fills!dstend
  BY <1>2 DEF fills!Zva, fills!FromZva, fills!TailStart
<1>4. S \subseteq fills!Region
  BY <1>1, <1>3 DEF fills!Span
<1>5. \A x \in fills!dstin .. (fills!Aligned(fills!dstin, 64) + 63) : x \in S
  BY <1>1 DEF fills!Span, fills!Aligned
<1>6. \A x \in fills!TailStart .. (fills!dstend - 1) : x \in S
  BY <1>1, <1>3
<1>. HIDE DEF S
<1>. QED
  BY <1>2, <1>4, <1>5, <1>6, EnterZvaStep

\* A loop that has not stored anything after dstin + 32 or, for SVE, + 16.
LEMMA EnterNoZvaStep ==
    ASSUME fills!IInv, pc = "entry", fills!n > fills!LargerThan, ~fills!Zva,
           NEW S, NEW d \in Int, NEW d0 \in {16, 32}, fills!EnterNoZva(S, d, d0),
           S \subseteq fills!Region,
           d0 = IF fills!Sve THEN 16 ELSE 32, d <= fills!dstin, fills!dstin <= d + d0,
           \A x \in fills!dstin .. (d + d0 - 1) : x \in S
    PROVE  fills!IInv'
<1>1. /\ fills!dstin \in Nat /\ fills!n \in Nat /\ fills!dstend = fills!dstin + fills!n
      /\ fills!dstend \in Nat /\ fills!dstend <= Size
      /\ Size \in Nat
  BY CallFacts, SizeAssumption DEF fills!IInv
<1>2. fills!n > 96
  BY <1>1 DEF fills!LargerThan
<1>3. fills!Filled({} \cup S)' /\ fills!Footprint'
  BY WriteStep DEF fills!IInv, fills!EntryInv, fills!EnterNoZva, fills!Fill
<1>4. dst' = d /\ pc' = "no_zva_loop" /\ UNCHANGED call
  BY DEF fills!EnterNoZva
<1>5. fills!Head' = d + d0 /\ fills!Head' \in Int
  BY <1>4, SameCall DEF fills!Head
<1>6. fills!TailStart' = fills!dstend
  BY SameCall, <1>4 DEF fills!TailStart
<1>7. count' = fills!dstend - (fills!Head' + 64) /\ count' > 0
  <2>1. count' = ((fills!dstend - d) - (64 + d0)) % Size
    BY DEF fills!EnterNoZva
  <2>2. (fills!dstend - d) - (64 + d0) = fills!dstend - (fills!Head' + 64)
    BY <1>1, <1>5
  <2>3. (fills!dstend - d) - (64 + d0) \in 1 .. (Size - 1)
    BY <1>1, <1>2
  <2>. QED
    BY <1>1, <2>1, <2>2, <2>3
<1>8. fills!SoFar' \subseteq S
  BY <1>1, <1>4, <1>5, <1>6, SameCall DEF fills!SoFar
<1>. QED
  BY <1>1, <1>3, <1>4, <1>5, <1>7, <1>8, LoopStep DEF fills!Looping

LEMMA LongNoZvaStep == fills!IInv /\ fills!LongNoZva => fills!IInv'
<1> SUFFICES ASSUME fills!IInv, fills!LongNoZva PROVE fills!IInv'
  OBVIOUS
<1> DEFINE d == fills!Aligned(fills!dstin, 16)
           S == fills!Stores(16, {fills!dstin, d + 16})
<1>1. /\ fills!dstin \in Nat /\ fills!n \in Nat /\ fills!dstend = fills!dstin + fills!n
      /\ fills!dstend \in Nat
      /\ fills!Region = fills!dstin .. (fills!dstend - 1)
  BY CallFacts DEF fills!IInv
<1>2. /\ pc = "entry" /\ fills!n > fills!LargerThan /\ ~fills!Zva
      /\ fills!EnterNoZva(S, d, 32) /\ ~fills!Tagging /\ ~fills!Sve
  BY DEF fills!LongNoZva, fills!Memset, fills!Tagging, fills!Sve
<1>3. fills!n > 128
  BY <1>2 DEF fills!LargerThan
<1>4. d \in Int /\ d <= fills!dstin /\ fills!dstin < d + 16 /\ fills!dstin <= d + 32
  BY <1>1 DEF fills!Aligned
<1>. HIDE DEF d
<1>5. \A x : x \in S <=> /\ x \in Int
                         /\ \/ fills!dstin <= x /\ x < fills!dstin + 16
                            \/ d + 16 <= x /\ x < d + 32
  <2> DEFINE b == d + 16
  <2>1. fills!dstin \in Int /\ b \in Int /\ 16 \in Nat /\ b = d + 16
    BY <1>1, <1>4
  <2>2. S = fills!Stores(16, {fills!dstin, b, b, b})
    <3>1. {fills!dstin, b} = {fills!dstin, b, b, b}
      OBVIOUS
    <3>. QED
      BY <3>1 DEF b
  <2>. HIDE DEF b, S
  <2>3. \A x : x \in S <=> /\ x \in Int
                           /\ \/ fills!dstin <= x /\ x < fills!dstin + 16
                              \/ b <= x /\ x < b + 16
    BY <2>1, <2>2, StoresReach
  <2>. QED
    BY <1>4, <2>1, <2>3
<1>. HIDE DEF S
<1>6. S \subseteq fills!Region
  BY <1>1, <1>3, <1>4, <1>5
<1>7. \A x \in fills!dstin .. (d + 32 - 1) : x \in S
  BY <1>1, <1>4, <1>5
<1>. QED
  BY <1>2, <1>4, <1>6, <1>7, EnterNoZvaStep

LEMMA LongNoZvaSveStep == fills!IInv /\ fills!LongNoZvaSve => fills!IInv'
<1> SUFFICES ASSUME fills!IInv, fills!LongNoZvaSve PROVE fills!IInv'
  OBVIOUS
<1> DEFINE d == fills!Aligned(fills!dstin, 16)
           S == fills!Span(fills!dstin, 16)
<1>1. /\ fills!dstin \in Nat /\ fills!n \in Nat /\ fills!dstend = fills!dstin + fills!n
      /\ fills!dstend \in Nat
      /\ fills!Region = fills!dstin .. (fills!dstend - 1)
  BY CallFacts DEF fills!IInv
<1>2. /\ pc = "entry" /\ fills!n > fills!LargerThan /\ ~fills!Zva
      /\ fills!EnterNoZva(S, d, 16) /\ ~fills!Tagging /\ fills!Sve
  BY DEF fills!LongNoZvaSve, fills!Tagging, fills!Sve
<1>3. fills!n > 128
  BY <1>2 DEF fills!LargerThan
<1>4. d \in Int /\ d <= fills!dstin /\ fills!dstin < d + 16 /\ fills!dstin <= d + 16
  BY <1>1 DEF fills!Aligned
<1>. HIDE DEF d
<1>5. S \subseteq fills!Region /\ \A x \in fills!dstin .. (d + 16 - 1) : x \in S
  BY <1>1, <1>3, <1>4 DEF fills!Span
<1>. HIDE DEF S
<1>. QED
  BY <1>2, <1>4, <1>5, EnterNoZvaStep

LEMMA LongNoZvaTagsStep == fills!IInv /\ fills!LongNoZvaTags => fills!IInv'
<1> SUFFICES ASSUME fills!IInv, fills!LongNoZvaTags PROVE fills!IInv'
  OBVIOUS
<1> DEFINE d == fills!dstin - 32
<1>1. fills!dstin \in Nat
  BY CallFacts DEF fills!IInv
<1>2. /\ pc = "entry" /\ fills!n > fills!LargerThan /\ ~fills!Zva
      /\ fills!EnterNoZva({}, d, 32) /\ ~fills!Sve
  BY DEF fills!LongNoZvaTags, fills!Tagging, fills!Sve
<1>3. d \in Int /\ d <= fills!dstin /\ fills!dstin <= d + 32
  BY <1>1
<1>4. \A x \in fills!dstin .. (d + 32 - 1) : x \in {}
  BY <1>1
<1>. HIDE DEF d
<1>. QED
  BY <1>2, <1>3, <1>4, EnterNoZvaStep

\* The block of the loop of dc zva is 64 bytes.
LEMMA ZvaBlock ==
    ASSUME fills!ValidCall(call), fills!Zva, NEW a \in Int, a % 64 = 0
    PROVE  fills!Block(a) = fills!Span(a, 64)
<1>1. call.dczid % 16 = 4
  BY DEF fills!ValidCall, fills!Zva, fills!Is64
<1>2. 4 * 2 ^ (call.dczid % 16) = 64
  <2>1. 2 ^ (call.dczid % 16) = 16
    BY <1>1, 2 ^ 4 = 16
  <2>. QED
    BY <2>1
<1>3. fills!Aligned(a, 64) = a
  BY DEF fills!Aligned
<1>. QED
  BY <1>2, <1>3 DEF fills!Block

\* An iteration of a loop: 64 bytes from Head on, which do not reach the end.
LEMMA IterationStep ==
    ASSUME fills!IInv, fills!Looping, NEW again, NEW then, fills!Advance(again, then),
           fills!Write(fills!Span(fills!Head, 64), IF fills!Tagging THEN 0 ELSE fills!FillByte),
           again = pc, then = IF fills!Zva /\ ~fills!Tagging THEN "ret" ELSE "tail"
    PROVE  fills!IInv'
<1>1. /\ fills!dstin \in Nat /\ fills!n \in Nat /\ fills!dstend = fills!dstin + fills!n
      /\ fills!dstend \in Nat /\ fills!dstend <= Size
      /\ Size \in Nat /\ fills!Region = fills!dstin .. (fills!dstend - 1)
  BY CallFacts, SizeAssumption DEF fills!IInv
<1>2. /\ (pc = "zva64_loop" <=> fills!Zva) /\ fills!n > fills!LargerThan /\ dst \in Int
      /\ (fills!Zva => dst % 64 = 0)
      /\ fills!dstin <= fills!Head /\ count = fills!dstend - (fills!Head + 64) /\ count > 0
      /\ fills!Filled(fills!SoFar)
  BY DEF fills!IInv, fills!LoopInv
<1>3. fills!Head \in Int /\ fills!Head - dst \in {16, 32, 64}
  BY <1>2 DEF fills!Head
<1>4. fills!Span(fills!Head, 64) \subseteq fills!Region
  BY <1>1, <1>2, <1>3 DEF fills!Span
<1>5. UNCHANGED call
  BY DEF fills!Advance
<1> PICK S : S = fills!SoFar
  OBVIOUS
<1> PICK T : T = fills!Span(fills!Head, 64)
  OBVIOUS
<1>6. fills!Filled(S \cup T)' /\ fills!Footprint'
  BY <1>2, <1>4, <1>5, WriteStep
<1>7. dst' = dst + 64
  BY <1>1, <1>2, <1>3 DEF fills!Advance
<1>8. fills!Head' = fills!Head + 64
  BY <1>2, <1>5, <1>7, SameCall DEF fills!Head
<1>9. fills!SoFar' \subseteq S \cup T
  BY <1>1, <1>2, <1>3, <1>5, <1>8, SameCall DEF fills!SoFar, fills!Span
<1>10. CASE fills!More
  <2>1. count > 64 /\ pc' = pc
    BY <1>10 DEF fills!More, fills!Advance
  <2>2. count' = fills!dstend - (fills!Head' + 64) /\ count' > 0
    BY <1>1, <1>2, <1>3, <1>8, <2>1 DEF fills!Advance
  <2>3. fills!Looping' /\ (pc' = "zva64_loop" <=> fills!Zva)
    BY <1>2, <2>1 DEF fills!Looping
  <2>4. dst' \in Int /\ (fills!Zva => dst' % 64 = 0) /\ fills!dstin <= fills!Head'
    BY <1>1, <1>2, <1>3, <1>7, <1>8
  <2>. QED
    BY <1>2, <1>5, <1>6, <1>9, <2>2, <2>3, <2>4, LoopStep
<1>11. CASE ~fills!More
  <2>1. count <= 64 /\ pc' = then
    BY <1>2, <1>3, <1>11 DEF fills!More, fills!Advance
  <2>2. fills!Head' \in (fills!dstend - 64) .. fills!dstend
    BY <1>1, <1>2, <1>3, <1>8, <2>1
  <2>3. CASE fills!Zva /\ ~fills!Tagging
    <3>1. fills!Head % 64 = 0
      BY <1>2, <2>3 DEF fills!Head
    <3>2. fills!TailStart \in Int /\ fills!TailStart <= fills!Head + 64
      <4>1. CASE fills!Sve
        BY <1>1, <1>2, <1>3, <2>1, <2>3, <3>1, <4>1 DEF fills!TailStart, fills!Aligned
      <4>2. CASE ~fills!Sve
        BY <1>1, <1>2, <1>3, <2>1, <2>3, <4>2 DEF fills!TailStart
      <4>. QED
        BY <4>1, <4>2
    <3>3. fills!Region \subseteq S \cup T
      BY <1>1, <1>2, <1>3, <3>2 DEF fills!SoFar, fills!Span
    <3>. QED
      BY <1>5, <1>6, <2>1, <2>3, <3>3, ReturnStep
  <2>4. CASE ~(fills!Zva /\ ~fills!Tagging)
    <3>1. fills!TailStart' = fills!dstend
      BY <1>5, <2>4, SameCall DEF fills!TailStart
    <3>2. fills!Filled(fills!SoFar)'
      BY <1>6, <1>9 DEF fills!Filled
    <3>3. fills!TailInv'
      BY <1>2, <1>5, <1>7, <2>2, <3>1, <3>2, SameCall DEF fills!TailInv
    <3>. QED
      BY <1>5, <1>6, <2>1, <2>4, <3>3 DEF fills!IInv, fills!EntryInv, fills!LoopInv,
                                          fills!Looping, fills!EffectAtRet
  <2>. QED
    BY <2>3, <2>4
<1>. QED
  BY <1>10, <1>11

LEMMA Zva64LoopStep == fills!IInv /\ fills!Zva64Loop => fills!IInv'
<1> SUFFICES ASSUME fills!IInv, fills!Zva64Loop PROVE fills!IInv'
  OBVIOUS
<1>1. /\ pc = "zva64_loop" /\ fills!Looping /\ fills!Zva /\ dst \in Int /\ dst % 64 = 0
      /\ fills!Head = dst + 64
  BY DEF fills!Zva64Loop, fills!IInv, fills!LoopInv, fills!Looping, fills!Head
<1>2. fills!Block(dst + 64) = fills!Span(fills!Head, 64)
  BY <1>1, ZvaBlock DEF fills!IInv
<1>3. (IF fills!Tagging THEN 0 ELSE fills!FillByte) = 0
  BY <1>1 DEF fills!Zva
<1>. QED
  BY <1>1, <1>2, <1>3, IterationStep DEF fills!Zva64Loop

LEMMA NoZvaLoopStep == fills!IInv /\ fills!NoZvaLoop => fills!IInv'
<1> SUFFICES ASSUME fills!IInv, fills!NoZvaLoop PROVE fills!IInv'
  OBVIOUS
<1>1. pc = "no_zva_loop" /\ fills!Looping /\ ~fills!Zva
  BY DEF fills!NoZvaLoop, fills!IInv, fills!LoopInv, fills!Looping
<1>2. fills!Head = dst + (IF fills!Sve THEN 16 ELSE 32)
  BY <1>1 DEF fills!Head
<1>. QED
  BY <1>1, <1>2, IterationStep DEF fills!NoZvaLoop, fills!Fill

\* The last 64 bytes, some of which the loop may have stored to.
LEMMA TailStep == fills!IInv /\ fills!Tail => fills!IInv'
<1> SUFFICES ASSUME fills!IInv, fills!Tail PROVE fills!IInv'
  OBVIOUS
<1>1. /\ fills!dstin \in Nat /\ fills!n \in Nat /\ fills!dstend = fills!dstin + fills!n
      /\ fills!dstend \in Nat
      /\ fills!Region = fills!dstin .. (fills!dstend - 1)
  BY CallFacts DEF fills!IInv
<1>2. /\ fills!n > fills!LargerThan /\ fills!Head \in (fills!dstend - 64) .. fills!dstend
      /\ fills!Filled(fills!SoFar)
  BY DEF fills!Tail, fills!IInv, fills!TailInv
<1> PICK S : S = fills!SoFar
  OBVIOUS
<1> PICK T : T = fills!Span(fills!dstend - 64, 64)
  OBVIOUS
<1>3. T \subseteq fills!Region
  BY <1>1, <1>2 DEF fills!LargerThan, fills!Span
<1>4. fills!Region \subseteq S \cup T
  BY <1>1, <1>2 DEF fills!SoFar, fills!Span
<1>5. fills!Filled(S \cup T)' /\ fills!Footprint'
  BY <1>2, <1>3, WriteStep DEF fills!Tail, fills!FillAndReturn, fills!Fill
<1>. QED
  BY <1>4, <1>5, ReturnStep DEF fills!Tail, fills!FillAndReturn

-----------------------------------------------------------------------------
\* Every step preserves the invariant.
LEMMA FillsNextIInv == fills!IInv /\ [fills!Next]_(fills!vars) => fills!IInv'
<1> SUFFICES ASSUME fills!IInv, [fills!Next]_(fills!vars) PROVE fills!IInv'
  OBVIOUS
<1>1. CASE fills!Set0to3
  BY <1>1, Set0to3Step
<1>2. CASE fills!Set4to15
  BY <1>2, Set4to15Step
<1>3. CASE fills!SetPredicated
  BY <1>3, SetPredicatedStep
<1>4. CASE fills!Set16to64
  BY <1>4, Set16to64Step
<1>5. CASE fills!Set65to128
  BY <1>5, Set65to128Step
<1>6. CASE fills!Tag48
  BY <1>6, Tag48Step
<1>7. CASE fills!Tag96
  BY <1>7, Tag96Step
<1>8. CASE fills!LongZva
  BY <1>8, LongZvaStep
<1>9. CASE fills!LongZvaSve
  BY <1>9, LongZvaSveStep
<1>10. CASE fills!LongZvaTags
  BY <1>10, LongZvaTagsStep
<1>11. CASE fills!Zva64Loop
  BY <1>11, Zva64LoopStep
<1>12. CASE fills!LongNoZva
  BY <1>12, LongNoZvaStep
<1>13. CASE fills!LongNoZvaSve
  BY <1>13, LongNoZvaSveStep
<1>14. CASE fills!LongNoZvaTags
  BY <1>14, LongNoZvaTagsStep
<1>15. CASE fills!NoZvaLoop
  BY <1>15, NoZvaLoopStep
<1>16. CASE fills!Tail
  BY <1>16, TailStep
<1>17. CASE UNCHANGED fills!vars
  BY <1>17
     DEF fills!vars, fills!IInv, fills!ValidCall, fills!EntryInv, fills!LoopInv,
     fills!Looping,
         fills!TailInv, fills!Footprint, fills!EffectAtRet, fills!Filled, fills!Value,
         fills!FillByte, fills!SoFar, fills!Head, fills!TailStart, fills!Region, fills!Zva,
         fills!FromZva, fills!LargerThan, fills!Sve, fills!Tagging, fills!routine,
         fills!dstin,
         fills!n, fills!dstend
<1>. QED
  BY <1>1, <1>2, <1>3, <1>4, <1>5, <1>6, <1>7, <1>8, <1>9, <1>10, <1>11, <1>12, <1>13, <1>14,
     <1>15, <1>16, <1>17 DEF fills!Next

-----------------------------------------------------------------------------
(* strcpy and stpcpy.                                                      *)

\* The operators of the instance are those of Simd.
LEMMA StrcpyNames ==
    /\ strcpy!Lanes = Lanes
    /\ \A m, a : strcpy!ld1(m, a) = ld1(m, a)
    /\ \A m, a, b : strcpy!ldrq(m, a, b) = ldrq(m, a, b)
    /\ \A v, c : strcpy!cmeq(v, c) = cmeq(v, c)
    /\ \A V : strcpy!shrn(V) = shrn(V) /\ strcpy!fmov(V) = fmov(V)
    /\ \A U, V : strcpy!umaxp(U, V) = umaxp(U, V)
    /\ \A X, n : strcpy!lsr(X, n) = lsr(X, n)
    /\ \A X : strcpy!clz(X) = clz(X) /\ strcpy!rbit(X) = rbit(X)
    /\ \A a, n : strcpy!Span(a, n) = a .. (a + n - 1)
  BY DEF strcpy!Lanes, strcpy!ld1, strcpy!ldrq, strcpy!cmeq, strcpy!shrn, strcpy!fmov,
         strcpy!umaxp, strcpy!lsr, strcpy!clz, strcpy!rbit, strcpy!Span, strcpy!AllOnes,
         strcpy!Max, strcpy!Min, strcpy!XBits, strcpy!Pairwise, strcpy!LargerByte,
         strcpy!SymmetricDiff,
         Lanes, ld1, ldrq, cmeq, shrn, fmov, umaxp, lsr, clz, rbit, AllOnes, Max, Min, XBits,
         Pairwise, LargerByte, SymmetricDiff

\* Memory m has a string of length L at s.
IsString(m, s, L) == m[s + L] = 0 /\ \A j \in 0 .. (L - 1) : m[s + j] # 0

\* The call's string ends within its memory, and apart from the copy.
LEMMA LengthIs ==
    ASSUME strcpy!ValidCall(call)
    PROVE  /\ strcpy!dstin \in Nat /\ strcpy!srcin \in Nat /\ strcpy!Length \in Nat
           /\ strcpy!big \in BOOLEAN
           /\ IsString(call.mem, strcpy!srcin, strcpy!Length)
           /\ strcpy!srcin .. (strcpy!srcin + strcpy!Length) \subseteq DOMAIN call.mem
           /\ \/ strcpy!srcin + strcpy!Length < strcpy!dstin
              \/ strcpy!dstin + strcpy!Length < strcpy!srcin
           /\ call.mem = [a \in DOMAIN call.mem |-> call.mem[a]]
<1> DEFINE M == DOMAIN call.mem
           s == call.s
           L == strcpy!Length
<1>1. /\ call.d \in Nat /\ s \in Nat /\ M \subseteq Nat /\ call.big \in BOOLEAN
      /\ call.mem = [a \in M |-> call.mem[a]]
  BY DEF strcpy!ValidCall
<1>2. PICK k \in M : /\ strcpy!Ends(call, k) /\ strcpy!Span(s, k + 1) \subseteq M
                     /\ s + k < call.d \/ call.d + k < s
  BY DEF strcpy!ValidCall
<1>3. L \in M /\ strcpy!Ends(call, L)
  BY <1>2 DEF strcpy!Length
<1> HIDE DEF L
<1>4. k \in Nat /\ L \in Nat
  BY <1>1, <1>2, <1>3
<1>5. L = k
  <2>1. ~(k < L)
    <3>1. SUFFICES ASSUME k < L PROVE FALSE
      OBVIOUS
    <3>2. k \in 0 .. (L - 1)
      BY <1>4, <3>1
    <3>. QED
      BY <1>2, <1>3, <3>2 DEF strcpy!Ends
  <2>2. ~(L < k)
    <3>1. SUFFICES ASSUME L < k PROVE FALSE
      OBVIOUS
    <3>2. L \in 0 .. (k - 1)
      BY <1>4, <3>1
    <3>. QED
      BY <1>2, <1>3, <3>2 DEF strcpy!Ends
  <2>. QED
    BY <1>4, <2>1, <2>2
<1>6. strcpy!Span(s, k + 1) = s .. (s + k)
  BY <1>1, <1>4 DEF strcpy!Span
<1>. QED
  BY <1>1, <1>2, <1>3, <1>4, <1>5, <1>6
     DEF strcpy!dstin, strcpy!srcin, strcpy!big, strcpy!Ends, IsString, L

\* What a chunk at a, no further than the NUL, says of it.
LEMMA StringChunk ==
    ASSUME NEW m, NEW s \in Nat, NEW L \in Nat, IsString(m, s, L),
           NEW a \in Int, s <= a, a <= s + L
    PROVE  /\ ChunkClean(m, a, {0}) => a + W <= s + L
           /\ \A f \in Lanes : Leads(m, a, f, {0}) => a + f = s + L
           /\ (\A i \in Lanes : m[a + i] # 0) <=> ChunkClean(m, a, {0})
<1>1. m[s + L] = 0 /\ \A j \in 0 .. (L - 1) : m[s + j] # 0
  BY DEF IsString
<1>2. ASSUME ChunkClean(m, a, {0}) PROVE a + W <= s + L
  <2>1. SUFFICES ASSUME s + L < a + W PROVE FALSE
    BY WAssumption
  <2>2. (s + L) - a \in Lanes /\ a + ((s + L) - a) = s + L
    BY <2>1, WAssumption DEF Lanes
  <2>. QED
    BY <1>1, <1>2, <2>2 DEF ChunkClean
<1>3. ASSUME NEW f \in Lanes, Leads(m, a, f, {0}) PROVE a + f = s + L
  <2>1. f \in Nat /\ m[a + f] = 0 /\ \A g \in 0 .. (f - 1) : m[a + g] # 0
    BY <1>3 DEF Leads, Lanes
  <2>2. ASSUME a + f < s + L PROVE FALSE
    <3>1. (a + f) - s \in 0 .. (L - 1) /\ s + ((a + f) - s) = a + f
      BY <2>1, <2>2
    <3>. QED
      BY <1>1, <2>1, <3>1
  <2>3. ASSUME s + L < a + f PROVE FALSE
    <3>1. (s + L) - a \in 0 .. (f - 1) /\ a + ((s + L) - a) = s + L
      BY <2>1, <2>3
    <3>. QED
      BY <1>1, <2>1, <3>1
  <2>. QED
    BY <2>1, <2>2, <2>3
<1>. QED
  BY <1>2, <1>3 DEF ChunkClean

\* The same of the first chunk.
LEMMA StringHead ==
    ASSUME NEW m, NEW s \in Nat, NEW L \in Nat, IsString(m, s, L)
    PROVE  /\ HeadClean(m, s, {0}) => (s - (s % W)) + W <= s + L
           /\ \A f \in 0 .. ((W - 1) - (s % W)) : Leads(m, s, f, {0}) => f = L
<1>1. m[s + L] = 0 /\ \A j \in 0 .. (L - 1) : m[s + j] # 0
  BY DEF IsString
<1>2. s % W \in 0 .. (W - 1) /\ W \in Nat
  BY WAssumption, DivMod
<1>3. ASSUME HeadClean(m, s, {0}) PROVE (s - (s % W)) + W <= s + L
  <2>1. SUFFICES ASSUME s + L < (s - (s % W)) + W PROVE FALSE
    BY <1>2
  <2>2. L \in 0 .. ((W - 1) - (s % W))
    BY <1>2, <2>1
  <2>. QED
    BY <1>1, <1>3, <2>2 DEF HeadClean
<1>4. ASSUME NEW f \in 0 .. ((W - 1) - (s % W)), Leads(m, s, f, {0}) PROVE f = L
  <2>1. f \in Nat /\ m[s + f] = 0 /\ \A g \in 0 .. (f - 1) : m[s + g] # 0
    BY <1>2, <1>4 DEF Leads
  <2>2. ASSUME f < L PROVE FALSE
    <3>1. f \in 0 .. (L - 1)
      BY <2>1, <2>2
    <3>. QED
      BY <1>1, <2>1, <3>1
  <2>3. ASSUME L < f PROVE FALSE
    <3>1. L \in 0 .. (f - 1)
      BY <2>1, <2>3
    <3>. QED
      BY <1>1, <2>1, <3>1
  <2>. QED
    BY <2>1, <2>2, <2>3
<1>. QED
  BY <1>3, <1>4

\* A call's arguments do not change.
LEMMA StrcpySameCall ==
    ASSUME UNCHANGED call
    PROVE  /\ strcpy!dstin' = strcpy!dstin /\ strcpy!srcin' = strcpy!srcin
           /\ strcpy!big' = strcpy!big /\ strcpy!Length' = strcpy!Length
           /\ (strcpy!ValidCall(call))' <=> strcpy!ValidCall(call)
BY DEF strcpy!dstin, strcpy!srcin, strcpy!big, strcpy!Length, strcpy!Ends, strcpy!ValidCall

\* The addresses of the copy.
Copy == strcpy!dstin .. (strcpy!dstin + strcpy!Length)

\* As SoFar, without its abbreviations.
LEMMA SoFarIs ==
    ASSUME strcpy!ValidCall(call), NEW k
    PROVE  strcpy!SoFar(k) <=>
             /\ mem = [a \in DOMAIN call.mem |-> mem[a]]
             /\ \A a \in DOMAIN call.mem :
                   /\ a \in strcpy!dstin .. (strcpy!dstin + k - 1)
                          => mem[a] = call.mem[a + (strcpy!srcin - strcpy!dstin)]
                   /\ a \notin Copy => mem[a] = call.mem[a]
<1>1. strcpy!Span(strcpy!dstin, strcpy!Length + 1) = Copy
  BY LengthIs DEF strcpy!Span, Copy
<1>. QED
  BY <1>1 DEF strcpy!SoFar, strcpy!Span

\* Nothing has been copied at first, and at last all of the string.
LEMMA NothingYet ==
    ASSUME strcpy!ValidCall(call), mem = call.mem
    PROVE  strcpy!SoFar(0)
<1>1. call.mem = [a \in DOMAIN call.mem |-> call.mem[a]] /\ strcpy!dstin \in Nat
  BY LengthIs
<1>2. \A a \in strcpy!dstin .. (strcpy!dstin + 0 - 1) : FALSE
  BY <1>1
<1>. QED
  BY <1>1, <1>2, SoFarIs

LEMMA AllCopied ==
    ASSUME strcpy!ValidCall(call), strcpy!SoFar(strcpy!Length + 1)
    PROVE  mem = strcpy!Moved(call.mem, strcpy!dstin, strcpy!srcin, strcpy!Length + 1)
<1>1. strcpy!Length \in Nat /\ strcpy!dstin \in Nat
  BY LengthIs
<1>2. strcpy!dstin .. (strcpy!dstin + (strcpy!Length + 1) - 1) = Copy
  BY <1>1 DEF Copy
<1>3. strcpy!Span(strcpy!dstin, strcpy!Length + 1) = Copy
  BY <1>1 DEF strcpy!Span, Copy
<1>4. /\ mem = [a \in DOMAIN call.mem |-> mem[a]]
      /\ \A a \in DOMAIN call.mem :
            mem[a] = IF a \in Copy THEN call.mem[a + (strcpy!srcin - strcpy!dstin)]
                     ELSE call.mem[a]
  BY <1>2, SoFarIs
<1>. QED
  BY <1>3, <1>4 DEF strcpy!Moved, strcpy!Copied

\* The string is still in memory, whatever of it has been copied.
LEMMA StringKept ==
    ASSUME strcpy!ValidCall(call), NEW k, strcpy!SoFar(k)
    PROVE  /\ \A x \in strcpy!srcin .. (strcpy!srcin + strcpy!Length) : mem[x] = call.mem[x]
           /\ IsString(mem, strcpy!srcin, strcpy!Length)
           /\ DOMAIN mem = DOMAIN call.mem
<1> DEFINE s == strcpy!srcin
           L == strcpy!Length
<1>1. /\ strcpy!dstin \in Nat /\ s \in Nat /\ L \in Nat
      /\ IsString(call.mem, s, L) /\ s .. (s + L) \subseteq DOMAIN call.mem
      /\ s + L < strcpy!dstin \/ strcpy!dstin + L < s
  BY LengthIs
<1>2. ASSUME NEW x \in s .. (s + L) PROVE mem[x] = call.mem[x]
  <2>1. x \in DOMAIN call.mem /\ x \notin Copy
    BY <1>1 DEF Copy
  <2>. QED
    BY <2>1, SoFarIs
<1>3. DOMAIN mem = DOMAIN call.mem
  <2>1. mem = [a \in DOMAIN call.mem |-> mem[a]]
    BY SoFarIs
  <2>. QED
    BY <2>1
<1> HIDE DEF s, L
<1>4. s + L \in s .. (s + L) /\ \A j \in 0 .. (L - 1) : s + j \in s .. (s + L)
  BY <1>1
<1>5. IsString(mem, s, L)
  BY <1>1, <1>2, <1>4 DEF IsString
<1>. QED
  BY <1>2, <1>3, <1>5 DEF s, L

\* A chunk that lies within the string can be loaded from either memory.
LEMMA ChunkKept ==
    ASSUME strcpy!ValidCall(call), NEW k, strcpy!SoFar(k), NEW a \in Int,
           strcpy!srcin <= a, a + W <= strcpy!srcin + strcpy!Length + 1
    PROVE  ldrq(mem, a, strcpy!big) = ldrq(call.mem, a, strcpy!big)
<1>1. strcpy!srcin \in Nat /\ strcpy!Length \in Nat /\ W \in Nat
  BY LengthIs, WAssumption
<1>2. ASSUME NEW i \in 0 .. (W - 1) PROVE mem[a + i] = call.mem[a + i]
  <2>1. a + i \in strcpy!srcin .. (strcpy!srcin + strcpy!Length)
    BY <1>1
  <2>. QED
    BY <2>1, StringKept
<1>3. \A i \in Lanes : (W - 1) - i \in 0 .. (W - 1) /\ i \in 0 .. (W - 1)
  BY <1>1 DEF Lanes
<1>4. \A i \in Lanes : /\ mem[a + ((W - 1) - i)] = call.mem[a + ((W - 1) - i)]
                      /\ mem[a + i] = call.mem[a + i]
  BY <1>2, <1>3
<1>. QED
  BY <1>4 DEF ldrq

\* A step that stores bytes of the string to their places in the copy.
LEMMA Stored ==
    ASSUME strcpy!ValidCall(call), UNCHANGED call, NEW k \in Nat, strcpy!SoFar(k),
           NEW R, R \subseteq Copy, NEW l \in Nat,
           \A x \in strcpy!dstin .. (strcpy!dstin + l - 1) : x \in R \/ x < strcpy!dstin + k,
           mem' = [x \in DOMAIN mem |-> mem'[x]],
           \A x \in DOMAIN mem : IF x \in R
                                 THEN mem'[x] = call.mem[x + (strcpy!srcin - strcpy!dstin)]
                                 ELSE mem'[x] = mem[x]
    PROVE  strcpy!SoFar(l)'
<1>1. /\ strcpy!dstin' = strcpy!dstin /\ strcpy!srcin' = strcpy!srcin
      /\ strcpy!Length' = strcpy!Length
  BY StrcpySameCall
<1>2. DOMAIN mem = DOMAIN call.mem /\ strcpy!dstin \in Nat
  BY StringKept, LengthIs
<1>3. ASSUME NEW a \in DOMAIN call.mem
      PROVE  /\ a \in strcpy!dstin .. (strcpy!dstin + l - 1)
                    => mem'[a] = call.mem[a + (strcpy!srcin - strcpy!dstin)]
             /\ a \notin Copy => mem'[a] = call.mem[a]
  <2>1. /\ a \in strcpy!dstin .. (strcpy!dstin + k - 1)
               => mem[a] = call.mem[a + (strcpy!srcin - strcpy!dstin)]
        /\ a \notin Copy => mem[a] = call.mem[a]
    BY SoFarIs
  <2>2. ASSUME a \in strcpy!dstin .. (strcpy!dstin + l - 1), a \notin R
        PROVE  a \in strcpy!dstin .. (strcpy!dstin + k - 1)
    BY <1>2, <2>2
  <2>. QED
    BY <1>2, <2>1, <2>2
<1>4. strcpy!Span(strcpy!dstin, strcpy!Length + 1) = Copy
  BY LengthIs DEF strcpy!Span, Copy
<1>5. call' = call /\ DOMAIN mem = DOMAIN call.mem
  BY <1>2
<1>. QED
  BY <1>1, <1>3, <1>4, <1>5 DEF strcpy!SoFar, strcpy!Span

\* Bytes copied from where they still are.
LEMMA CopiedAdds ==
    ASSUME strcpy!ValidCall(call), UNCHANGED call, NEW k \in Nat, strcpy!SoFar(k),
           NEW R, R \subseteq Copy, NEW l \in Nat,
           \A x \in strcpy!dstin .. (strcpy!dstin + l - 1) : x \in R \/ x < strcpy!dstin + k,
           mem' = strcpy!Copied(mem, strcpy!srcin - strcpy!dstin, R)
    PROVE  strcpy!SoFar(l)'
<1> DEFINE delta == strcpy!srcin - strcpy!dstin
<1>1. strcpy!dstin \in Nat /\ strcpy!srcin \in Nat /\ strcpy!Length \in Nat
  BY LengthIs
<1>2. ASSUME NEW x \in R PROVE mem[x + delta] = call.mem[x + delta]
  <2>1. x \in strcpy!dstin .. (strcpy!dstin + strcpy!Length)
    BY DEF Copy
  <2>2. x + delta \in strcpy!srcin .. (strcpy!srcin + strcpy!Length)
    BY <1>1, <2>1
  <2>. QED
    BY <2>2, StringKept
<1> HIDE DEF delta
<1>3. mem' = [x \in DOMAIN mem |-> IF x \in R THEN mem[x + delta] ELSE mem[x]]
  BY DEF strcpy!Copied, delta
<1>4. \A x \in DOMAIN mem : IF x \in R THEN mem'[x] = call.mem[x + delta] ELSE mem'[x] = mem[x]
  BY <1>2, <1>3
<1>5. mem' = [x \in DOMAIN mem |-> mem'[x]]
  BY <1>3
<1>. QED
  BY <1>4, <1>5, Stored DEF delta

\* A chunk of the string stored from dataq: in either byte order the lanes go
\* back to the order they came from.
LEMMA StoredQAdds ==
    ASSUME strcpy!ValidCall(call), UNCHANGED call, NEW k \in Nat, strcpy!SoFar(k),
           NEW c \in Int, c = strcpy!srcin + k, c + W <= strcpy!srcin + strcpy!Length + 1,
           vdata = ldrq(call.mem, c, strcpy!big),
           NEW a, a = c - (strcpy!srcin - strcpy!dstin), mem' = strcpy!StoredQ(a)
    PROVE  strcpy!SoFar(k + W)'
<1> DEFINE delta == strcpy!srcin - strcpy!dstin
           R == a .. (a + W - 1)
           v == [i \in Lanes |-> vdata[IF strcpy!big THEN (W - 1) - i ELSE i]]
<1>1. /\ strcpy!dstin \in Nat /\ strcpy!srcin \in Nat /\ strcpy!Length \in Nat /\ W \in Nat
      /\ strcpy!big \in BOOLEAN
  BY LengthIs, WAssumption
<1>2. a \in Int /\ a = strcpy!dstin + k /\ delta \in Int /\ a + delta = c
  BY <1>1
<1>3. ASSUME NEW x \in R PROVE v[x - a] = call.mem[x + delta]
  <2>1. x - a \in Lanes /\ c + (x - a) = x + delta
    BY <1>1, <1>2 DEF Lanes
  <2> HIDE DEF delta, R
  <2>2. v[x - a] = vdata[LaneOf(x - a, strcpy!big)]
    BY <2>1 DEF LaneOf
  <2>3. vdata[LaneOf(x - a, strcpy!big)] = call.mem[c + (x - a)]
    BY <1>1, <2>1, ldrqAt
  <2>. QED
    BY <2>1, <2>2, <2>3
<1>4. mem' = [x \in DOMAIN mem |-> IF a <= x /\ x < a + W THEN v[x - a] ELSE mem[x]]
  BY StrcpyNames DEF strcpy!StoredQ, strcpy!Store
<1>5. DOMAIN mem \subseteq Nat
  <2>1. DOMAIN mem = DOMAIN call.mem /\ DOMAIN call.mem \subseteq Nat
    BY StringKept DEF strcpy!ValidCall
  <2>. QED
    BY <2>1
<1> HIDE DEF v
<1>6. \A x \in DOMAIN mem : (a <= x /\ x < a + W) <=> x \in R
  BY <1>1, <1>2, <1>5
<1>7. R \subseteq Copy
  BY <1>1, <1>2 DEF Copy
<1>8. \A x \in strcpy!dstin .. (strcpy!dstin + (k + W) - 1) : x \in R \/ x < strcpy!dstin + k
  BY <1>1, <1>2
<1> HIDE DEF R, delta
<1>9. \A x \in DOMAIN mem : IF x \in R THEN mem'[x] = call.mem[x + delta] ELSE mem'[x] = mem[x]
  BY <1>3, <1>4, <1>6
<1>10. mem' = [x \in DOMAIN mem |-> mem'[x]] /\ k + W \in Nat
  BY <1>1, <1>4
<1>. QED
  BY <1>7, <1>8, <1>9, <1>10, Stored DEF delta

\* Loads of an aligned chunk that has a byte of the string, or of its bytes only.
LEMMA LoadsChunk ==
    ASSUME strcpy!ValidCall(call), UNCHANGED call,
           NEW a \in Int, a % W = 0, strcpy!srcin - (strcpy!srcin % W) <= a,
           a <= strcpy!srcin + strcpy!Length, rd' = strcpy!Span(a, W), wr' \subseteq Copy
    PROVE  strcpy!Footprint'
<1> DEFINE s == strcpy!srcin
           e == s + strcpy!Length
<1>1. /\ s \in Nat /\ strcpy!Length \in Nat /\ W \in Nat
      /\ strcpy!dstin' = strcpy!dstin /\ s' = s /\ strcpy!Length' = strcpy!Length
  BY LengthIs, StrcpySameCall, WAssumption
<1>2. s % W \in Int /\ e % W \in Int
  BY <1>1, DivMod, WAssumption
<1>3. a <= e - (e % W)
  BY <1>1, Chunks, WAssumption
<1>4. strcpy!Span(strcpy!dstin, strcpy!Length + 1) = Copy /\ rd' = a .. (a + W - 1)
  BY LengthIs DEF strcpy!Span, Copy
<1> HIDE DEF s
<1>5. rd' \subseteq (s - (s % W)) .. ((e - (e % W)) + W - 1)
  BY <1>1, <1>2, <1>3, <1>4 DEF s
<1>. QED
  BY <1>1, <1>4, <1>5 DEF strcpy!Footprint, strcpy!Span, s

LEMMA LoadsString ==
    ASSUME strcpy!ValidCall(call), UNCHANGED call,
           rd' \subseteq strcpy!srcin .. (strcpy!srcin + strcpy!Length), wr' \subseteq Copy
    PROVE  strcpy!Footprint'
<1> DEFINE s == strcpy!srcin
           e == s + strcpy!Length
<1>1. /\ s \in Nat /\ strcpy!Length \in Nat /\ W \in Nat
      /\ strcpy!dstin' = strcpy!dstin /\ s' = s /\ strcpy!Length' = strcpy!Length
  BY LengthIs, StrcpySameCall, WAssumption
<1>2. s % W \in 0 .. (W - 1) /\ e % W \in 0 .. (W - 1)
  BY <1>1, DivMod, WAssumption
<1>3. s - (s % W) <= s /\ e <= (e - (e % W)) + W - 1
  BY <1>1, <1>2
<1>4. strcpy!Span(strcpy!dstin, strcpy!Length + 1) = Copy
  BY LengthIs DEF strcpy!Span, Copy
<1> HIDE DEF s
<1>5. rd' \subseteq (s - (s % W)) .. ((e - (e % W)) + W - 1)
  BY <1>1, <1>2, <1>3 DEF s
<1>. QED
  BY <1>1, <1>4, <1>5 DEF strcpy!Footprint, strcpy!Span, s

\* strcpy may return when all of the string has been copied.
LEMMA StrcpyReturn ==
    ASSUME strcpy!ValidCall(call), UNCHANGED call, pc' = "ret", src' \in Nat,
           strcpy!SoFar(strcpy!Length + 1)',
           result' = strcpy!dstin + (IF call.routine = "stpcpy" THEN strcpy!Length ELSE 0),
           strcpy!Footprint'
    PROVE  strcpy!IInv'
<1>1. /\ (strcpy!ValidCall(call))' /\ strcpy!dstin' = strcpy!dstin
      /\ strcpy!Length' = strcpy!Length
  BY StrcpySameCall
<1>2. (mem = strcpy!Moved(call.mem, strcpy!dstin, strcpy!srcin, strcpy!Length + 1))'
  <2>1. strcpy!ValidCall(call)' /\ strcpy!SoFar(strcpy!Length + 1)'
    BY <1>1
  <2>. QED
    BY <2>1, AllCopied, PTL
<1>3. strcpy!Effect'
  BY <1>1, <1>2 DEF strcpy!Effect
<1>. QED
  BY <1>1, <1>3 DEF strcpy!IInv

-----------------------------------------------------------------------------
\* A call starts with the invariant.
LEMMA StrcpyInitIInv ==
    ASSUME strcpy!Init
    PROVE  strcpy!IInv
<1>1. strcpy!ValidCall(call)
  BY StringCallsAssumption DEF strcpy!Init
<1>2. /\ strcpy!srcin \in Nat /\ strcpy!srcin % W \in Int
      /\ strcpy!srcin - (strcpy!srcin % W) \in Nat
  <2>1. strcpy!srcin \in Nat
    BY <1>1, LengthIs
  <2>2. strcpy!srcin % W \in 0 .. (W - 1) /\ strcpy!srcin % W <= strcpy!srcin
    BY <2>1, WAssumption
  <2>. QED
    BY <2>1, <2>2, WAssumption
<1>3. strcpy!Footprint
  BY DEF strcpy!Init, strcpy!Footprint
<1>. QED
  BY <1>1, <1>2, <1>3 DEF strcpy!Init, strcpy!IInv

\* The weights of the bits of len that are tested.
LEMMA BitIs ==
    ASSUME NEW l \in 0 .. 31
    PROVE  /\ strcpy!Bit(4, l) <=> l >= 16
           /\ l < 16 => (strcpy!Bit(3, l) <=> l >= 8)
<1>1. strcpy!Bit(4, l) <=> (l \div 16) % 2 = 1
  BY DEF strcpy!Bit
<1>2. strcpy!Bit(3, l) <=> (l \div 8) % 2 = 1
  BY DEF strcpy!Bit
<1>. QED
  BY <1>1, <1>2

LEMMA StrcpyEntry ==
    ASSUME strcpy!IInv, strcpy!Entry
    PROVE  strcpy!IInv'
<1> DEFINE s == strcpy!srcin
           L == strcpy!Length
           Y == s - (s % W)
           X == lsr(Quads(Having(ld1(mem, Y), {0})), 4 * s)
<1>1. /\ strcpy!ValidCall(call) /\ pc = "entry" /\ src = Y /\ src \in Nat /\ mem = call.mem
      /\ UNCHANGED <<call, mem, src>>
  BY DEF strcpy!IInv, strcpy!Entry
<1>2. s \in Nat /\ L \in Nat /\ IsString(mem, s, L)
  BY <1>1, LengthIs
<1>3. s % W \in 0 .. (W - 1) /\ Y % W = 0 /\ W \in Nat
  BY <1>2, DivMod, ModOfAligned, WAssumption
<1>4. shrn(cmeq(ld1(mem, Y), 0)) = Quads(Having(ld1(mem, Y), {0}))
  BY cmeqIs, shrnMask
<1>5. /\ rd' = strcpy!Span(src, W) /\ wr' = {}
      /\ IF X = {} THEN pc' = "second" ELSE pc' = "less16" /\ len' = clz(rbit(X)) \div 4
  BY <1>1, <1>4, StrcpyNames DEF strcpy!Entry, strcpy!Syndrome
<1>6. strcpy!Footprint'
  BY <1>1, <1>2, <1>3, <1>5, LoadsChunk
<1>7. /\ strcpy!srcin' = s /\ strcpy!Length' = L /\ (strcpy!ValidCall(call))'
  BY <1>1, StrcpySameCall
<1>8. CASE X = {}
  <2>1. HeadClean(mem, s, {0})
    BY <1>2, <1>8, ld1Empty DEF Quads
  <2>2. Y + W <= s + L
    BY <1>2, <2>1, StringHead
  <2>. QED
    BY <1>1, <1>5, <1>6, <1>7, <1>8, <2>2 DEF strcpy!IInv
<1>9. CASE X # {}
  <2> DEFINE f == clz(rbit(X))
  <2>1. X = lsr(Pairs(Having(ld1(mem, s - (s % W)), {0}),
                      Having(ld1(mem, s - (s % W)), {0})), 4 * s)
    BY DEF Quads
  <2> HIDE DEF X
  <2>2. f = clz(rbit(X)) /\ s \in Int
    BY <1>2
  <2> HIDE DEF f
  <2>3. Leads(mem, s, f \div 4, {0} \cup {0})
    BY <1>9, <2>1, <2>2, ld1First
  <2>4. f \div 4 \in 0 .. ((W - 1) - (s % W))
    BY <1>9, <2>1, <2>2, ld1First
  <2>5. f \div 4 = L
    <3>1. PICK g : g = f \div 4
      OBVIOUS
    <3>2. {0} \cup {0} = {0}
      OBVIOUS
    <3>3. g \in 0 .. ((W - 1) - (s % W)) /\ Leads(mem, s, g, {0})
      BY <2>3, <2>4, <3>1, <3>2
    <3>4. g = L
      BY <1>2, <3>3, StringHead
    <3>. QED
      BY <3>1, <3>4
  <2>6. L < 16
    BY <1>3, <2>4, <2>5, VectorsAssumption
  <2>7. pc' = "less16" /\ len' = L
    BY <1>5, <1>9, <2>2, <2>5
  <2>. QED
    BY <1>1, <1>6, <1>7, <2>6, <2>7 DEF strcpy!IInv
<1>. QED
  BY <1>8, <1>9

LEMMA StrcpySecond ==
    ASSUME strcpy!IInv, strcpy!Second
    PROVE  strcpy!IInv'
<1> DEFINE s == strcpy!srcin
           L == strcpy!Length
           a == src + W
           M == Having(ldrq(mem, a, strcpy!big), {0})
           X == Quads(M)
<1>1. /\ strcpy!ValidCall(call) /\ src = s - (s % W) /\ src \in Nat /\ mem = call.mem
      /\ a <= s + L /\ UNCHANGED <<call, mem>> /\ src' = a
      /\ wr' = {}
  BY DEF strcpy!IInv, strcpy!Second
<1>2. /\ s \in Nat /\ L \in Nat /\ IsString(mem, s, L) /\ strcpy!big \in BOOLEAN
  BY <1>1, LengthIs
<1>3. s % W \in 0 .. (W - 1) /\ W \in Nat /\ src % W = 0 /\ W = 16
  BY <1>1, <1>2, DivMod, ModOfAligned, WAssumption, VectorsAssumption
<1>4. a \in Nat /\ s < a /\ a <= s + W /\ s - (s % W) <= a
  BY <1>1, <1>2, <1>3
<1>5. a % W = 0
  BY <1>1, <1>3, ModPlus
<1>6. vdata' = ldrq(mem, a, strcpy!big) /\ rd' = strcpy!Span(a, W)
  BY StrcpyNames DEF strcpy!Second, strcpy!LoadQ
<1>7. strcpy!Syndrome(vdata') = X
  BY <1>6, cmeqIs, shrnMask, StrcpyNames DEF strcpy!Syndrome
<1>8. strcpy!Footprint'
  BY <1>1, <1>4, <1>5, <1>6, LoadsChunk
<1>9. /\ strcpy!srcin' = s /\ strcpy!Length' = L /\ strcpy!big' = strcpy!big
      /\ (strcpy!ValidCall(call))'
  BY <1>1, StrcpySameCall
<1>10. X = {} <=> ChunkClean(mem, a, {0})
  BY <1>2, <1>4, QuadsEmpty, ldrqClean
<1>11. /\ ChunkClean(mem, a, {0}) => a + W <= s + L
       /\ \A f \in Lanes : Leads(mem, a, f, {0}) => a + f = s + L
  <2>1. PICK b : b = a
    OBVIOUS
  <2>2. b \in Int /\ s <= b /\ b <= s + L
    BY <1>1, <1>2, <1>4, <2>1
  <2>3. ChunkClean(mem, b, {0}) => b + W <= s + L
    BY <1>2, <2>2, StringChunk
  <2>4. \A f \in Lanes : Leads(mem, b, f, {0}) => b + f = s + L
    BY <1>2, <2>2, StringChunk
  <2>. QED
    BY <2>1, <2>3, <2>4
<1>12. CASE X = {}
  <2>1. pc' = "start_loop"
    BY <1>7, <1>12 DEF strcpy!Second
  <2>2. a + W <= s + L
    BY <1>10, <1>12, <1>11
  <2> HIDE DEF a
  <2>3. (strcpy!Loaded(src))'
    BY <1>1, <1>4, <1>5, <1>6, <1>9, <2>2, StrcpyNames DEF strcpy!Loaded
  <2>. QED
    BY <1>1, <1>4, <1>8, <1>9, <2>1, <2>3 DEF strcpy!IInv
<1>13. CASE X # {}
  <2> DEFINE f == clz(IF strcpy!big THEN X ELSE rbit(X)) \div 4
  <2>1. f \in Lanes /\ Leads(mem, a, f, {0})
    BY <1>2, <1>4, <1>10, <1>13, QuadsFirst
  <2>2. strcpy!Index(X) = f
    BY StrcpyNames DEF strcpy!Index
  <2>3. len' = (a - s) + f /\ pc' = IF strcpy!Bit(4, len') THEN "more16" ELSE "less16"
    BY <1>1, <1>7, <1>13, <2>2 DEF strcpy!Second
  <2> HIDE DEF f, X
  <2>4. f \in 0 .. 15 /\ a + f = s + L
    BY <1>3, <1>11, <2>1 DEF Lanes
  <2>5. len' = L /\ L \in 0 .. 31
    BY <1>2, <1>3, <1>4, <2>3, <2>4
  <2>6. IF L >= 16 THEN pc' = "more16" ELSE pc' = "less16"
    BY <2>3, <2>5, BitIs
  <2> HIDE DEF a
  <2>7. L >= 16 \/ L < 16
    BY <2>5
  <2>8. L >= 16 => L \in 16 .. 31
    BY <2>5
  <2>. QED
    BY <1>1, <1>4, <1>8, <1>9, <2>5, <2>6, <2>7, <2>8 DEF strcpy!IInv
<1>. QED
  BY <1>12, <1>13

\* The string is copied by its first and last blocks when they cover it.
LEMMA EndsOfStep ==
    ASSUME strcpy!IInv, pc \in {"less16", "more16"}, NEW w \in Nat,
           w <= strcpy!Length + 1, strcpy!Length + 1 <= 2 * w, strcpy!EndsOf(w)
    PROVE  strcpy!IInv'
<1> DEFINE s == strcpy!srcin
           d == strcpy!dstin
           L == strcpy!Length
           R == UNION {strcpy!Span(d + o, w) : o \in {0, (L + 1) - w}}
<1>1. /\ strcpy!ValidCall(call) /\ mem = call.mem /\ len = L /\ src \in Nat
      /\ UNCHANGED <<call, src>>
  BY DEF strcpy!IInv, strcpy!EndsOf
<1>2. s \in Nat /\ d \in Nat /\ L \in Nat
  BY <1>1, LengthIs
<1>3. R = d .. (d + w - 1) \cup (d + (L + 1) - w) .. (d + L)
  <2>1. strcpy!Span(d + 0, w) = d .. (d + w - 1)
    BY <1>2 DEF strcpy!Span
  <2>2. strcpy!Span(d + ((L + 1) - w), w) = (d + (L + 1) - w) .. (d + L)
    BY <1>2 DEF strcpy!Span
  <2>. QED
    BY <2>1, <2>2
<1>4. UNION {strcpy!Span(s + o, w) : o \in {0, (L + 1) - w}} \subseteq s .. (s + L)
  <2>1. strcpy!Span(s + 0, w) \subseteq s .. (s + L)
    BY <1>2 DEF strcpy!Span
  <2>2. strcpy!Span(s + ((L + 1) - w), w) \subseteq s .. (s + L)
    BY <1>2 DEF strcpy!Span
  <2>. QED
    BY <2>1, <2>2
<1>5. /\ mem' = strcpy!Copied(mem, s - d, R) /\ wr' = R
      /\ rd' = UNION {strcpy!Span(s + o, w) : o \in {0, (L + 1) - w}}
  BY <1>1 DEF strcpy!EndsOf, strcpy!Copy
<1>6. pc' = "ret" /\ result' = d + (IF call.routine = "stpcpy" THEN L ELSE 0)
  BY <1>1 DEF strcpy!EndsOf, strcpy!Returns, strcpy!ReturnsLast
<1> HIDE DEF R
<1>7. R \subseteq Copy
  BY <1>2, <1>3 DEF Copy
<1>8. strcpy!Footprint'
  BY <1>1, <1>4, <1>5, <1>7, LoadsString
<1>9. \A x \in d .. (d + (L + 1) - 1) : x \in R \/ x < d + 0
  BY <1>2, <1>3
<1>10. strcpy!SoFar(0) /\ L + 1 \in Nat /\ 0 \in Nat
  BY <1>1, <1>2, NothingYet
<1>11. strcpy!SoFar(L + 1)'
  <2>1. ASSUME NEW l, l = L + 1 PROVE strcpy!SoFar(l)'
    <3>1. l \in Nat /\ \A x \in d .. (d + l - 1) : x \in R \/ x < d + 0
      BY <1>9, <1>10, <2>1
    <3>. QED
      BY <1>1, <1>5, <1>7, <1>10, <3>1, CopiedAdds
  <2>2. L' = L
    BY <1>1, StrcpySameCall
  <2>. QED
    BY <2>1, <2>2
<1>. QED
  BY <1>1, <1>6, <1>8, <1>11, StrcpyReturn

LEMMA StrcpyShort ==
    ASSUME strcpy!IInv, strcpy!More16 \/ strcpy!Less16 \/ strcpy!Less8
    PROVE  strcpy!IInv'
<1>1. strcpy!Length \in Nat
  BY LengthIs DEF strcpy!IInv
<1>2. CASE strcpy!More16
  <2>1. strcpy!Length \in 16 .. 31 /\ pc \in {"less16", "more16"} /\ strcpy!EndsOf(16)
    BY <1>2 DEF strcpy!IInv, strcpy!More16
  <2>. QED
    BY <2>1, EndsOfStep
<1>3. CASE strcpy!Less16
  <2>1. /\ strcpy!Length < 16 /\ strcpy!Bit(3, strcpy!Length) /\ pc \in {"less16", "more16"}
        /\ strcpy!EndsOf(8)
    BY <1>3 DEF strcpy!IInv, strcpy!Less16
  <2>2. strcpy!Length \in 8 .. 15
    BY <1>1, <2>1, BitIs
  <2>. QED
    BY <2>1, <2>2, EndsOfStep
<1>4. CASE strcpy!Less8
  <2>1. /\ strcpy!Length < 16 /\ ~strcpy!Bit(3, strcpy!Length) /\ strcpy!Length >= 3
        /\ pc \in {"less16", "more16"} /\ strcpy!EndsOf(4)
    BY <1>4 DEF strcpy!IInv, strcpy!Less8
  <2>2. strcpy!Length \in 3 .. 7
    BY <1>1, <2>1, BitIs
  <2>. QED
    BY <2>1, <2>2, EndsOfStep
<1>. QED
  BY <1>2, <1>3, <1>4

LEMMA StrcpyLess4 ==
    ASSUME strcpy!IInv, strcpy!Less4
    PROVE  strcpy!IInv'
<1> DEFINE s == strcpy!srcin
           d == strcpy!dstin
           L == strcpy!Length
           half == IF L = 0 THEN {} ELSE strcpy!Span(d, 2)
           R == half \cup {d + L}
<1>1. /\ strcpy!ValidCall(call) /\ mem = call.mem /\ len = L /\ src \in Nat /\ L < 3
      /\ UNCHANGED <<call, src>>
  BY DEF strcpy!IInv, strcpy!Less4
<1>2. s \in Nat /\ d \in Nat /\ L \in Nat /\ call.mem[s + L] = 0
  BY <1>1, LengthIs DEF IsString
<1>3. half = IF L = 0 THEN {} ELSE {d, d + 1}
  <2>1. strcpy!Span(d, 2) = d .. (d + 1)
    BY <1>2 DEF strcpy!Span
  <2>2. d .. (d + 1) = {d, d + 1}
    BY <1>2
  <2>. QED
    BY <2>1, <2>2
<1>4. /\ mem' = [strcpy!Copied(mem, s - d, half) EXCEPT ![d + L] = 0]
      /\ rd' = {x + (s - d) : x \in half} /\ wr' = R
      /\ pc' = "ret" /\ result' = d + (IF call.routine = "stpcpy" THEN L ELSE 0)
  BY <1>1 DEF strcpy!Less4, strcpy!Returns, strcpy!ReturnsLast
<1> HIDE DEF half
<1>5. R \subseteq Copy
  BY <1>2, <1>3 DEF Copy
<1>6. rd' \subseteq s .. (s + L)
  BY <1>2, <1>3, <1>4
<1>7. strcpy!Footprint'
  BY <1>1, <1>4, <1>5, <1>6, LoadsString
<1>8. \A x \in d .. (d + (L + 1) - 1) : x \in R \/ x < d + 0
  BY <1>1, <1>2, <1>3
<1>9. mem' = [x \in DOMAIN mem |-> mem'[x]]
  BY <1>4 DEF strcpy!Copied
<1>10. ASSUME NEW x \in DOMAIN mem
       PROVE  IF x \in R THEN mem'[x] = call.mem[x + (s - d)] ELSE mem'[x] = mem[x]
  <2>1. CASE x = d + L
    <3>1. mem'[x] = 0
      BY <1>4, <2>1 DEF strcpy!Copied
    <3>2. x + (s - d) = s + L
      BY <1>2, <2>1
    <3>. QED
      BY <1>2, <2>1, <3>1, <3>2
  <2>2. CASE x # d + L
    <3>1. mem'[x] = IF x \in half THEN mem[x + (s - d)] ELSE mem[x]
      BY <1>4, <2>2 DEF strcpy!Copied
    <3>. QED
      BY <1>1, <2>2, <3>1
  <2>. QED
    BY <2>1, <2>2
<1>11. strcpy!SoFar(0) /\ L + 1 \in Nat /\ 0 \in Nat
  BY <1>1, <1>2, NothingYet
<1> HIDE DEF R
<1>12. strcpy!SoFar(L + 1)'
  <2>1. ASSUME NEW l, l = L + 1 PROVE strcpy!SoFar(l)'
    <3>1. l \in Nat /\ \A x \in d .. (d + l - 1) : x \in R \/ x < d + 0
      BY <1>8, <1>11, <2>1
    <3>. QED
      BY <1>1, <1>5, <1>9, <1>10, <1>11, <3>1, Stored
  <2>2. L' = L
    BY <1>1, StrcpySameCall
  <2>. QED
    BY <2>1, <2>2
<1>. QED
  BY <1>1, <1>4, <1>7, <1>12, StrcpyReturn

\* The first chunk, at any alignment, is copied before the aligned ones.
LEMMA StrcpyStartLoop ==
    ASSUME strcpy!IInv, strcpy!StartLoop
    PROVE  strcpy!IInv'
<1> DEFINE s == strcpy!srcin
           d == strcpy!dstin
           L == strcpy!Length
           R == UNION {strcpy!Span(d + o, W) : o \in {0}}
<1>1. /\ strcpy!ValidCall(call) /\ mem = call.mem /\ strcpy!Loaded(src) /\ src <= s + W
      /\ src \in Nat /\ UNCHANGED <<call, src, vdata>>
      /\ tmp' = s - d /\ dst' = src - tmp' /\ pc' = "loop"
  BY DEF strcpy!IInv, strcpy!StartLoop
<1>2. s \in Nat /\ d \in Nat /\ L \in Nat /\ W \in Nat
  BY <1>1, LengthIs, WAssumption
<1>3. s < src /\ src + W <= s + L
  BY <1>1 DEF strcpy!Loaded
<1>4. R = d .. (d + W - 1)
  <2>1. strcpy!Span(d + 0, W) = d .. (d + W - 1)
    BY <1>2 DEF strcpy!Span
  <2>. QED
    BY <2>1
<1>5. UNION {strcpy!Span(s + o, W) : o \in {0}} \subseteq s .. (s + L)
  <2>1. strcpy!Span(s + 0, W) \subseteq s .. (s + L)
    BY <1>1, <1>2, <1>3 DEF strcpy!Span
  <2>. QED
    BY <2>1
<1>6. /\ mem' = strcpy!Copied(mem, s - d, R) /\ wr' = R
      /\ rd' = UNION {strcpy!Span(s + o, W) : o \in {0}}
  BY DEF strcpy!StartLoop, strcpy!Copy
<1> HIDE DEF R
<1>7. R \subseteq Copy
  BY <1>1, <1>2, <1>3, <1>4 DEF Copy
<1>8. strcpy!Footprint'
  BY <1>1, <1>5, <1>6, <1>7, LoadsString
<1>9. /\ strcpy!srcin' = s /\ strcpy!dstin' = d /\ L' = L /\ strcpy!big' = strcpy!big
      /\ (strcpy!ValidCall(call))'
  BY <1>1, StrcpySameCall
<1>10. strcpy!SoFar(src - s)'
  <2>1. ASSUME NEW l, l = src - s PROVE strcpy!SoFar(l)'
    <3>1. l \in Nat /\ \A x \in d .. (d + l - 1) : x \in R \/ x < d + 0
      BY <1>1, <1>2, <1>3, <1>4, <2>1
    <3>2. strcpy!SoFar(0) /\ 0 \in Nat
      BY <1>1, NothingYet
    <3>. QED
      BY <1>1, <1>6, <1>7, <3>1, <3>2, CopiedAdds
  <2>2. src' - s' = src - s
    BY <1>1, <1>9
  <2>. QED
    BY <2>1, <2>2
<1>11. strcpy!Loaded(src)'
  BY <1>1, <1>9, StrcpyNames DEF strcpy!Loaded
<1>12. strcpy!InLoop(src)'
  BY <1>1, <1>9, <1>10, <1>11 DEF strcpy!InLoop
<1>. QED
  BY <1>1, <1>8, <1>9, <1>12 DEF strcpy!IInv

\* What is kept while the string is copied.
Kept ==
    \A k : strcpy!SoFar(k) =>
        /\ IsString(mem, strcpy!srcin, strcpy!Length)
        /\ \A a \in Int : strcpy!srcin <= a /\ a + W <= strcpy!srcin + strcpy!Length + 1
                => ldrq(mem, a, strcpy!big) = ldrq(call.mem, a, strcpy!big)

LEMMA KeptAlways == strcpy!ValidCall(call) => Kept
<1> SUFFICES ASSUME strcpy!ValidCall(call), NEW k, strcpy!SoFar(k)
             PROVE  /\ IsString(mem, strcpy!srcin, strcpy!Length)
                    /\ \A a \in Int :
                          strcpy!srcin <= a /\ a + W <= strcpy!srcin + strcpy!Length + 1
                            => ldrq(mem, a, strcpy!big) = ldrq(call.mem, a, strcpy!big)
  BY DEF Kept
<1>1. IsString(mem, strcpy!srcin, strcpy!Length)
  BY StringKept
<1>2. ASSUME NEW a \in Int, strcpy!srcin <= a, a + W <= strcpy!srcin + strcpy!Length + 1
      PROVE  ldrq(mem, a, strcpy!big) = ldrq(call.mem, a, strcpy!big)
  BY <1>2, ChunkKept
<1>. QED
  BY <1>1, <1>2

\* A step of the loop: a chunk of the string is stored and the next one loaded.
LEMMA Advance ==
    ASSUME strcpy!ValidCall(call), UNCHANGED call,
           NEW c \in Int, strcpy!Loaded(c), strcpy!SoFar(c - strcpy!srcin),
           tmp = strcpy!srcin - strcpy!dstin, tmp' = tmp,
           NEW t, t = c - tmp, mem' = strcpy!StoredQ(t), wr' = strcpy!Span(t, W),
           NEW a, a = c + W, vdata' = ldrq(mem', a, strcpy!big), rd' = strcpy!Span(a, W)
    PROVE  /\ strcpy!HasNul(vdata') => strcpy!AtEnd(a)'
           /\ ~strcpy!HasNul(vdata') => strcpy!InLoop(a)'
           /\ strcpy!Footprint'
<1> DEFINE s == strcpy!srcin
           d == strcpy!dstin
           L == strcpy!Length
<1>1. s \in Nat /\ d \in Nat /\ L \in Nat /\ W \in Nat /\ W > 0 /\ strcpy!big \in BOOLEAN
  BY LengthIs, WAssumption
<1>2. /\ c % W = 0 /\ s < c /\ c + W <= s + L
      /\ vdata = ldrq(call.mem, c, strcpy!big)
  BY StrcpyNames DEF strcpy!Loaded
<1>3. /\ strcpy!srcin' = s /\ strcpy!dstin' = d /\ strcpy!Length' = L
      /\ strcpy!big' = strcpy!big /\ (strcpy!ValidCall(call))'
  BY StrcpySameCall
<1>4. a % W = 0
  BY <1>1, <1>2, ModPlus
<1>5. a \in Nat /\ s + W < a /\ a <= s + L
  BY <1>1, <1>2
<1> PICK k : k = c - s
  OBVIOUS
<1>6. k \in Nat /\ c = s + k /\ t = d + k /\ t = c - (s - d)
  BY <1>1, <1>2
<1>7. strcpy!SoFar(k + W)'
  BY <1>1, <1>2, <1>6, StoredQAdds
<1>8. k + W = a - s
  BY <1>1, <1>6
<1>9. strcpy!SoFar(a - s)'
  BY <1>3, <1>7, <1>8
<1>10. Kept'
  BY <1>3, KeptAlways, PTL
<1>11. /\ IsString(mem', s, L)
       /\ a + W <= s + L => ldrq(mem', a, strcpy!big) = ldrq(call.mem, a, strcpy!big)
  BY <1>1, <1>3, <1>5, <1>7, <1>10 DEF Kept
<1> DEFINE M == Having(ldrq(mem', a, strcpy!big), {0})
<1>12. M = {} <=> ChunkClean(mem', a, {0})
  BY <1>1, <1>5, ldrqClean
<1>13. strcpy!HasNul(vdata') <=> M # {}
  <2>1. cmeq(ldrq(mem', a, strcpy!big), 0) = MaskOf(M)
    BY cmeqIs
  <2>2. M \in SUBSET Lanes
    BY DEF Having
  <2> HIDE DEF M
  <2>3. strcpy!HasNul(vdata') <=> fmov(umaxp(MaskOf(M), MaskOf(M))) # {}
    BY <2>1, StrcpyNames DEF strcpy!HasNul
  <2>. QED
    BY <2>2, <2>3, FoundMask
<1> HIDE DEF M
<1>14. ASSUME strcpy!HasNul(vdata') PROVE strcpy!AtEnd(a)'
  <2>1. ~(\A i \in Lanes : mem'[a + i] # 0)
    BY <1>12, <1>13, <1>14 DEF ChunkClean
  <2>. QED
    BY <1>3, <1>5, <1>9, <2>1, StrcpyNames DEF strcpy!AtEnd
<1>15. ASSUME ~strcpy!HasNul(vdata') PROVE strcpy!InLoop(a)'
  <2>1. a + W <= s + L
    <3>1. ChunkClean(mem', a, {0}) /\ s <= a
      BY <1>1, <1>5, <1>12, <1>13, <1>15
    <3>2. PICK m : m = mem'
      OBVIOUS
    <3>3. IsString(m, s, L) /\ ChunkClean(m, a, {0})
      BY <1>11, <3>1, <3>2
    <3>. QED
      BY <1>1, <1>5, <3>1, <3>3, StringChunk
  <2>2. vdata' = ldrq(call.mem, a, strcpy!big)
    BY <1>11, <2>1
  <2>3. call'.mem = call.mem /\ s < a
    BY <1>1, <1>5
  <2>4. strcpy!Loaded(a)'
    BY <1>3, <1>4, <2>1, <2>2, <2>3, StrcpyNames DEF strcpy!Loaded
  <2>. QED
    BY <1>3, <1>9, <2>4 DEF strcpy!InLoop
<1>16. strcpy!Footprint'
  <2>1. s - (s % W) <= a
    <3>1. s % W \in 0 .. (W - 1)
      BY <1>1, DivMod
    <3>. QED
      BY <1>1, <1>5, <3>1
  <2>2. strcpy!Span(t, W) \subseteq Copy
    BY <1>1, <1>2, <1>6 DEF strcpy!Span, Copy
  <2>. QED
    BY <1>4, <1>5, <2>1, <2>2, LoadsChunk
<1>. QED
  BY <1>14, <1>15, <1>16

LEMMA StrcpyLoop ==
    ASSUME strcpy!IInv, strcpy!Loop
    PROVE  strcpy!IInv'
<1>1. PICK c, t, a : c = src /\ t = dst /\ a = src + W
  OBVIOUS
<1>2. /\ strcpy!ValidCall(call) /\ src \in Nat /\ strcpy!InLoop(src) /\ dst = src - tmp
      /\ UNCHANGED <<call, src, tmp>>
      /\ mem' = strcpy!StoredQ(t) /\ wr' = strcpy!Span(t, W)
      /\ vdata' = ldrq(mem', a, strcpy!big) /\ rd' = strcpy!Span(a, W)
      /\ dst' = dst + 2 * W
      /\ pc' = IF strcpy!HasNul(vdata') THEN "loopend" ELSE "loop_half"
  BY <1>1, StrcpyNames DEF strcpy!IInv, strcpy!Loop, strcpy!LoadQ
<1>3. strcpy!Loaded(c) /\ strcpy!SoFar(c - strcpy!srcin) /\ tmp = strcpy!srcin - strcpy!dstin
  BY <1>1, <1>2 DEF strcpy!InLoop
<1>4. c \in Int /\ W \in Int /\ strcpy!srcin \in Nat /\ strcpy!dstin \in Nat
  BY <1>1, <1>2, LengthIs, WAssumption
<1>5. t = c - tmp /\ a = c + W
  BY <1>1, <1>2
<1>6. /\ strcpy!HasNul(vdata') => strcpy!AtEnd(a)'
      /\ ~strcpy!HasNul(vdata') => strcpy!InLoop(a)'
      /\ strcpy!Footprint'
  BY <1>2, <1>3, <1>4, <1>5, Advance
<1>7. (strcpy!ValidCall(call))'
  BY <1>2, StrcpySameCall
<1>8. /\ (dst' + tmp') - W = a /\ src' + W = a /\ dst' = (src' - tmp') + 2 * W
      /\ dst' \in Int
  BY <1>1, <1>2, <1>3, <1>4
<1>. QED
  BY <1>2, <1>6, <1>7, <1>8 DEF strcpy!IInv

LEMMA StrcpyLoopHalf ==
    ASSUME strcpy!IInv, strcpy!LoopHalf
    PROVE  strcpy!IInv'
<1>1. PICK c, t, a : c = src + W /\ t = dst - W /\ a = src + 2 * W
  OBVIOUS
<1>2. /\ strcpy!ValidCall(call) /\ src \in Nat /\ strcpy!InLoop(src + W)
      /\ dst = (src - tmp) + 2 * W
      /\ UNCHANGED <<call, tmp>> /\ src' = a
      /\ mem' = strcpy!StoredQ(t) /\ wr' = strcpy!Span(t, W)
      /\ vdata' = ldrq(mem', a, strcpy!big) /\ rd' = strcpy!Span(a, W)
      /\ IF strcpy!HasNul(vdata') THEN dst' = dst + W /\ pc' = "loopend"
         ELSE dst' = dst /\ pc' = "loop"
  BY <1>1, StrcpyNames DEF strcpy!IInv, strcpy!LoopHalf, strcpy!LoadQ, strcpy!SkippedOne
<1>3. strcpy!Loaded(c) /\ strcpy!SoFar(c - strcpy!srcin) /\ tmp = strcpy!srcin - strcpy!dstin
  BY <1>1, <1>2 DEF strcpy!InLoop
<1>4. c \in Int /\ W \in Nat /\ strcpy!srcin \in Nat /\ strcpy!dstin \in Nat /\ a \in Nat
  BY <1>1, <1>2, LengthIs, WAssumption
<1>5. t = c - tmp /\ a = c + W
  BY <1>1, <1>2, <1>3, <1>4
<1>6. /\ strcpy!HasNul(vdata') => strcpy!AtEnd(a)'
      /\ ~strcpy!HasNul(vdata') => strcpy!InLoop(a)'
      /\ strcpy!Footprint'
  BY <1>2, <1>3, <1>4, <1>5, Advance
<1>7. (strcpy!ValidCall(call))'
  BY <1>2, StrcpySameCall
<1>8. CASE strcpy!HasNul(vdata')
  <2>1. (dst' + tmp') - W = a /\ dst' \in Int
    BY <1>1, <1>2, <1>3, <1>4, <1>8
  <2>. QED
    BY <1>2, <1>4, <1>6, <1>7, <1>8, <2>1 DEF strcpy!IInv
<1>9. CASE ~strcpy!HasNul(vdata')
  <2>1. dst' = src' - tmp'
    BY <1>1, <1>2, <1>3, <1>4, <1>9
  <2>. QED
    BY <1>2, <1>4, <1>6, <1>7, <1>9, <2>1 DEF strcpy!IInv
<1>. QED
  BY <1>8, <1>9

\* The last W bytes, some of which the loop may have copied.
LEMMA StrcpyLoopEnd ==
    ASSUME strcpy!IInv, strcpy!LoopEnd
    PROVE  strcpy!IInv'
<1> DEFINE s == strcpy!srcin
           d == strcpy!dstin
           L == strcpy!Length
<1>1. PICK a : a = (dst + tmp) - W
  OBVIOUS
<1>2. /\ strcpy!ValidCall(call) /\ src \in Nat /\ strcpy!AtEnd(a) /\ UNCHANGED <<call, src>>
      /\ pc' = "ret" /\ dst \in Int
  BY <1>1 DEF strcpy!IInv, strcpy!LoopEnd
<1>3. /\ s \in Nat /\ d \in Nat /\ L \in Nat /\ W \in Nat /\ W > 0 /\ strcpy!big \in BOOLEAN
  BY <1>2, LengthIs, WAssumption
<1>4. /\ a \in Nat /\ s + W < a /\ a <= s + L
      /\ vdata = ldrq(mem, a, strcpy!big) /\ ~ChunkClean(mem, a, {0})
      /\ tmp = s - d /\ strcpy!SoFar(a - s)
  BY <1>2, StrcpyNames DEF strcpy!AtEnd, ChunkClean
<1>5. IsString(mem, s, L)
  BY <1>2, <1>4, StringKept
<1> DEFINE X == Quads(Having(ldrq(mem, a, strcpy!big), {0}))
           f == clz(IF strcpy!big THEN X ELSE rbit(X)) \div 4
           e == d + L - (W - 1)
<1>6. f \in Lanes /\ Leads(mem, a, f, {0})
  BY <1>3, <1>4, QuadsFirst
<1>7. strcpy!Index(strcpy!Syndrome(vdata)) = f
  <2>1. strcpy!Syndrome(vdata) = X
    BY <1>4, cmeqIs, shrnMask, StrcpyNames DEF strcpy!Syndrome
  <2>. QED
    BY <2>1, StrcpyNames DEF strcpy!Index
<1> HIDE DEF f, X
<1>8. f \in 0 .. (W - 1) /\ a + f = s + L
  BY <1>3, <1>4, <1>5, <1>6, StringChunk DEF Lanes
<1>9. /\ len' = f /\ dst' = (dst - (2 * W - 1)) + f
      /\ mem' = strcpy!Copied(mem, tmp, strcpy!Span(dst', W))
      /\ rd' = strcpy!Span(dst' + tmp, W) /\ wr' = strcpy!Span(dst', W)
      /\ result' = IF call.routine = "stpcpy" THEN dst' + (W - 1) ELSE d
  BY <1>7 DEF strcpy!LoopEnd
<1>10. dst' = e
  <2>1. dst = (a + W) - tmp
    BY <1>1, <1>2, <1>3, <1>4
  <2>. QED
    BY <1>1, <1>3, <1>4, <1>8, <1>9, <2>1
<1>11. e \in Int /\ e + W - 1 = d + L /\ e + (s - d) = s + L - (W - 1) /\ e >= d
  BY <1>3, <1>4
<1>12. strcpy!Span(e, W) \subseteq Copy
  BY <1>3, <1>11 DEF strcpy!Span, Copy
<1>13. strcpy!Span(e + (s - d), W) \subseteq s .. (s + L)
  BY <1>3, <1>4, <1>11 DEF strcpy!Span
<1>14. strcpy!Footprint'
  BY <1>2, <1>4, <1>9, <1>10, <1>12, <1>13, LoadsString
<1>15. strcpy!SoFar(L + 1)'
  <2>1. ASSUME NEW l, l = L + 1, NEW k, k = a - s, NEW R, R = strcpy!Span(e, W)
        PROVE  strcpy!SoFar(l)'
    <3>1. l \in Nat /\ k \in Nat
      BY <1>3, <1>4, <2>1
    <3>2. \A x \in d .. (d + l - 1) : x \in R \/ x < d + k
      BY <1>3, <1>4, <1>8, <1>11, <2>1 DEF strcpy!Span
    <3>3. strcpy!SoFar(k) /\ R \subseteq Copy
      BY <1>4, <1>12, <2>1
    <3>4. mem' = strcpy!Copied(mem, s - d, R)
      BY <1>4, <1>9, <1>10, <2>1
    <3>. QED
      BY <1>2, <3>1, <3>2, <3>3, <3>4, CopiedAdds
  <2>2. L' = L
    BY <1>2, StrcpySameCall
  <2>. QED
    BY <2>1, <2>2
<1>16. result' = d + (IF call.routine = "stpcpy" THEN L ELSE 0)
  BY <1>3, <1>9, <1>10, <1>11
<1>. QED
  BY <1>2, <1>14, <1>15, <1>16, StrcpyReturn

\* Every step of strcpy preserves its invariant.
LEMMA StrcpyNextIInv ==
    ASSUME strcpy!IInv, strcpy!Next
    PROVE  strcpy!IInv'
BY StrcpyEntry, StrcpySecond, StrcpyShort, StrcpyLess4, StrcpyStartLoop, StrcpyLoop,
   StrcpyLoopHalf, StrcpyLoopEnd DEF strcpy!Next

-----------------------------------------------------------------------------
(* Both.                                                                   *)

\* A routine works for its caller until it returns.
LEMMA FillsSameCall ==
    ASSUME fills!Next
    PROVE  UNCHANGED call
<1>1. ASSUME fills!Set0to3 \/ fills!Set4to15 \/ fills!SetPredicated \/ fills!Set16to64
             \/ fills!Set65to128 \/ fills!Tag48 \/ fills!Tag96 \/ fills!Tail
      PROVE  UNCHANGED call
  BY <1>1 DEF fills!Set0to3, fills!Set4to15, fills!SetPredicated, fills!Set16to64,
              fills!Set65to128, fills!Tag48, fills!Tag96, fills!Tail, fills!FillAndReturn
<1>2. ASSUME fills!LongZva \/ fills!LongZvaSve \/ fills!LongZvaTags
      PROVE  UNCHANGED call
  BY <1>2 DEF fills!LongZva, fills!LongZvaSve, fills!LongZvaTags, fills!EnterZva
<1>3. ASSUME fills!LongNoZva \/ fills!LongNoZvaSve \/ fills!LongNoZvaTags
      PROVE  UNCHANGED call
  BY <1>3 DEF fills!LongNoZva, fills!LongNoZvaSve, fills!LongNoZvaTags, fills!EnterNoZva
<1>4. ASSUME fills!Zva64Loop \/ fills!NoZvaLoop PROVE UNCHANGED call
  BY <1>4 DEF fills!Zva64Loop, fills!NoZvaLoop, fills!Advance
<1>. QED
  BY <1>1, <1>2, <1>3, <1>4 DEF fills!Next

LEMMA StrcpyNextSameCall ==
    ASSUME strcpy!Next
    PROVE  UNCHANGED call
BY DEF strcpy!Next, strcpy!Entry, strcpy!Second, strcpy!More16, strcpy!Less16, strcpy!Less8,
       strcpy!EndsOf, strcpy!Less4, strcpy!StartLoop, strcpy!Loop, strcpy!LoopHalf,
       strcpy!LoopEnd

LEMMA StrcpyStutter ==
    ASSUME strcpy!IInv, UNCHANGED <<call, pc, mem, src, dst, tmp, len, vdata, rd, wr, result>>
    PROVE  strcpy!IInv'
<1>1. /\ strcpy!dstin' = strcpy!dstin /\ strcpy!srcin' = strcpy!srcin
      /\ strcpy!big' = strcpy!big /\ strcpy!Length' = strcpy!Length
      /\ (strcpy!ValidCall(call))' <=> strcpy!ValidCall(call)
  BY StrcpySameCall
<1>2. ASSUME NEW k PROVE strcpy!SoFar(k)' <=> strcpy!SoFar(k)
  BY <1>1 DEF strcpy!SoFar
<1>3. ASSUME NEW a
      PROVE  /\ strcpy!Loaded(a)' <=> strcpy!Loaded(a)
             /\ strcpy!AtEnd(a)' <=> strcpy!AtEnd(a)
             /\ strcpy!InLoop(a)' <=> strcpy!InLoop(a)
  <2>1. strcpy!Loaded(a)' <=> strcpy!Loaded(a)
    BY <1>1 DEF strcpy!Loaded
  <2>2. strcpy!SoFar(a - strcpy!srcin)' <=> strcpy!SoFar(a - strcpy!srcin)
    BY <1>1, <1>2
  <2>. QED
    BY <1>1, <2>1, <2>2 DEF strcpy!AtEnd, strcpy!InLoop
<1>4. (strcpy!Effect' <=> strcpy!Effect) /\ (strcpy!Footprint' <=> strcpy!Footprint)
  BY <1>1 DEF strcpy!Effect, strcpy!Footprint
<1>5. /\ strcpy!Loaded(src)' <=> strcpy!Loaded(src)
      /\ strcpy!InLoop(src)' <=> strcpy!InLoop(src)
      /\ strcpy!InLoop(src + W)' <=> strcpy!InLoop(src + W)
      /\ strcpy!AtEnd((dst + tmp) - W)' <=> strcpy!AtEnd((dst + tmp) - W)
  BY <1>3
<1>. QED
  BY <1>1, <1>4, <1>5 DEF strcpy!IInv

LEMMA InitIInv == Init => IInv
<1>1. ASSUME fills!Init PROVE IInv
  <2>1. fills!IInv
    BY <1>1, FillsInitIInv
  <2>2. ~Copying
    BY <2>1 DEF fills!IInv, fills!ValidCall, Copying
  <2>. QED
    BY <2>1, <2>2 DEF IInv
<1>2. ASSUME strcpy!Init PROVE IInv
  <2>1. strcpy!IInv
    BY <1>2, StrcpyInitIInv
  <2>2. Copying
    BY <2>1 DEF strcpy!IInv, strcpy!ValidCall, Copying
  <2>. QED
    BY <2>1, <2>2 DEF IInv
<1>. QED
  BY <1>1, <1>2 DEF Init

LEMMA NextIInv == IInv /\ [Next]_vars => IInv'
<1> SUFFICES ASSUME IInv, [Next]_vars PROVE IInv'
  OBVIOUS
<1>1. ASSUME UNCHANGED call PROVE Copying' <=> Copying
  BY <1>1 DEF Copying
<1>2. CASE FillStep
  <2>1. ~Copying /\ fills!Next /\ fills!IInv
    BY <1>2 DEF FillStep, IInv
  <2>2. fills!IInv'
    BY <2>1, FillsNextIInv
  <2>3. ~(Copying')
    BY <1>1, <2>1, FillsSameCall
  <2>. QED
    BY <2>2, <2>3 DEF IInv
<1>3. CASE StrcpyStep
  <2>1. Copying /\ strcpy!Next /\ strcpy!IInv
    BY <1>3 DEF StrcpyStep, IInv
  <2>2. strcpy!IInv'
    BY <2>1, StrcpyNextIInv
  <2>3. Copying'
    BY <1>1, <2>1, StrcpyNextSameCall
  <2>. QED
    BY <2>2, <2>3 DEF IInv
<1>4. CASE UNCHANGED vars
  <2>1. Copying' <=> Copying
    BY <1>1, <1>4 DEF vars
  <2>2. CASE ~Copying
    <3>1. UNCHANGED fills!vars
      BY <1>4 DEF vars, fills!vars
    <3>2. fills!IInv'
      BY <2>2, <3>1, FillsNextIInv DEF IInv
    <3>. QED
      BY <2>1, <2>2, <3>2 DEF IInv
  <2>3. CASE Copying
    <3>1. strcpy!IInv
      BY <2>3 DEF IInv
    <3>2. strcpy!IInv'
      BY <1>4, <3>1, StrcpyStutter DEF vars
    <3>. QED
      BY <2>1, <2>3, <3>2 DEF IInv
  <2>. QED
    BY <2>2, <2>3
<1>. QED
  BY <1>2, <1>3, <1>4 DEF Next

\* The inductive invariants of the fills and of strcpy hold for every size of address
\* space, every memory, region, value and string at every alignment, whatever
\* dczid_el0 says and in both byte orders.
THEOREM Invariance == Spec => []IInv
<1>1. Init => IInv
  BY InitIInv
<1>2. IInv /\ [Next]_vars => IInv'
  BY NextIInv
<1>. QED
  BY <1>1, <1>2, PTL DEF Spec

\* When memset or a tagging routine has returned, every byte or tag of the region
\* has been set, and when strcpy or stpcpy has, the string and its NUL have been
\* copied; no other byte or tag has changed.
THEOREM MemoryAtRet == Spec => []EffectAtRet
<1>1. IInv => EffectAtRet
  BY DEF IInv, EffectAtRet, fills!IInv, strcpy!IInv
<1>. QED
  BY <1>1, Invariance, PTL

\* No store, and no block zeroed by dc zva, reaches beyond the region or the copy;
\* strcpy reads only granules that hold a byte of the string.
THEOREM StaysInside == Spec => []Footprint
<1>1. IInv => Footprint
  BY DEF IInv, Footprint, fills!IInv, strcpy!IInv
<1>. QED
  BY <1>1, Invariance, PTL

=============================================================================
