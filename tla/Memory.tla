------------------------------- MODULE Memory -------------------------------
(***************************************************************************)
(* Byte-addressed memory, as the load and store instructions of the string *)
(* routines see it.  A memory is a function from addresses to bytes; a     *)
(* chunk is the contents of a register (pair), a function from 0 .. w-1 to *)
(* bytes, the byte of the lowest address first.                            *)
(***************************************************************************)
EXTENDS Integers

\* The addresses of the w bytes at a.
Span(a, w) == a .. (a + w - 1)

\* ldr/ldp: the w bytes at address a.
Load(m, a, w) == [i \in 0 .. (w - 1) |-> m[a + i]]

\* str/stp: memory m after the chunk v of w bytes is stored at address a.
Store(m, a, w, v) ==
    [x \in DOMAIN m |-> IF a <= x /\ x < a + w THEN v[x - a] ELSE m[x]]

\* Memory m after w bytes of memory f at address s, loaded before any store
\* of the sequence, are stored at address d.
Put(m, d, f, s, w) == Store(m, d, w, Load(f, s, w))

\* Memory m with the bytes at the addresses of R taken from delta higher up.
Copied(m, delta, R) ==
    [x \in DOMAIN m |-> IF x \in R THEN m[x + delta] ELSE m[x]]

\* What memmove(d, s, n) owes its caller: the n bytes at d are those that were
\* at s, and nothing else has changed.
Moved(m, d, s, n) == Copied(m, s - d, Span(d, n))

=============================================================================
