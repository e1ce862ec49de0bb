------------------------------ MODULE Masking ------------------------------
(***************************************************************************)
(* The conversion accelerator as its driver (x2x.c) shows it, for the      *)
(* masked variants of the schemes.  A secret is a pair of shares, added    *)
(* modulo a number or bit by bit; the accelerator turns one kind into the  *)
(* other and shares anew.  The modulus is a setting that stays until the   *)
(* next one, as do the registers of NttLite, whose record it extends by    *)
(* x2x (the setting) and prng.                                             *)
(*                                                                         *)
(* Shares are drawn from a generator seeded per call: what a masked        *)
(* function returns may not depend on the seed.                            *)
(***************************************************************************)
EXTENDS NttLite

Shares == 1 .. 2

\* Both shares, one after the other: the result is a pair.
BothShares(a, Step(_, _)) == Each(a, 2, Step)

\* What the setting was not made for.
NoShares(n) == <<Zeros(n), Zeros(n)>>

SetModulus(a, m, dual) == [a EXCEPT !.x2x = [m |-> m, dual |-> dual]]
SeedPrng(a, seed)      == [a EXCEPT !.prng = seed]

\* The n-th number drawn, below m; and the generator after a call.  Turned off, it holds 0 and
\* gives zeros until it is seeded.
RandomBelow(a, n, m) == IF a.prng = 0 THEN 0 ELSE ((a.prng + 7919 * n) * 16807 % 65537) % m
Stirred(a)     == [a EXCEPT !.prng = IF @ = 0 THEN 0 ELSE 1 + ((@ * 75 + 74) % 65536)]

\* A random nonzero number: drawn again until it is one, for ever if the generator is off.
NonzeroRandom(a, n, m) == 1 + RandomBelow(a, n, m - 1)

XorTable == [x \in 0 .. 15 |-> [y \in 0 .. 15 |->
                LET Differ(i) == IF Bit(x, i) = Bit(y, i) THEN 0 ELSE 2^i
                IN  Differ(0) + Differ(1) + Differ(2) + Differ(3)]]
Nibble(x, i) == (x \div 16^i) % 16
Xor(x, y) ==
    LET At(i) == XorTable[Nibble(x, i)][Nibble(y, i)] * 16^i
    IN  At(0) + (IF x < 16 /\ y < 16 THEN 0 ELSE At(1) + At(2) + At(3) + At(4))

Sequence(n, F(_)) == <<>> \o [k \in 1 .. n |-> F(k)]
XorOf(s) == Sequence(Len(s[1]), LAMBDA k : Xor(s[1][k], s[2][k]))
SumOf(s, m) == Sequence(Len(s[1]), LAMBDA k : (s[1][k] + s[2][k]) % m)

\* Fresh shares of the numbers v.
Arithmetic(a, v) ==
    <<Sequence(Len(v), LAMBDA k : RandomBelow(a, k, a.x2x.m)),
      Sequence(Len(v), LAMBDA k : (v[k] - RandomBelow(a, k, a.x2x.m)) % a.x2x.m)>>
Boolean(a, v, m) ==
    <<Sequence(Len(v), LAMBDA k : RandomBelow(a, k, m)),
      Sequence(Len(v), LAMBDA k : Xor(v[k], RandomBelow(a, k, m)))>>

\* dual: are the numbers two to a word?  shares: the result; it is sound only if the setting agrees.
Result(a, dual, shares) ==
    [a |-> Stirred(a), v |-> IF a.x2x.dual = dual THEN shares ELSE NoShares(Len(shares[1])), stop |-> FALSE]

WORD == 16        \* bits of a word, and of half a word: large enough for either
Pow2 == 2^WORD

AShare(a, dual, v) == Result(a, dual, Arithmetic(a, v))
ARef(a, dual, s)   == Result(a, dual, Arithmetic(a, SumOf(s, a.x2x.m)))
B2A(a, dual, s)    == Result(a, dual, Arithmetic(a, XorOf(s)))
A2B(a, dual, s)    == Result(a, dual, Boolean(a, SumOf(s, a.x2x.m), Pow2))

\* Conversion of bits; bit i of each number goes to a polynomial of its own.
BitsOf(v, i)        == Sequence(Len(v), LAMBDA k : Bit(v[k], i))
B2ABit(a, s, i)     == B2A(a, TRUE, <<BitsOf(s[1], i), BitsOf(s[2], i)>>)
=============================================================================
