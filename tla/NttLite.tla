------------------------------ MODULE NttLite ------------------------------
(***************************************************************************)
(* The polynomial accelerator as its driver (ntt_lite.c) shows it, with    *)
(* the Keccak accelerator that feeds it.  A polynomial has two or four     *)
(* coefficients: the smallest rings with the transforms of the schemes.    *)
(*                                                                         *)
(* The accelerator is one record: the registers q, mu, inv2, bound and     *)
(* ctrl (how many coefficients, of how many bits, multiplied in which      *)
(* mode), the polynomial memory poly, the memory zeta of the products in   *)
(* mode POLY, and the twiddle memory tw, which also takes the second       *)
(* operand of an operation and the input of a conversion.  A driver call   *)
(* with an operand loads it first (LoadPoly, LoadTwiddle); one with        *)
(* NTT_LITE_INPUT_DIS takes what is in the memory.                         *)
(*                                                                         *)
(* Nothing is reset between calls, and each register means something else  *)
(* to each operation.  What Reduce, Backward, Decompose and the others     *)
(* make of a register is what the firmware puts there.  A register that    *)
(* holds one value for each half of a word is that value.                  *)
(***************************************************************************)
EXTENDS Integers, Sequences

\* Numbers that a program's first call may find in the registers.
Reset == [q |-> 1, mu |-> 1, inv2 |-> 0, bound |-> 0, ctrl |-> [len |-> 2, k |-> 0, mode |-> "SINGLE"],
          poly |-> <<0, 0>>, tw |-> <<0, 0>>, zeta |-> <<0, 0>>, kec |-> <<>>, x2x |-> <<>>, prng |-> 0]

Coeff(p) == 1 .. Len(p)
Zeros(n) == [k \in 1 .. n |-> 0]

\* The representative of v modulo q that is nearest to 0.
Center(v, q) == IF 2 * (v % q) > q THEN (v % q) - q ELSE v % q

-----------------------------------------------------------------------------
(* Registers and memories *)

SetQ(a, x)        == [a EXCEPT !.q = x]
SetInv2(a, x)     == [a EXCEPT !.inv2 = x]
SetMu(a, x)       == [a EXCEPT !.mu = x]
SetBound(a, x)    == [a EXCEPT !.bound = x]
SetCtrl(a, len, k, mode) == [a EXCEPT !.ctrl = [len |-> len, k |-> k, mode |-> mode]]
LoadQ(a, q, mu, len, k, inv2, mode) ==
    SetCtrl([a EXCEPT !.q = q, !.mu = mu, !.inv2 = inv2], len, k, mode)

\* An operand has as many coefficients as ctrl says, whatever there is in memory.
Taken(a, p) == <<>> \o [k \in 1 .. a.ctrl.len |-> IF k \in Coeff(p) THEN p[k] ELSE 0]
LoadTwiddle(a, p) == [a EXCEPT !.tw = Taken(a, p)]
LoadPoly(a, p)    == [a EXCEPT !.poly = Taken(a, p)]
LoadZeta(a, p)    == [a EXCEPT !.zeta = p]

\* The polynomial memory afterwards, coefficient by coefficient.
Becomes(a, F(_)) == [a EXCEPT !.poly = <<>> \o [k \in Coeff(a.poly) |-> F(k)]]

\* mu is the reciprocal of the modulus: a product is reduced by what it is the reciprocal of.
Reduce(a, x) == (x - a.mu * (x \div a.mu)) % a.q

-----------------------------------------------------------------------------
(* Operations on the polynomial memory *)

\* One layer: the halves of the polynomial modulo the two factors of x^n + 1.
Half(a) == Len(a.poly) \div 2
Forward(a) == Becomes(a, LAMBDA k :
    IF k <= Half(a) THEN (a.poly[k] + Reduce(a, a.tw[k] * a.poly[k + Half(a)])) % a.q
    ELSE (a.poly[k - Half(a)] - Reduce(a, a.tw[k - Half(a)] * a.poly[k])) % a.q)

\* The sums are halved by the register, the differences by the table, whose entries are halves.
Backward(a) == Becomes(a, LAMBDA k :
    IF k <= Half(a) THEN Reduce(a, ((a.poly[k] + a.poly[k + Half(a)]) % a.q) * a.inv2)
    ELSE Reduce(a, ((a.poly[k - Half(a)] - a.poly[k]) % a.q) * a.tw[k - Half(a)]))

\* Coefficient k of a product: in mode POLY, of polynomials a + b x modulo x^2 - zeta.
Times(a, p, r, k) ==
    IF a.ctrl.mode # "POLY" THEN Reduce(a, p[k] * r[k])
    ELSE IF k % 2 = 1 THEN (Reduce(a, p[k] * r[k])
                            + Reduce(a, Reduce(a, p[k + 1] * r[k + 1]) * a.zeta[(k + 1) \div 2])) % a.q
    ELSE (Reduce(a, p[k - 1] * r[k]) + Reduce(a, p[k] * r[k - 1])) % a.q

Pwm(a)         == Becomes(a, LAMBDA k : Times(a, a.poly, a.tw, k))
Mac(a, p)      == Becomes(a, LAMBDA k : (a.poly[k] + Times(a, p, a.tw, k)) % a.q)
Bounds(a)      == <<>> \o [k \in Coeff(a.poly) |-> a.bound]
MulConst(a)    == Becomes(a, LAMBDA k : Times(a, a.poly, Bounds(a), k))
Add(a)         == Becomes(a, LAMBDA k : (a.poly[k] + a.tw[k]) % a.q)
AddConst(a)    == Becomes(a, LAMBDA k : (a.poly[k] + a.bound) % a.q)
Sub(a)         == Becomes(a, LAMBDA k : (a.poly[k] - a.tw[k]) % a.q)
SubConst(a)    == Becomes(a, LAMBDA k : (a.poly[k] - a.bound) % a.q)
SubRev(a)      == Becomes(a, LAMBDA k : (a.tw[k] - a.poly[k]) % a.q)
SubRevConst(a) == Becomes(a, LAMBDA k : (a.bound - a.poly[k]) % a.q)

\* Packing keeps d bits of a coefficient; unpacking streams through the twiddle memory.
Encode(a, d) == Becomes(a, LAMBDA k : a.poly[k] % 2^d)
Decode(a, p) == [a EXCEPT !.poly = Taken(a, p), !.tw = Taken(a, <<>>)]

\* The four bits of a coefficient: the first two count 1, the others -1.
Bit(x, i) == (x \div 2^i) % 2
Cbd(a, p) == Becomes(Decode(a, p), LAMBDA k :
                 (Bit(p[k], 0) + Bit(p[k], 1) - Bit(p[k], 2) - Bit(p[k], 3)) % a.q)

\* Division by the modulus goes through mu as well; k bits of a result are kept.
Compress(a, d)   == Becomes(a, LAMBDA k : ((a.poly[k] * 2^d + a.q \div 2) \div a.mu) % 2^d)
Decompress(a, d) == Becomes(a, LAMBDA k : ((a.poly[k] * a.q + 2^(d - 1)) \div 2^d) % 2^a.ctrl.k)
DecompressFloor(a, d) == Becomes(a, LAMBDA k : ((a.poly[k] * a.q) \div 2^d) % 2^a.ctrl.k)

\* A coefficient as far from 0 as bound; with a bound of 0, one that is not 0 (masked_poly.c:142).
Limit(a) == IF a.bound = 0 THEN 1 ELSE a.bound
ChkNormFails(a) ==
    \E k \in Coeff(a.poly) : LET v == Center(a.poly[k], a.q) IN v >= Limit(a) \/ -v >= Limit(a)

\* Division by mu with a centred remainder; inv2 is the quotient that wraps to 0.  The quotients
\* go to the twiddle memory.
Quotient(a, v) == (v + a.bound \div 2 - 1) \div a.mu
Decompose(a) ==
    LET h == [k \in Coeff(a.poly) |-> Quotient(a, a.poly[k])] IN
    [Becomes(a, LAMBDA k : (a.poly[k] - h[k] * a.bound - (IF h[k] = a.inv2 THEN 1 ELSE 0)) % a.q)
        EXCEPT !.tw = <<>> \o [k \in Coeff(a.poly) |-> IF h[k] = a.inv2 THEN 0 ELSE h[k]]]

\* Low bits in poly and high bits in tw: bound and inv2 are the limits the low bits must not pass.
MakeHint(a) == Becomes(a, LAMBDA k :
                   IF \/ a.poly[k] <= a.bound
                      \/ a.poly[k] > a.inv2
                      \/ a.poly[k] = a.inv2 /\ a.tw[k] = 0 THEN 0 ELSE 1)

\* After Decompose: a hint moves a quotient by one, towards the remainder; inv2 of them exist.
UseHint(a, h) == Becomes(a, LAMBDA k :
                     CASE h[k] = 0 -> a.tw[k]
                       [] h[k] # 0 /\ Center(a.poly[k], a.q) > 0  -> (a.tw[k] + 1) % a.inv2
                       [] h[k] # 0 /\ Center(a.poly[k], a.q) <= 0 -> (a.tw[k] - 1) % a.inv2)

\* A sum starts from 0: the firmware calls it again and again with nothing set between
\* (pasta.c:99, masked_polyvec.c:130).
Sum(a) == LET s[k \in 0 .. Len(a.poly)] == IF k = 0 THEN 0 ELSE (s[k - 1] + a.poly[k]) % a.q
          IN  s[Len(a.poly)]

-----------------------------------------------------------------------------
(* Keccak, and rejection sampling from it *)

\* init, absorb and finish.  A seed is the function from its nonces to what their streams hold.
StreamInit(a, seed, nonce) == [a EXCEPT !.kec = [seed |-> seed, nonce |-> nonce]]
Squeezed(a) == a.kec.seed[a.kec.nonce]

\* As many blocks as it takes.  inv2 holds the words of a block, bound the values accepted: with
\* others the polynomial is not the one this stream holds.
Rejsamp(a, words, bound) ==
    [Decode(a, <<>>) EXCEPT !.poly = Taken(a, IF a.inv2 = words /\ a.bound = bound THEN Squeezed(a) ELSE <<>>)]

-----------------------------------------------------------------------------
(* Loops over the polynomials of a vector *)

\* A step gives the accelerator, its result, and whether the loop is left there.
Out(a)           == [a |-> a, v |-> a.poly, stop |-> FALSE]
OutUnless(a, no) == [a |-> a, v |-> a.poly, stop |-> no]

\* n steps, each on what the last one left, and the list of their results.
Loop(start, n, Step(_, _)) ==
    LET after[i \in 0 .. n] ==
            IF i = 0 THEN start
            ELSE LET p == after[i - 1] IN IF p.stop THEN p ELSE Step(p, i)
    IN  after[n]
Joined(p, s) == [a |-> s.a, v |-> Append(p.v, s.v), stop |-> s.stop]
Each(a, n, Step(_, _)) ==
    Loop([a |-> a, v |-> <<>>, stop |-> FALSE], n, LAMBDA p, i : Joined(p, Step(p.a, i)))
=============================================================================
