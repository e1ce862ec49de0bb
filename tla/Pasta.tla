------------------------------- MODULE Pasta -------------------------------
(***************************************************************************)
(* The PASTA cipher as the firmware runs it on the accelerators            *)
(* (fw/src/pasta), plain and masked.  The key is a vector of two halves;   *)
(* a round multiplies each half with a matrix drawn from the nonce, adds   *)
(* constants drawn from it, mixes the halves and puts each through the     *)
(* S-box.  The left half of what comes out is added to the plaintext.      *)
(*                                                                         *)
(* A nonce is the function from a stream's counter to what it holds.       *)
(* Streams of which more has to be rejected than fits the four blocks that *)
(* are read are left out: nobody looks at whether enough was accepted.     *)
(***************************************************************************)
EXTENDS Masking

CONSTANTS Q, LOG_Q, N, PASTA_R,
          STREAM_WORDS,     \* words of the four blocks a polynomial is sampled from
          Nonces, Keys, Plaintexts,
          PrngSeeds         \* what the generator of shares may have been seeded with

\* What holds of the parameters.
PastaParams ==
    /\ N \in Nat \ {0} /\ PASTA_R \in Nat \ {0} /\ Q = 2^(LOG_Q - 1) + 1
    /\ \A n \in Nonces : \A c \in 0 .. 4 * PASTA_R + 3 :
        n[c] \in [1 .. N -> IF c % 4 < 2 THEN 0 .. Q - 2 ELSE 0 .. Q - 1]
    /\ Keys \subseteq [1 .. 2 * N -> 0 .. Q - 1] /\ Plaintexts \subseteq [1 .. N -> 0 .. Q - 1]

VARIABLES hw,       \* the accelerators
          local,    \* the call that runs, between two rounds
          answer    \* what the last call was asked and returned

vars == <<hw, local, answer>>

None == <<>>
INV2 == (Q + 1) \div 2
InitQ(a) == LoadQ(a, Q, Q, N, LOG_Q, INV2, "SINGLE")

\* Coefficients from 1, drawn without rejection, or from 0.
UniformNonzero(a, nonce, ctr) ==
    LET b == StreamInit(a, nonce, ctr) IN AddConst(SetBound(Decode(b, Squeezed(b)), 1))
Uniform(a, nonce, ctr) ==
    Rejsamp(SetBound(SetInv2(StreamInit(a, nonce, ctr), STREAM_WORDS), Q), STREAM_WORDS, Q)

-----------------------------------------------------------------------------
(* The product with a matrix.  Rows lie in one buffer, row i from N - i on: the next row is the     *)
(* last one moved by one coefficient, plus the first row times the coefficient that is moved out.   *)

RowAt(buf, i) == SubSeq(buf, N - i + 1, 2 * N - i)

\* B is a row with the coefficient to its right; in front of the first row the buffer is 0.
CalculateRow(a, B, rand) == Add(LoadTwiddle(MulConst(LoadPoly(SetBound(a, B[N + 1]), rand)), SubSeq(B, 1, N)))
NextRow(p, i, rand) ==
    LET at == N - i - 1
        c  == CalculateRow(p.a, SubSeq(p.buf, at + 1, at + N + 1), rand)
    IN  [p EXCEPT !.a = c, !.buf = SubSeq(p.buf, 1, at) \o c.poly \o SubSeq(p.buf, at + N + 1, 2 * N)]

\* Row i times each share.
Dots(p, i, shares) ==
    LET d == Each(p.a, Len(shares), LAMBDA b, j :
                 LET c == Pwm(LoadPoly(LoadTwiddle(b, shares[j]), RowAt(p.buf, i)))
                 IN  [a |-> c, v |-> Sum(c), stop |-> FALSE])
    IN  [p EXCEPT !.a = d.a, !.v = Append(@, d.v)]

RowBuffer(r) ==
    LET second == AddConst(SetBound(r, 0))
        first  == MulConst(second)
    IN  [a |-> first, buf |-> first.poly \o second.poly, v |-> <<>>, stop |-> FALSE]
Rows(r, shares) ==
    Loop(RowBuffer(r), N, LAMBDA p, i : Dots(IF i = 1 THEN p ELSE NextRow(p, i - 2, r.poly), i - 1, shares))

\* Of each share, the coefficients that the rows gave.
OfShares(r, n) == [a |-> r.a, v |-> Sequence(n, LAMBDA j : Sequence(N, LAMBDA i : r.v[i][j]))]
MatMul(a, state, nonce, ctr) ==
    LET r == OfShares(Rows(UniformNonzero(a, nonce, ctr), <<state>>), 1) IN [a |-> r.a, v |-> r.v[1]]
MaskedMatMul(a, state, nonce, ctr) == OfShares(Rows(UniformNonzero(a, nonce, ctr), state), 2)

-----------------------------------------------------------------------------
(* The cipher: pasta.c *)

SboxCube(a, p) == Pwm(LoadTwiddle(Pwm(LoadPoly(LoadTwiddle(a, p), p)), p))

\* The square of the polynomial moved by one coefficient is added to it.
Shifted(p) == <<0>> \o SubSeq(p, 1, N - 1)
SboxFeistel(a, p) == Add(LoadTwiddle(Pwm(LoadPoly(LoadTwiddle(a, Shifted(p)), Shifted(p))), p))
Sbox(a, p, r) == IF r = PASTA_R - 1 THEN SboxCube(a, p) ELSE SboxFeistel(a, p)

\* Twice one polynomial plus another; bound holds the 2.
MultAddConst(a, p, q) == Add(LoadTwiddle(MulConst(LoadPoly(a, p)), q))

\* A state is the accelerator with the two halves.
Multiplied(s, nonce, r) ==
    LET A == MatMul(s.a, s.A, nonce, 4 * r)
        B == MatMul(A.a, s.B, nonce, 4 * r + 1)
    IN  [a |-> B.a, A |-> A.v, B |-> B.v]
ConstantsAdded(s, nonce, r) ==
    LET A == Add(LoadTwiddle(Uniform(s.a, nonce, 4 * r + 2), s.A))
        B == Add(LoadTwiddle(Uniform(A, nonce, 4 * r + 3), s.B))
    IN  [a |-> B, A |-> A.poly, B |-> B.poly]

\* Wrong variant: bound is what the sampling left.
Mixed_NoBound(s, r) ==
    LET A == MultAddConst(s.a, s.A, s.B)
        B == MultAddConst(A, s.B, s.A)
    IN  IF r = PASTA_R THEN [s EXCEPT !.a = A, !.A = A.poly] ELSE [a |-> B, A |-> A.poly, B |-> B.poly]

\* The last round mixes the left half only.
Mixed(s, r) ==
    LET A == MultAddConst(SetBound(s.a, 2), s.A, s.B)
        B == MultAddConst(A, s.B, s.A)
    IN  IF r = PASTA_R THEN [s EXCEPT !.a = A, !.A = A.poly] ELSE [a |-> B, A |-> A.poly, B |-> B.poly]
Substituted(s, r) ==
    LET A == Sbox(s.a, s.A, r)
        B == Sbox(A, s.B, r)
    IN  IF r = PASTA_R THEN s ELSE [a |-> B, A |-> A.poly, B |-> B.poly]
Round(s, nonce, r) == Substituted(Mixed(ConstantsAdded(Multiplied(s, nonce, r), nonce, r), r), r)

KeyState(a, key) ==
    LET A == AddConst(LoadPoly(SetBound(InitQ(a), 0), SubSeq(key, 1, N)))
        B == AddConst(LoadPoly(A, SubSeq(key, N + 1, 2 * N)))
    IN  [a |-> B, A |-> A.poly, B |-> B.poly]

Init == hw = Reset /\ local = None /\ answer = None

\* What a call was asked, and the state of the cipher while it runs, before round r.
Begin(s, key, nonce, plain, masked) ==
    /\ local' = [r |-> 0, A |-> s.A, B |-> s.B, masked |-> masked, key |-> key, nonce |-> nonce, plain |-> plain]
    /\ hw' = s.a /\ answer' = None
Continue(s) == hw' = s.a /\ local' = [local EXCEPT !.r = @ + 1, !.A = s.A, !.B = s.B] /\ UNCHANGED answer
Return(a) ==
    /\ hw' = a /\ local' = None
    /\ answer' = [key |-> local.key, nonce |-> local.nonce, plain |-> local.plain, cipher |-> a.poly]

State == [a |-> hw, A |-> local.A, B |-> local.B]

EncryptBegin(key, nonce, plain) ==
    local = None /\ \E s \in {KeyState(hw, key)} : Begin(s, key, nonce, plain, FALSE)
EncryptRound ==
    /\ local # None /\ ~local.masked /\ local.r <= PASTA_R
    /\ \E s \in {Round(State, local.nonce, local.r)} : Continue(s)
EncryptEnd ==
    /\ local # None /\ ~local.masked /\ local.r > PASTA_R
    /\ Return(Add(LoadPoly(LoadTwiddle(hw, local.plain), local.A)))

-----------------------------------------------------------------------------
(* The masked cipher: masked_pasta.c, masked_poly.c, masked_gadgets.c *)

GadgetsInitQ(a) == SetModulus(a, Q, FALSE)
GadgetsARef(a, s) == ARef(a, FALSE, s)
PrngRead(a) == [a |-> Stirred(a), v |-> Sequence(N, LAMBDA k : RandomBelow(a, k, a.x2x.m))]

MaskedMultAddConst(a, s, t) == BothShares(a, LAMBDA b, j : Out(MultAddConst(b, s[j], t[j])))

\* s1 t1 - r, and s1 t2 + r + s2 t1 + s2 t2.
MultWith(r, s, t) ==
    LET c0 == Sub(LoadTwiddle(Pwm(LoadPoly(LoadTwiddle(r.a, t[1]), s[1])), r.v))
        m  == Add(LoadTwiddle(Pwm(LoadPoly(LoadTwiddle(c0, t[2]), s[1])), r.v))
        c1 == Mac(LoadTwiddle(Mac(LoadTwiddle(m, s[2]), t[1]), t[2]), s[2])
    IN  [a |-> c1, v |-> <<c0.poly, c1.poly>>]
MultMM(a, s, t) == MultWith(PrngRead(GadgetsInitQ(a)), s, t)
MaskedCubeWith(c, s) == LET b == MultMM(c.a, s, c.v) IN MultMM(b.a, s, b.v)
MaskedCube(a, s) == MaskedCubeWith(GadgetsARef(a, s), s)

\* s t + u
MaskedMac(a, s, t, u) ==
    LET d0 == Add(LoadTwiddle(Pwm(LoadPoly(LoadTwiddle(a, t[1]), s[1])), u[1]))
        m  == Add(LoadTwiddle(Pwm(LoadPoly(LoadTwiddle(d0, t[2]), s[1])), u[2]))
        d1 == Mac(LoadTwiddle(Mac(LoadTwiddle(m, s[2]), t[1]), t[2]), s[2])
    IN  [a |-> d1, v |-> <<d0.poly, d1.poly>>]
RightShift(s) == <<Shifted(s[1]), Shifted(s[2])>>
MaskedFeistelWith(f, s) == MaskedMac(f.a, RightShift(s), f.v, s)
MaskedFeistel(a, s) == MaskedFeistelWith(GadgetsARef(a, RightShift(s)), s)
MaskedSbox(a, s, r) == IF r = PASTA_R - 1 THEN MaskedCube(a, s) ELSE MaskedFeistel(a, s)

MaskedMultiplied(s, nonce, r) ==
    LET A == MaskedMatMul(s.a, s.A, nonce, 4 * r)
        B == MaskedMatMul(A.a, s.B, nonce, 4 * r + 1)
    IN  [a |-> B.a, A |-> A.v, B |-> B.v]

\* Constants are added to the first share.
MaskedConstantsAdded(s, nonce, r) ==
    LET A == Add(LoadTwiddle(Uniform(s.a, nonce, 4 * r + 2), s.A[1]))
        B == Add(LoadTwiddle(Uniform(A, nonce, 4 * r + 3), s.B[1]))
    IN  [a |-> B, A |-> <<A.poly, s.A[2]>>, B |-> <<B.poly, s.B[2]>>]
MaskedMixed(s, r) ==
    LET A == MaskedMultAddConst(SetBound(s.a, 2), s.A, s.B)
        B == MaskedMultAddConst(A.a, s.B, s.A)
    IN  IF r = PASTA_R THEN [s EXCEPT !.a = A.a, !.A = A.v] ELSE [a |-> B.a, A |-> A.v, B |-> B.v]

\* The right half first.
MaskedSubstituted(s, r) ==
    LET B == MaskedSbox(s.a, s.B, r)
        A == MaskedSbox(B.a, s.A, r)
    IN  IF r = PASTA_R THEN s ELSE [a |-> A.a, A |-> A.v, B |-> B.v]
MaskedRound(s, nonce, r) ==
    MaskedSubstituted(MaskedMixed(MaskedConstantsAdded(MaskedMultiplied(s, nonce, r), nonce, r), r), r)

MaskedKeyState(k) ==
    LET A == AShare(GadgetsInitQ(k.a), FALSE, k.A)
        B == AShare(A.a, FALSE, k.B)
    IN  [a |-> B.a, A |-> A.v, B |-> B.v]

\* The plaintext is added to the first share.
AddUnmasked(a, plain, s) == LET b == Add(LoadPoly(LoadTwiddle(a, s[1]), plain)) IN [a |-> b, v |-> <<b.poly, s[2]>>]
Unmask(r) == Add(LoadPoly(LoadTwiddle(r.a, r.v[2]), r.v[1]))

MaskedEncryptBegin(key, nonce, plain, seed) ==
    local = None /\ \E s \in {MaskedKeyState(KeyState(SeedPrng(hw, seed), key))} : Begin(s, key, nonce, plain, TRUE)
MaskedEncryptRound ==
    /\ local # None /\ local.masked /\ local.r <= PASTA_R
    /\ \E s \in {MaskedRound(State, local.nonce, local.r)} : Continue(s)
MaskedEncryptEnd ==
    /\ local # None /\ local.masked /\ local.r > PASTA_R
    /\ Return(SeedPrng(Unmask(AddUnmasked(hw, local.plain, local.A)), 0))

Next ==
    \/ \E key \in Keys, nonce \in Nonces, plain \in Plaintexts :
        \/ EncryptBegin(key, nonce, plain)
        \/ \E seed \in PrngSeeds : MaskedEncryptBegin(key, nonce, plain, seed)
    \/ EncryptRound \/ EncryptEnd
    \/ MaskedEncryptRound \/ MaskedEncryptEnd

Spec == Init /\ [][Next]_vars

-----------------------------------------------------------------------------
(* The cipher without accelerator, buffers or shares *)

Plus(p, q) == Sequence(N, LAMBDA k : (p[k] + q[k]) % Q)

\* Row i + 1 is row i times the companion matrix of the first row, alpha.
MatrixRow(alpha, i) ==
    LET row[n \in 1 .. N] ==
            IF n = 1 THEN alpha
            ELSE [k \in 1 .. N |-> (alpha[k] * row[n - 1][N] + (IF k = 1 THEN 0 ELSE row[n - 1][k - 1])) % Q]
    IN  row[i]
Dot(p, q) == LET s[n \in 0 .. N] == IF n = 0 THEN 0 ELSE (s[n - 1] + p[n] * q[n]) % Q IN s[N]
Affine(nonce, ctr, x) ==
    LET alpha == [k \in 1 .. N |-> nonce[ctr][k] + 1]
    IN  Sequence(N, LAMBDA i : (Dot(MatrixRow(alpha, i), x) + nonce[ctr + 2][i]) % Q)
Mix(x, y) == Plus(Plus(x, x), y)
Cube(x) == Sequence(N, LAMBDA k : x[k] * x[k] * x[k] % Q)
Feistel(x) == Sequence(N, LAMBDA k : IF k = 1 THEN x[1] ELSE (x[k] + x[k - 1] * x[k - 1]) % Q)
SboxOf(r, x) == CASE r < PASTA_R - 1 -> Feistel(x) [] r = PASTA_R - 1 -> Cube(x) [] r = PASTA_R -> x

KeyStream(key, nonce) ==
    LET x[r \in 0 .. PASTA_R + 1] ==
            IF r = 0 THEN <<SubSeq(key, 1, N), SubSeq(key, N + 1, 2 * N)>>
            ELSE LET left  == Affine(nonce, 4 * r - 4, x[r - 1][1])
                     right == Affine(nonce, 4 * r - 3, x[r - 1][2])
                 IN  <<SboxOf(r - 1, Mix(left, right)), SboxOf(r - 1, Mix(right, left))>>
    IN  x[PASTA_R + 1][1]

-----------------------------------------------------------------------------
(* Properties *)

\* What pasta_encrypt and masked_pasta_encrypt return is the plaintext plus the key stream, whatever
\* ran on the accelerators before and whatever shares are drawn: what the rows of a matrix need of
\* each other is still in their buffer, bound holds what each step takes it for, and the products of
\* shares add up to the shared product.
CiphertextIsExact == answer # None => answer.cipher = Plus(KeyStream(answer.key, answer.nonce), answer.plain)
=============================================================================
