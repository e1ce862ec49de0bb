-------------------------- MODULE MaskedDilithium --------------------------
(***************************************************************************)
(* Masked signing (fw/src/dilithium/masked_*.c).  The secrets s1 and s2,   *)
(* the mask y and all that is computed from them are shared, two shares    *)
(* each; the norms are checked and the high bits taken on shares, by       *)
(* converting between the two kinds.  The high bits, and what is computed  *)
(* once a signature cannot be rejected for z or w0 any more, are public.   *)
(*                                                                         *)
(* A shared vector is a pair of vectors.  Whenever the driver is asked to  *)
(* clear pipelines between two shares, nothing that is modelled changes.   *)
(***************************************************************************)
EXTENDS Dilithium, Masking

CONSTANT PrngSeeds      \* what the generator of shares may hold when a call or an attempt begins

GadgetsInitQ(a)  == SetModulus(a, Q, FALSE)
GadgetsInit2k(a) == SetModulus(a, Pow2, FALSE)

\* Conversions, for whichever modulus is set.
MaskPoly(a, p) == AShare(a, FALSE, p)
A2BQ(r)  == A2B(r.a, FALSE, r.v)
A2B2k(r) == A2B(r.a, FALSE, r.v)
B2AQ(r)  == B2A(r.a, FALSE, r.v)
B2A2k(r) == B2A(r.a, FALSE, r.v)

\* A vector of shared polynomials is kept as a pair of vectors.
Paired(r) == [r EXCEPT !.v = <<[i \in DOMAIN @ |-> @[i][1]], [i \in DOMAIN @ |-> @[i][2]]>>]
SharesAt(s, i) == <<s[1][i], s[2][i]>>

\* Unpacked and shared; the first share is subtracted from the largest value, the other from 0.
MaskedReverse(r, top) ==
    BothShares(r.a, LAMBDA b, j :
        Out(SubRevConst(LoadPoly(SetBound(b, IF j = 1 THEN top ELSE 0), r.v[j]))))
Masked(a) == MaskPoly(a, a.poly)
MaskedPolyUnpack(a, p, top) == MaskedReverse(Masked(Decode(a, p)), top)
MaskedEtaUnpack(a, v) == Paired(Each(a, Len(v), LAMBDA b, i : MaskedPolyUnpack(b, v[i], ETA)))

MaskedVecNtt(a, s)    == BothShares(a, LAMBDA b, j : VecNtt(b, s[j]))
MaskedVecInvNtt(a, s) == BothShares(a, LAMBDA b, j : VecInvNtt(b, s[j]))

\* The mask: bits are shared as they leave the Keccak accelerator.
MaskedStreamInit(a, seed, nonce) == StreamInit(a, seed, nonce)
MaskedSqueeze(a) == Boolean(a, Squeezed(a), 2^LOG_GAMMA1)
MaskedDecoded(a, shares) == BothShares(a, LAMBDA b, j : Out(Decode(b, shares[j])))
MaskedGamma1Inner(a, buf) == MaskedReverse(B2AQ(MaskedDecoded(a, buf)), GAMMA1)
MaskedPolyGamma1(a, seed, next, initNext) ==
    MaskedGamma1Inner(Stirred(IF initNext THEN MaskedStreamInit(a, seed, next) ELSE a), MaskedSqueeze(a))
MaskedUniformGamma1(a, seed) ==
    Paired(Each(MaskedStreamInit(a, seed, 0), L, LAMBDA b, i : MaskedPolyGamma1(b, seed, i, i < L)))

MaskedPointwiseAcc(a, row, s) ==
    BothShares(a, LAMBDA b, j :
        LET acc[i \in 1 .. L] ==
                IF i = 1 THEN Pwm(LoadPoly(LoadTwiddle(b, row[1]), s[j][1]))
                         ELSE Mac(LoadTwiddle(acc[i - 1], row[i]), s[j][i])
        IN  Out(acc[L]))
MaskedMatrixPointwise(a, mat, s) ==
    Paired(Each(a, K, LAMBDA b, i : MaskedPointwiseAcc(b, [j \in 1 .. L |-> mat[(i - 1) * L + j]], s)))

-----------------------------------------------------------------------------
(* On the shares of one polynomial: masked_poly.c *)

\* v (Q - Highs) + (Q - 1) / 2 on the shares: modulo Highs, its value is the high bits of v.
Scaled(a, v) ==
    BothShares(SetBound(a, Q - Highs), LAMBDA b, j :
        LET p == MulConst(LoadPoly(b, v[j])) IN
        IF j = 2 THEN Out(p)
        ELSE LET c == AddConst(SetBound(p, (Q - 1) \div 2)) IN [Out(c) EXCEPT !.a = SetBound(c, Q - Highs)])
ModHighs(r) ==
    BothShares(SetBound(SetMu(SetQ(r.a, Highs), Highs), 1), LAMBDA b, j : Out(MulConst(LoadPoly(b, r.v[j]))))

\* What is left is subtracted from the first share.
LowOf(r, v, hi) ==
    LET p == SubRev(LoadTwiddle(MulConst(LoadPoly(SetBound(InitQ(r.a), 2 * GAMMA2), hi)), v[1]))
        c == AddConst(LoadPoly(SetBound(p, 0), v[2]))
    IN  [a |-> c, v |-> [hi |-> hi, lo |-> <<p.poly, c.poly>>], stop |-> FALSE]
WithHighs(r, v) == LowOf(r, v, XorOf(r.v))
MaskedDecompose(a, v) == WithHighs(ModHighs(A2BQ(Scaled(a, v))), v)

MaskedVecDecompose(a, s) == Each(a, K, LAMBDA b, i : MaskedDecompose(b, SharesAt(s, i)))

\* Is a shared polynomial too large?  The last share is in the polynomial memory.  Moved by
\* limit - 1, into a power of two and back by 2 limit - 1, only the allowed values become negative.
ToPow2(r) == B2A2k([r EXCEPT !.a = GadgetsInit2k(@)])
Signs(r) ==
    BothShares(SetQ(r.a, 1), LAMBDA b, j : Out(DecompressFloor(LoadPoly(b, r.v[j]), WORD - 1)))
Negative(r, limit) ==
    LET p == SubConst(LoadPoly(SetBound(SetQ(r.a, Pow2), 2 * limit - 1), r.v[2]))
    IN  Signs(A2B2k([r EXCEPT !.a = p, !.v = <<r.v[1], p.poly>>]))

\* Wrong variant: the signs are compared as they are.
Refusal_NotInverted(s) ==
    LET x == SetBound(AddConst(SetBound(Add(LoadTwiddle(SetQ(s.a, 2), s.v[1])), 0)), 0)
    IN  [a |-> SetQ(x, Q), fail |-> ChkNormFails(x)]

\* The signs, inverted, may not be 1.
Refusal(s) ==
    LET x == SetBound(AddConst(SetBound(Add(LoadTwiddle(SetQ(s.a, 2), s.v[1])), 1)), 0)
    IN  [a |-> SetQ(x, Q), fail |-> ChkNormFails(x)]
MaskedChkNorm(r, limit) ==
    LET m == AddConst(SetBound(r.a, limit - 1))
        c == Refusal(Negative(ToPow2(A2BQ([a |-> GadgetsInitQ(m), v |-> <<r.v[1], m.poly>>])), limit))
    IN  [a |-> c.a, v |-> r.v, stop |-> c.fail]

\* u + c s with both in the transform's domain, and u - c s with u out of it.
AddedShares(a, s, c, u) ==
    BothShares(a, LAMBDA b, j :
        Out(Backward(InitInvNtt(Add(LoadTwiddle(Pwm(LoadPoly(LoadTwiddle(b, c), s[j])), u[j]))))))
SubtractedShares(a, s, c, u) ==
    BothShares(a, LAMBDA b, j :
        Out(SubRev(LoadTwiddle(Backward(InitInvNtt(Pwm(LoadPoly(LoadTwiddle(b, c), s[j])))), u[j]))))
MaskedPolyAddChkNorm(a, s, c, u, limit) == MaskedChkNorm(AddedShares(a, s, c, u), limit)
MaskedPolySubChkNorm(a, s, c, u, limit) == MaskedChkNorm(SubtractedShares(a, s, c, u), limit)
MaskedAddChkNorm(a, s, c, u, limit) ==
    Paired(Each(a, L, LAMBDA b, i : MaskedPolyAddChkNorm(b, SharesAt(s, i), c, SharesAt(u, i), limit)))
MaskedSubChkNorm(a, s, c, u, limit) ==
    Paired(Each(a, K, LAMBDA b, i : MaskedPolySubChkNorm(b, SharesAt(s, i), c, u[i], limit)))

PolyUnmask(a, s) == Out(Add(LoadPoly(LoadTwiddle(a, s[2]), s[1])))
Unmask(a, s) == Each(a, Len(s[1]), LAMBDA b, i : PolyUnmask(b, SharesAt(s, i)))

-----------------------------------------------------------------------------
(* The call: masked_sign.c *)

\* The key unpacked and shared, with the matrix; then what all attempts need in the NTT domain.
\* Sharing the key's seed draws random numbers, too.
MaskSeed(a) == Stirred(a)
MaskedUnpackSk(a, key) ==
    LET s1 == MaskedEtaUnpack(MaskSeed(a), key.s1)
        s2 == MaskedEtaUnpack(s1.a, key.s2)
        t0 == UnpackFrom(s2.a, 2^(D - 1), key.t0)
    IN  [a |-> t0.a, s1 |-> s1.v, s2 |-> s2.v, t0 |-> t0.v]
MaskedInit(a, key) ==
    LET u   == MaskedUnpackSk(GadgetsInitQ(InitQ(a)), key)
        mat == MatrixExpand(u.a, key.rho)
    IN  [a |-> mat.a, s1 |-> u.s1, s2 |-> u.s2, t0 |-> u.t0, mat |-> mat.v]
MaskedPrepare(i, key, msg) ==
    LET ns1 == MaskedVecNtt(InitNtt(i.a), i.s1)
        ns2 == MaskedVecNtt(ns1.a, i.s2)
        nt0 == VecNtt(ns2.a, i.t0)
    IN  [a |-> nt0.a, local |-> [masked |-> TRUE, mu |-> MuCrh(key.tr, msg), mat |-> i.mat,
                                 s1 |-> ns1.v, s2 |-> ns2.v, t0 |-> nt0.v]]

MaskedSignBegin(msg) ==
    /\ local = None /\ sk # None
    /\ \E seed \in PrngSeeds : \E i \in {MaskedInit(SeedPrng(hw, seed), sk)} :
       \E r \in {MaskedPrepare(i, sk, msg)} : hw' = SeedPrng(r.a, 0) /\ local' = r.local
    /\ refused' = "" /\ drawn' = None /\ sig' = None /\ answer' = None
    /\ UNCHANGED <<pk, sk>>

\* The conversion is set to q before each attempt but the first, which follows the unpacking.
Modulus(a) == IF refused = "" THEN a ELSE GadgetsInitQ(a)
MaskedProduct(n, mat) ==
    LET m == MaskedMatrixPointwise(n.a, mat, n.v)
        w == MaskedVecInvNtt(InitInvNtt(m.a), m.v)
    IN  [a |-> w.a, y |-> n.v, w |-> w.v]
MaskedCommitment(p, d, l) ==
    LET pw1 == PackW1(d.a, Highest(d))
    IN  [a |-> pw1.a, y |-> p.y, w1 |-> Highest(d), w0 |-> Lowest(d), c |-> ChallengeHash(l.mu, pw1.v)]

\* The response is checked first, and the rest only if it is not too large.
MaskedResponse(l, p, cp, z) ==
    LET w0 == MaskedSubChkNorm(z.a, l.s2, cp.v[1], p.w0, GAMMA2 - BETA)
    IN  [a |-> w0.a, ground |-> IF w0.stop THEN "w0" ELSE "", c |-> p.c, cp |-> cp.v[1], z |-> z.v, w0 |-> w0.v,
         w1 |-> p.w1]
MaskedHinted(l, q) ==
    LET nct == PointwisePoly(q.a, q.cp, l.t0)
        ct0 == InvNttChkNorm(InitInvNtt(nct.a), nct.v, GAMMA2)
    IN  IF ct0.stop THEN [a |-> ct0.a, ground |-> "t0"]
        ELSE [a |-> ct0.a, ground |-> "", c |-> q.c, z |-> q.z, w0 |-> q.w0, w1 |-> q.w1, ct0 |-> ct0.v]
MaskedSigned(l, q) ==
    LET w0 == Unmask(q.a, q.w0)
        h  == AddMakeHint(w0.a, w0.v, q.w1, q.ct0)
        z  == Unmask(h.a, q.z)
        pz == PackZ(z.a, z.v)
    IN  IF h.stop THEN [a |-> h.a, ground |-> "hints"]
        ELSE [a |-> pz.a, ground |-> "", sig |-> [c |-> q.c, z |-> pz.v, h |-> PackHints(h.v), msg |-> l.mu.msg]]

MaskedSignAttempt ==
    /\ local # None /\ local.masked
    /\ \E mask \in Masks, seed \in PrngSeeds :
       \E y \in {MaskedUniformGamma1(Modulus(SeedPrng(hw, seed)), mask)} :
       \E n \in {MaskedVecNtt(InitNtt(y.a), y.v)} : \E p \in {MaskedProduct(n, local.mat)} :
       \E d \in {MaskedVecDecompose(p.a, p.w)} : \E c \in {MaskedCommitment(p, d, local)} :
       \E cp \in {VecNtt(InitNtt(c.a), <<Challenge(c.c)>>)} :
       \E z \in {MaskedAddChkNorm(cp.a, local.s1, cp.v[1], c.y, GAMMA1 - BETA)} :
       \E q \in {IF z.stop THEN [a |-> z.a, ground |-> "z"] ELSE MaskedResponse(local, c, cp, z)} :
       \E h \in {IF q.ground # "" THEN q ELSE MaskedHinted(local, q)} :
       \E r \in {IF h.ground # "" THEN h ELSE MaskedSigned(local, h)} :
       Decide([r EXCEPT !.a = SeedPrng(r.a, 0)], mask)

MaskedNext ==
    \/ Next
    \/ \E msg \in Messages : MaskedSignBegin(msg)
    \/ MaskedSignAttempt

MaskedSpec == Init /\ [][MaskedNext]_vars
=============================================================================
