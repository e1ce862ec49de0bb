-------------------------- MODULE DilithiumVictim --------------------------
(***************************************************************************)
(* The measured program dilithium_sign_ttest: masked signing with secrets  *)
(* made of the host's seed, too large to sign with.  Built with TTEST the  *)
(* loop is run once, with high bits that are all 1, past the norm checks,  *)
(* and ends where what it computes would be made public.                   *)
(***************************************************************************)
EXTENDS MaskedDilithium

CONSTANTS Inputs,       \* what the host's seeds hold: a stream for each nonce
          ZeroInput     \* what the seed of zeros holds

SEED_BITS == 6          \* bits of a coefficient made of a seed: one less than Q has
SecretNonces == {4 * i : i \in 0 .. K - 1} \union {4 * i + 1 : i \in 0 .. L - 1}
VictimParams == 2^SEED_BITS < Q /\ Inputs \union {ZeroInput} \subseteq [SecretNonces -> [Index -> 0 .. 2^SEED_BITS - 1]]

Ones == <<1, 1>>
OnesIn(n) == Sequence(n, LAMBDA i : Ones)

-----------------------------------------------------------------------------
(* victims_commons_dilithium.c *)

ResetState(a) == Add(LoadTwiddle(LoadPoly(a, Zero), Zero))

\* Shared bits turned into shares modulo Q and shared anew.
Absorb(a, src, nonce) == StreamInit(a, src, nonce)
Shared(r) == LET x == ARef(r.a, FALSE, r.v) IN [x EXCEPT !.a = ResetState(@)]
PolyFromSeed(a, src, nonce) ==
    LET k == Absorb(a, src, nonce)
        d == MaskedDecoded(InitQ(Stirred(k)), Boolean(k, Squeezed(k), 2^SEED_BITS))
    IN  Shared(B2AQ([d EXCEPT !.a = GadgetsInitQ(@)]))
PolyveckFromSeed(a, src) == Paired(Each(a, K, LAMBDA b, i : PolyFromSeed(b, src, 4 * (i - 1))))
PolyveclFromSeed(a, src) == Paired(Each(a, L, LAMBDA b, i : PolyFromSeed(b, src, 4 * (i - 1) + 1)))

\* The shared seed of the masks.
MsgFromSeed(a) == Stirred(a)

-----------------------------------------------------------------------------
(* Signing under TTEST: masked_sign.c, masked_poly.c *)

TracedDecompose(a, v) == LowOf(ModHighs(A2BQ(Scaled(a, v))), v, Ones)
TracedVecDecompose(a, s) == Each(a, K, LAMBDA b, i : TracedDecompose(b, SharesAt(s, i)))

\* As MaskedChkNorm, up to where the signs would be put together.
TracedChkNorm(r, limit) ==
    LET m == AddConst(SetBound(r.a, limit - 1))
        s == Negative(ToPow2(A2BQ([a |-> GadgetsInitQ(m), v |-> <<r.v[1], m.poly>>])), limit)
    IN  [a |-> SetQ(s.a, Q), v |-> r.v, stop |-> FALSE]
TracedResponse(a, s, c, u) ==
    Paired(Each(a, L, LAMBDA b, i : TracedChkNorm(AddedShares(b, SharesAt(s, i), c, SharesAt(u, i)), GAMMA1 - BETA)))
TracedLow(a, s, c, u) ==
    Paired(Each(a, K, LAMBDA b, i : TracedChkNorm(SubtractedShares(b, SharesAt(s, i), c, u[i]), GAMMA2 - BETA)))

TracedPrepare(a, s1, s2) ==
    LET ns1 == MaskedVecNtt(InitNtt(a), s1)
        ns2 == MaskedVecNtt(ns1.a, s2)
        nt0 == VecNtt(ns2.a, OnesIn(K))
    IN  [a |-> nt0.a, s1 |-> ns1.v, s2 |-> ns2.v]

OnesMat == OnesIn(K * L)
OnesMu  == [tr |-> Ones, msg |-> 1]
Both(v) == Sequence(Len(v[1]), LAMBDA i : SumOf(SharesAt(v, i), Q))

\* Commands l and g.
PrngOn(seed) == hw' = SeedPrng(hw, seed) /\ answer' = None
PrngOff      == hw' = SeedPrng(hw, 0) /\ answer' = None

\* Command p.  Bound: the generator is taken back to where it was.
Ready(a) == GadgetsInitQ(InitQ(a))
SignGetPoly(in) ==
    \E s2 \in {PolyveckFromSeed(hw, in)} : \E s1 \in {PolyveclFromSeed(s2.a, in)} :
    \E d \in {PolyveckFromSeed(MsgFromSeed(s1.a), ZeroInput)} :
    \E s \in {TracedPrepare(Ready(d.a), s1.v, s2.v)} : \E mask \in Masks :
    \E y \in {MaskedUniformGamma1(s.a, mask)} : \E n \in {MaskedVecNtt(InitNtt(y.a), y.v)} :
    \E p \in {MaskedProduct(n, OnesMat)} : \E w \in {TracedVecDecompose(p.a, p.w)} :
    \E c \in {MaskedCommitment(p, w, [mu |-> OnesMu])} : \E cp \in {VecNtt(InitNtt(c.a), <<Challenge(c.c)>>)} :
    \E z \in {TracedResponse(cp.a, s.s1, cp.v[1], c.y)} : \E w0 \in {TracedLow(z.a, s.s2, cp.v[1], c.w0)} :
        /\ hw' = SeedPrng(w0.a, hw.prng)
        /\ answer' = [call |-> "sign", in |-> in, mask |-> mask, z |-> Both(z.v), w0 |-> Both(w0.v)]

VictimNext ==
    \/ PrngOff \/ \E seed \in PrngSeeds : PrngOn(seed)
    \/ \E in \in Inputs : SignGetPoly(in)

-----------------------------------------------------------------------------
(* Properties *)

\* All polynomials of the matrix are 1.
MaskSum(mask) ==
    LET s[j \in 0 .. L] == IF j = 0 THEN Zero
                           ELSE Plus(s[j - 1], <<GAMMA1 - mask[j - 1][1], GAMMA1 - mask[j - 1][2]>>) IN s[L]

\* What a measured attempt computes is z = y + c s1, and the low bits of A y that are left when
\* the high bits are 1, less c s2; whatever the captures before, with the generator on or off.
CaptureIsExact ==
    answer # None =>
        LET c == Challenge([mu |-> OnesMu, w1 |-> OnesIn(K)])
            y(j) == <<GAMMA1 - answer.mask[j - 1][1], GAMMA1 - answer.mask[j - 1][2]>>
        IN  /\ \A j \in 1 .. L : answer.z[j] = Plus(y(j), RingTimes(c, answer.in[4 * (j - 1) + 1]))
            /\ \A i \in 1 .. K :
                answer.w0[i] = Plus(Plus(MaskSum(answer.mask), Scale(-2 * GAMMA2, Ones)),
                                    Scale(-1, RingTimes(c, answer.in[4 * (i - 1)])))
=============================================================================
