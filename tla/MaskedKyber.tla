---------------------------- MODULE MaskedKyber ----------------------------
(***************************************************************************)
(* Masked decapsulation (fw/src/kyber/masked_*.c): decryption, encryption  *)
(* and the comparison on shares, two of them, of either kind.  The private *)
(* key is shared when the call begins.                                     *)
(*                                                                         *)
(* A shared polynomial is a pair of polynomials, and a shared vector a     *)
(* pair of vectors.  What a masked hash returns is shared by the Keccak    *)
(* accelerator and is modelled as its value, except for the streams noise  *)
(* is drawn from.                                                          *)
(***************************************************************************)
EXTENDS Kyber

CONSTANTS Q_EXP,        \* the prime in which differences are added up
          PrngSeeds     \* what the generator of shares is seeded with

\* Sums of differences fit the prime, and compressed shares a word.
CarrierParams == Q_EXP > N * (K * (2^DU - 1) + 2^DV - 1) /\ 4 * Q < 2^(LOG_Q + 2)

ALPHA == LOG_Q + 1      \* bits kept behind the point: 12 + LOG_MASKING_N

GadgetsInitQ(a)  == SetModulus(a, Q, TRUE)
GadgetsInit2k(a) == SetModulus(a, Pow2, TRUE)
GadgetsInit2kU32(a)    == SetModulus(a, Pow2, FALSE)
GadgetsInitCarrier(a)  == SetModulus(a, Q_EXP, FALSE)

RestoreCtrl(a) == SetCtrl(a, N, LOG_Q, "POLY")

\* A packed vector, and the packed public key.
FromBytes(a, v) == Each(a, K, LAMBDA b, i : Out(Decode(b, v[i])))
UnpackPk(a, key) == FromBytes(a, key.t)
UnpackSk(a, s)   == FromBytes(a, s)

\* What a loop over the polynomials made of each, turned into a pair of vectors.
Pair(v) == <<[i \in DOMAIN v |-> v[i][1]], [i \in DOMAIN v |-> v[i][2]]>>

-----------------------------------------------------------------------------
(* Polynomials and vectors: masked_poly.c, masked_polyvec.c, masked_cbd.c *)

MaskedHashed(a)    == Hashed(a)
MaskedKdf(a, k, c) == [a |-> Hashed(a), ss |-> Kdf(k, c)]

MaskPolyvec(a, v) == LET r == Each(a, K, LAMBDA b, i : AShare(b, TRUE, v[i])) IN [r EXCEPT !.v = Pair(@)]

MaskedVecNtt(a, s) == BothShares(a, LAMBDA b, j : VecNtt(b, s[j]))

\* Public row times a share, out of the transform's domain.
AccInvNtt(a, row, v) ==
    LET acc[i \in 1 .. K] == IF i = 1 THEN Pwm(LoadPoly(LoadTwiddle(a, v[1]), row[1]))
                             ELSE Mac(LoadTwiddle(acc[i - 1], v[i]), row[i])
    IN  Backward(InitInvNtt(acc[K]))

\* c - row s, whose public part c goes to the first share.
AccInvNttSub(a, row, s, c) ==
    BothShares(SetBound(a, 0), LAMBDA b, j :
        LET p == AccInvNtt(b, row, s[j]) IN
        Out(IF j = 1 THEN SubRev(LoadTwiddle(p, c)) ELSE SubRevConst(p)))
AccInvNttAdd(a, row, s, e) ==
    BothShares(a, LAMBDA b, j : Out(Add(LoadTwiddle(AccInvNtt(b, row, s[j]), e[j]))))
AccInvNttAddChain(a, row, s, e, k) ==
    BothShares(a, LAMBDA b, j :
        Out(Add(LoadTwiddle(Add(LoadTwiddle(AccInvNtt(b, row, s[j]), e[j])), k[j]))))

\* Bits to shares modulo q, times half of q.
MaskedFromMsg(a, m) ==
    LET bits == B2ABit(a, m, 0) IN
    BothShares(SetBound(SetCtrl(bits.a, N, LOG_Q, "DUAL"), (Q \div 2) + 1),
               LAMBDA b, j : Out(MulConst(LoadPoly(b, bits.v[j]))))

\* Both shares compressed to d bits.
Compressed(a, s, d) == BothShares(a, LAMBDA b, j : Out(Compress(LoadPoly(b, s[j]), d)))

\* Wrong variant: nothing is added, so that a floor stays a floor.
CompressShares_NoHalf(a, s, d) ==
    LET c == Compressed(a, s, d) IN [a |-> SetQ(SetBound(c.a, 2^(ALPHA - 1)), 2^d), v |-> c.v]

\* More bits than needed are kept; the share left in the polynomial memory gets the half that makes
\* a floor a rounding.
CompressShares(a, s, d) ==
    LET c == Compressed(a, s, d)
        h == AddConst(SetQ(SetBound(c.a, 2^(ALPHA - 1)), 2^d))
    IN  [a |-> h, v |-> <<c.v[1], h.poly>>]

\* The integer part of Boolean shares, d bits of it.
Floors(a, s) == BothShares(a, LAMBDA b, j : Out(DecompressFloor(LoadPoly(b, s[j]), ALPHA)))

MsgOf(x) ==
    BothShares(SetCtrl(SetQ(x.a, 1), N, 1, "POLY"), LAMBDA b, j :
        Out(Encode(DecompressFloor(LoadPoly(b, x.v[j]), ALPHA), 1)))
BooleanShares(c) == A2B(GadgetsInit2k(c.a), TRUE, c.v)
MaskedToMsg(a, s) == MsgOf(BooleanShares(CompressShares(SetMu(SetQ(a, 2 * Q), 2 * Q), s, ALPHA + 2)))

\* The difference of a shared polynomial, compressed, and a packed one.
Subtracted(c, packed, d) ==
    LET p == DecompressFloor(Decode(SetCtrl(SetQ(c.a, 2^ALPHA), N, WORD, "SINGLE"), packed), 0)
        x == SubRev(LoadTwiddle(SetQ(p, 2^(ALPHA + 1 + d)), c.v[2]))
    IN  [a |-> x, v |-> <<c.v[1], x.poly>>]
FloorsOf(y, d) == Floors(SetCtrl(SetQ(y.a, 1), N, d, "SINGLE"), y.v)
Differences(x, d, initA2B) == FloorsOf(A2B(IF initA2B THEN GadgetsInit2kU32(x.a) ELSE x.a, FALSE, x.v), d)
SubCompress(a, s, packed, d, initA2B) ==
    LET b == LoadQ(a, 2 * Q, 2 * Q, N, LOG_Q + 1, INV2, "SINGLE")
    IN  Differences(Subtracted(CompressShares(b, s, ALPHA + 1 + d), packed, d), d, initA2B)

\* Four bits make a coefficient.
MaskedCbd(a, buf) ==
    LET t == Each(a, 4, LAMBDA b, i : B2ABit(b, buf, i - 1)) IN
    BothShares(t.a, LAMBDA b, j :
        Out(Sub(LoadTwiddle(Sub(LoadTwiddle(Add(LoadPoly(LoadTwiddle(b, t.v[1][j]), t.v[2][j])),
                                            t.v[3][j])), t.v[4][j]))))

MaskedPrfAbsorb(a, src, nonce) == StreamInit(a, src, nonce)
MaskedPrfSqueeze(a) == Boolean(a, Squeezed(a), 16)

\* n shared noise polynomials; a stream is shared as it is read.
MaskedNoise(a, seed, nonce, n, absorb) ==
    LET r == Each(a, n, LAMBDA b, i :
                 LET buf == MaskedPrfSqueeze(b) IN
                 MaskedCbd(IF absorb THEN MaskedPrfAbsorb(Stirred(b), seed, nonce + i - 1) ELSE Stirred(b), buf))
    IN  [r EXCEPT !.v = Pair(@)]

\* The whole matrix, transposed.
NextOf(e) == IF e[2] = K - 1 THEN <<e[1] + 1, 0>> ELSE <<e[1], e[2] + 1>>
GenAt(a, rho) ==
    LET r == Each(XofAbsorb(SetBound(SetInv2(a, XOF_WORDS), Q), rho, Absorbed(0, 0, TRUE)), K * K, LAMBDA b, n :
                 LET next == NextOf(<<(n - 1) \div K, (n - 1) % K>>) IN
                 Out(GenPoly(b, rho, Absorbed(next[1], next[2], TRUE), next[1] # K)))
    IN  [a |-> RestoreInv2(r.a), v |-> [i \in 1 .. K |-> SubSeq(r.v, (i - 1) * K + 1, i * K)]]

-----------------------------------------------------------------------------
(* Is a shared vector zero? masked_gadgets.c *)

\* The shares of the sum of all coefficients of all polynomials.
AccU32(a, vec) ==
    BothShares(LoadQ(a, Q_EXP, Q_EXP, N, WORD, 0, "SINGLE"), LAMBDA b, j :
        LET acc[i \in 0 .. K] == IF i = 0 THEN LoadPoly(b, vec[K + 1][j])
                                 ELSE Add(LoadTwiddle(acc[i - 1], vec[i][j]))
        IN  [a |-> acc[K], v |-> <<Sum(acc[K]), 0>>, stop |-> FALSE])

\* The sum times two random numbers: zero remains zero, and anything else nonzero.
Multiplied(a, n, s) ==
    LET x == NonzeroRandom(a, n, Q_EXP)
    IN  BothShares(SetBound(Stirred(a), x), LAMBDA e, j : Out(MulConst(LoadPoly(e, s[j]))))
Refreshed(r) == ARef(r.a, FALSE, r.v)
MultipliedAgain(r) == Multiplied(r.a, 3, r.v)
ZeroTestMul(a, s) ==
    Refreshed(MultipliedAgain(Refreshed(Multiplied(SetCtrl(GadgetsInitCarrier(a), 2, WORD, "SINGLE"), 1, s))))
NonZero(r) == LET t == Add(LoadPoly(LoadTwiddle(r.a, r.v[2]), r.v[1])) IN [a |-> t, fail |-> t.poly[1] # 0]

Summed(b) == AccU32(b.a, b.v)
ZeroTested(s) == NonZero(ZeroTestMul(s.a, s.v))
B2AQm(a, s) == B2A(a, FALSE, s)
B2AQmVec(a, vec) == Each(a, K + 1, LAMBDA b, i : B2AQm(b, vec[i]))
ZeroTestVec(a, vec) == ZeroTested(Summed(B2AQmVec(GadgetsInitCarrier(a), vec)))

-----------------------------------------------------------------------------
(* The calls: masked_indcpa.c, masked_kem.c *)

MaskedIndcpaDecInit(a, s) ==
    LET v == UnpackSk(InitQ(a), s) IN MaskPolyvec(GadgetsInitQ(v.a), v.v)

\* The hash of the public key and z are shared, too.
MaskedDecInit(a, s) ==
    LET r == MaskedIndcpaDecInit(a, s) IN [a |-> Stirred(GadgetsInit2k(r.a)), v |-> r.v]

PolyvecDecompress(a, c) == Each(a, K, LAMBDA b, n : Unpack(b, PolyAt(c, n - 1), DU))

\* The ciphertext, its u in the transform's domain; then the message.
MaskedUnpacked(i, c) ==
    LET u == PolyvecDecompress(i.a, c)
        v == Unpack(u.a, c.v, DV)
        t == VecNtt(InitNtt(v.a), u.v)
    IN  [a |-> InitZeta(t.a), u |-> t.v, v |-> v.v]
MaskedMessage(p) == MaskedToMsg(p.a, p.v)
MaskedIndcpaDec(t, s) == MaskedMessage(AccInvNttSub(t.a, t.u, s, t.v))

\* The message shared modulo q, the public key and the matrix.
MaskedPrepare(a, m, key) ==
    LET k  == MaskedFromMsg(GadgetsInitQ(InitQ(a)), m)
        t  == UnpackPk(RestoreCtrl(k.a), key)
        at == GenAt(t.a, key.rho)
    IN  [a |-> at.a, k |-> k.v, t |-> t.v, at |-> at.v]

MaskedEncNoise(p, coins) ==
    LET sp  == MaskedNoise(MaskedPrfAbsorb(p.a, coins, 0), coins, 1, K, TRUE)
        ep  == MaskedNoise(sp.a, coins, K + 1, K, TRUE)
        epp == MaskedNoise(ep.a, coins, 0, 1, FALSE)
        nsp == MaskedVecNtt(InitNtt(epp.a), sp.v)
    IN  [a |-> InitZeta(nsp.a), sp |-> nsp.v, ep |-> ep.v, epp |-> <<epp.v[1][1], epp.v[2][1]>>]

MaskedCiphertext(p, n) ==
    LET u == Each(n.a, K, LAMBDA b, i : AccInvNttAdd(b, p.at[i], n.sp, <<n.ep[1][i], n.ep[2][i]>>))
        v == AccInvNttAddChain(u.a, p.t, n.sp, n.epp, p.k)
    IN  [a |-> v.a, u |-> u.v, v |-> v.v]

MaskedCompared(e, c) ==
    LET du == Each(e.a, K, LAMBDA b, i : SubCompress(b, e.u[i], PolyAt(c, i - 1), DU, i = 1))
        dv == SubCompress(du.a, e.v, c.v, DV, TRUE)
    IN  [a |-> dv.a, v |-> Append(du.v, dv.v)]

\* The message is hashed with h, encrypted, and what it gives is compared with c.
MaskedDecapsulate(c, seed) ==
    /\ sk # None
    /\ \E i \in {MaskedDecInit(SeedPrng(hw, seed), sk.s)} :
       \E d \in {MaskedIndcpaDec(MaskedUnpacked(i, c), i.v)} :
       \E p \in {MaskedPrepare(MaskedHashed(d.a), d.v, sk.pk)} :
       \E n \in {MaskedEncNoise(p, Coins(XorOf(d.v), sk.h))} :
       \E x \in {MaskedCompared(MaskedCiphertext(p, n), c)} :
       \E r \in {ZeroTestVec(x.a, x.v)} :
       \E f \in {MaskedKdf(r.a, Cmov(PreKey(XorOf(d.v), sk.h), sk.z, r.fail), c)} :
        /\ hw' = SeedPrng(f.a, 0)
        /\ answer' = [call |-> "masked dec", sk |-> sk, c |-> c, ss |-> f.ss]
    /\ UNCHANGED <<pk, sk, sent>>

MaskedNext ==
    \/ Next
    \/ sent # None /\ \E c \in Received, seed \in PrngSeeds : MaskedDecapsulate(c, seed)

MaskedSpec == Init /\ [][MaskedNext]_vars
=============================================================================
