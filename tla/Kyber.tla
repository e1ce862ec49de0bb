------------------------------- MODULE Kyber -------------------------------
(***************************************************************************)
(* Key generation, encapsulation and decapsulation as the firmware runs    *)
(* them on the accelerators (fw/src/kyber), one call after another in any  *)
(* order, each on what the last one left in the registers.                 *)
(*                                                                         *)
(* A hash is what was hashed, and a seed is what its streams hold.  The    *)
(* polynomial arithmetic is done, modulo x^4 + 1: one layer of the         *)
(* transform, and products modulo its two factors.                         *)
(***************************************************************************)
EXTENDS Masking

CONSTANTS Q, LOG_Q, K, DU, DV,   \* modulus and its bits, rank, bits of a compressed coefficient
          PSI, PSI_INV,          \* the entries of the transforms' tables
          XOF_WORDS,             \* words of a block of the matrix's streams
          Seeds,                 \* what keys are drawn from: streams of the matrix and of the noise
          Messages,              \* hashed random bytes: what is encapsulated
          Coins(_, _)            \* the noise streams drawn from a message and a public key

N == 4
Poly == [1 .. N -> 0 .. Q - 1]

\* What holds of the parameters.
KyberParams ==
    /\ K \in Nat \ {0, 1} /\ 2 * PSI * PSI_INV % Q = 1 /\ PSI * PSI % Q = Q - 1
    /\ \A s \in Seeds : /\ s.rho \in [(0 .. K - 1) \X (0 .. K - 1) -> Poly]
                        /\ s.sigma \in [0 .. 2 * K - 1 -> [1 .. N -> 0 .. 15]]
    /\ Messages \subseteq [1 .. N -> 0 .. 1]

VARIABLES hw,       \* the accelerators
          pk, sk,   \* the keys in memory, if there are any
          sent,     \* the ciphertext in memory with the secret it was made with
          answer    \* what the last call was asked and returned

vars == <<hw, pk, sk, sent, answer>>

None == <<>>
INV2 == (Q + 1) \div 2

-----------------------------------------------------------------------------
(* Polynomials: poly.c, polyvec.c, cbd.c *)

InitQ(a)      == LoadQ(a, Q, Q, N, LOG_Q, INV2, "POLY")
RestoreInv2(a) == SetInv2(a, INV2)
InitNtt(a)    == LoadTwiddle(a, <<PSI, PSI, 1, 1>>)
InitInvNtt(a) == LoadTwiddle(a, <<PSI_INV, PSI_INV, 1, 1>>)
InitZeta(a)   == LoadZeta(a, <<PSI, Q - PSI>>)

VecNtt(a, v)    == Each(a, Len(v), LAMBDA b, i : Out(Forward(LoadPoly(b, v[i]))))
ToBytes(a, v)   == Each(a, Len(v), LAMBDA b, i : Out(Encode(LoadPoly(b, v[i]), LOG_Q)))
FromMsg(a, m)   == Out(Decompress(Decode(a, m), 1))
ToMsg(a)        == Out(Encode(Compress(a, 1), 1))
Unpack(a, c, d) == Out(Decompress(Decode(a, c), d))
AddPack(a, e, d) == Out(Encode(Compress(Add(LoadTwiddle(a, e)), d), d))

AddChainPack(a, e, k, d) == AddPack(Add(LoadTwiddle(a, e)), k, d)
SubToMsg(a, p)  == ToMsg(SubRev(LoadTwiddle(a, p)))

\* The streams noise and the matrix are drawn from.
PrfAbsorb(a, key, nonce) == StreamInit(a, key, nonce)
XofAbsorb(a, seed, entry) == StreamInit(a, seed, entry)
CbdEta(a, buf) == Out(Cbd(a, buf))

\* n noise polynomials; the stream of each next one, from nonce on, is begun while one is read.
Noise(a, seed, nonce, n, absorbLast) ==
    Each(a, n, LAMBDA b, i :
        CbdEta(IF i < n \/ absorbLast THEN PrfAbsorb(b, seed, nonce + i - 1) ELSE b, Squeezed(b)))

\* The nonces of a matrix entry, or of the entry across the diagonal.
Absorbed(i, j, transposed) == IF transposed THEN <<i, j>> ELSE <<j, i>>

\* An entry goes to the polynomial memory, and the stream of the next is begun.
GenPoly(a, rho, next, absorb) ==
    LET b == Rejsamp(a, XOF_WORDS, Q) IN IF absorb THEN XofAbsorb(b, rho, next) ELSE b

\* Row j of the matrix, or of its transpose, times v.  The sum of the products is r.
RowProducts(a, rho, j, v, transposed) ==
    LET Product(b, i, next, absorb) == Pwm(LoadTwiddle(GenPoly(b, rho, next, absorb), v[i + 1]))
        acc[i \in 0 .. K - 1] ==
            IF i = 0 THEN Product(SetInv2(SetBound(a, Q), XOF_WORDS), 0, Absorbed(j, 1, transposed), TRUE)
            ELSE LET r == acc[i - 1]
                     row == IF i = K - 1 THEN j + 1 ELSE j
                     col == IF i = K - 1 THEN 0 ELSE i + 1
                 IN  Add(LoadTwiddle(Product(r, i, Absorbed(row, col, transposed), row # K), r.poly))
    IN  acc[K - 1]

\* Wrong variant: the words of a block are left in inv2.
RowFromSeed_LeavesInv2(a, rho, j, v, transposed) == RowProducts(a, rho, j, v, transposed)

RowFromSeed(a, rho, j, v, transposed) == RestoreInv2(RowProducts(a, rho, j, v, transposed))

RowAddToBytes(a, rho, j, v, e) == Out(Encode(Add(LoadTwiddle(RowFromSeed(a, rho, j, v, FALSE), e)), LOG_Q))
RowFromSeedInvNtt(a, rho, j, v) == Backward(InitInvNtt(RowFromSeed(a, rho, j, v, TRUE)))

\* A packed vector times v.
FromBytesInvNtt(a, packed, v) ==
    LET Product(b, i) == Pwm(LoadTwiddle(Decode(b, packed[i]), v[i]))
        acc[i \in 1 .. K] ==
            IF i = 1 THEN Product(a, 1)
            ELSE LET r == acc[i - 1] IN Add(LoadTwiddle(Product(r, i), r.poly))
    IN  Backward(InitInvNtt(acc[K]))

\* A ciphertext in memory: the polynomials of u one behind the other, then v.  The reader takes
\* polynomial i of u (from 0) at i times a third of the vector.
Bytes(c) ==
    LET from[i \in 1 .. K + 1] == IF i = K + 1 THEN c.v ELSE c.u[i] \o from[i + 1] IN from[1]
PolyAt(c, i) == SubSeq(Bytes(c), (i * K * N) \div 3 + 1, (i * K * N) \div 3 + N)

UnpackNtt(a, c) ==
    Each(a, K, LAMBDA b, i : Out(Forward(InitNtt(Unpack(b, PolyAt(c, i - 1), DU).a))))

-----------------------------------------------------------------------------
(* The scheme under the mechanism: indcpa.c *)

\* Hashing takes the Keccak accelerator from the stream it held.
Hashed(a) == [a EXCEPT !.kec = None]
RngInit(a) == SetModulus(a, Pow2, TRUE)

\* s, then e, in the transform's domain.
KeyNoise(a, sigma) ==
    LET s  == Noise(PrfAbsorb(a, sigma, 0), sigma, 1, K, TRUE)
        e  == Noise(s.a, sigma, K + 1, K, FALSE)
        ns == VecNtt(InitNtt(e.a), s.v)
        ne == VecNtt(ns.a, e.v)
    IN  [a |-> ne.a, s |-> ns.v, e |-> ne.v]
KeyFrom(n, rho) ==
    LET t == Each(XofAbsorb(n.a, rho, Absorbed(0, 0, FALSE)), K, LAMBDA b, i : RowAddToBytes(b, rho, i - 1, n.s, n.e[i]))
        s == ToBytes(t.a, n.s)
    IN  [a |-> s.a, pk |-> [t |-> t.v, rho |-> rho], s |-> s.v]
IndcpaKeypair(a, seed) ==
    KeyFrom(KeyNoise(Hashed(RngInit(InitZeta(InitQ(a)))), seed.sigma), seed.rho)

\* The message, then the noise: r in the transform's domain.
EncNoise(a, m, coins) ==
    LET k   == FromMsg(InitZeta(InitQ(a)), m)
        sp  == Noise(PrfAbsorb(k.a, coins, 0), coins, 1, K, TRUE)
        ep  == Noise(sp.a, coins, K + 1, K, TRUE)
        epp == Noise(ep.a, coins, 2 * K + 1, 1, FALSE)
        nsp == VecNtt(InitNtt(epp.a), sp.v)
    IN  [a |-> nsp.a, k |-> k.v, sp |-> nsp.v, ep |-> ep.v, epp |-> epp.v[1]]
EncFrom(n, key) ==
    LET u == Each(XofAbsorb(n.a, key.rho, Absorbed(0, 0, FALSE)), K, LAMBDA b, i :
                 AddPack(RowFromSeedInvNtt(b, key.rho, i - 1, n.sp), n.ep[i], DU))
        v == AddChainPack(FromBytesInvNtt(u.a, key.t, n.sp), n.epp, n.k, DV)
    IN  [a |-> v.a, c |-> [u |-> u.v, v |-> v.v]]
IndcpaEnc(a, m, key, coins) == EncFrom(EncNoise(a, m, coins), key)

\* Nobody loads zeta: it is there since the key was made.
IndcpaDec(a, c, s) ==
    LET v  == Unpack(InitQ(a), c.v, DV)
        bp == UnpackNtt(v.a, c)
    IN  SubToMsg(FromBytesInvNtt(bp.a, s, bp.v), v.v)

-----------------------------------------------------------------------------
(* The calls: kem.c *)

Random == [random |-> TRUE]      \* the bytes z of a key
Kdf(k, c) == [k |-> k, c |-> c]
PreKey(m, h) == [m |-> m, h |-> h]

Init ==
    /\ hw = Reset
    /\ pk = None /\ sk = None /\ sent = None /\ answer = None

Keypair ==
    /\ \E seed \in Seeds : \E r \in {IndcpaKeypair(hw, seed)} :
        /\ hw' = Hashed(r.a) /\ pk' = r.pk
        /\ sk' = [s |-> r.s, pk |-> r.pk, h |-> r.pk, z |-> Random]
    /\ answer' = None
    /\ UNCHANGED sent

Encapsulate ==
    /\ pk # None
    /\ \E m \in Messages : \E r \in {IndcpaEnc(Hashed(RngInit(hw)), m, pk, Coins(m, pk))} :
        /\ hw' = Hashed(r.a)
        /\ sent' = [c |-> r.c, ss |-> Kdf(PreKey(m, pk), r.c)]
        /\ answer' = [call |-> "enc", pk |-> pk, m |-> m]
    /\ UNCHANGED <<pk, sk>>

\* The secret of a ciphertext that is not the one its message gives is drawn from z.
Cmov(k, z, fail) == IF fail THEN z ELSE k
Reencrypted(d, c, key) ==
    LET e == IndcpaEnc(Hashed(d.a), d.v, key.pk, Coins(d.v, key.h))
    IN  [a |-> Hashed(e.a), ss |-> Kdf(Cmov(PreKey(d.v, key.h), key.z, e.c # c), c)]

Decapsulate(c) ==
    /\ sk # None
    /\ \E r \in {Reencrypted(IndcpaDec(hw, c, sk.s), c, sk)} :
        hw' = r.a /\ answer' = [call |-> "dec", sk |-> sk, c |-> c, ss |-> r.ss]
    /\ UNCHANGED <<pk, sk, sent>>

\* Ciphertexts that reach the device: the one it made, or what that may be changed into.
Other(x, d) == (x + 1) % 2^d
Variants(c) ==
    {c} \union {[c EXCEPT !.u[i][k] = Other(@, DU)] : i \in 1 .. K, k \in 1 .. N}
        \union {[c EXCEPT !.v[k] = Other(@ + x, DV)] : k \in 1 .. N, x \in {0, 2^(DV - 1) - 1}}

\* Bound: after a decapsulation, the next one is of the device's own ciphertext.
Received == IF answer # None /\ answer.call # "enc" THEN {sent.c} ELSE Variants(sent.c)

Next ==
    \/ Keypair
    \/ Encapsulate
    \/ sent # None /\ \E c \in Received : Decapsulate(c)

Spec == Init /\ [][Next]_vars

-----------------------------------------------------------------------------
(* The mechanism without accelerator, transforms or packing *)

RPlus(p, q)  == <<(p[1] + q[1]) % Q, (p[2] + q[2]) % Q, (p[3] + q[3]) % Q, (p[4] + q[4]) % Q>>
RMinus(p, q) == <<(p[1] - q[1]) % Q, (p[2] - q[2]) % Q, (p[3] - q[3]) % Q, (p[4] - q[4]) % Q>>
RTimes(p, q) ==
    << (p[1] * q[1] - p[2] * q[4] - p[3] * q[3] - p[4] * q[2]) % Q,
       (p[1] * q[2] + p[2] * q[1] - p[3] * q[4] - p[4] * q[3]) % Q,
       (p[1] * q[3] + p[2] * q[2] + p[3] * q[1] - p[4] * q[4]) % Q,
       (p[1] * q[4] + p[2] * q[3] + p[3] * q[2] + p[4] * q[1]) % Q >>
RSum(n, F(_)) == LET s[i \in 0 .. n] == IF i = 0 THEN Zeros(N) ELSE RPlus(s[i - 1], F(i)) IN s[n]

\* The polynomial with these remainders modulo x^2 - PSI and x^2 + PSI.
WithRemainders(v) ==
    << ((v[1] + v[3]) * INV2) % Q, ((v[2] + v[4]) * INV2) % Q,
       ((v[1] - v[3]) * PSI_INV) % Q, ((v[2] - v[4]) * PSI_INV) % Q >>

Rounded(x, d) == ((2 * x * 2^d + Q) \div (2 * Q)) % 2^d
Restored(y, d) == (2 * y * Q + 2^d) \div 2^(d + 1)
RoundedPoly(p, d)  == Sequence(N, LAMBDA k : Rounded(p[k], d))
RestoredPoly(p, d) == Sequence(N, LAMBDA k : Restored(p[k], d))

\* The matrix, and noise with as many ones in the first half of its four bits as in the second, or more.
Entry(key, i, j) == WithRemainders(key.rho[<<j - 1, i - 1>>])
Weight(x) == Bit(x, 0) + Bit(x, 1) - Bit(x, 2) - Bit(x, 3)
NoisePoly(p) == Sequence(N, LAMBDA k : Weight(p[k]) % Q)

Encryption(m, key) ==
    LET r == [i \in 1 .. K |-> NoisePoly(Coins(m, key)[i - 1])]
        U(i) == RPlus(RSum(K, LAMBDA j : RTimes(Entry(key, j, i), r[j])), NoisePoly(Coins(m, key)[K + i - 1]))
        v == RSum(K, LAMBDA i : RTimes(WithRemainders(key.t[i]), r[i]))
    IN  [u |-> Sequence(K, LAMBDA i : RoundedPoly(U(i), DU)),
         v |-> RoundedPoly(RPlus(RPlus(v, NoisePoly(Coins(m, key)[2 * K])), RestoredPoly(m, 1)), DV)]

Decryption(c, s) ==
    RoundedPoly(RMinus(RestoredPoly(c.v, DV),
                       RSum(K, LAMBDA i : RTimes(WithRemainders(s[i]), RestoredPoly(c.u[i], DU)))), 1)

Secret(c, key) ==
    LET m == Decryption(c, key.s)
    IN  Kdf(IF Encryption(m, key.pk) = c THEN PreKey(m, key.pk) ELSE key.z, c)

-----------------------------------------------------------------------------
(* Properties *)

\* What crypto_kem_enc sends is the encryption of its message, whatever ran on the accelerator
\* before: the key t is A s + e, u is the rounding of A^T r + e1, and v of t r + e2 + m.
EncapsulationIsExact ==
    answer # None /\ answer.call = "enc" =>
        sent.c = Encryption(answer.m, answer.pk) /\ sent.ss = Kdf(PreKey(answer.m, answer.pk), sent.c)

\* Whatever ciphertext reaches the device, decapsulation, plain or on shares, returns the secret of
\* its message if the message gives this ciphertext, and else one drawn from z.
DecapsulationIsExact == answer # None /\ answer.call # "enc" => answer.ss = Secret(answer.c, answer.sk)
=============================================================================
