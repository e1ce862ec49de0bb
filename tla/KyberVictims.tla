---------------------------- MODULE KyberVictims ----------------------------
(***************************************************************************)
(* The programs whose power is measured (sca/fw/victims), those of Kyber.  *)
(* A host sends seeds; the program makes shares of them, makes and uses    *)
(* shares of a seed of zeros, then runs one masked function.  The host     *)
(* also turns the generator of shares on and off between captures.         *)
(*                                                                         *)
(* Built with TTEST, the comparison of a decapsulation always succeeds.    *)
(***************************************************************************)
EXTENDS MaskedKyber

CONSTANTS Inputs,       \* what the host's seeds hold: a stream for each nonce
          ZeroInput,    \* what the seed of zeros holds
          Ciphertexts   \* what the seeds of ciphertexts hold

\* Those a host seeds, and all.
Traced  == {"indcpa_dec", "poly_tomsg", "poly_frommsg", "indcca_dec"}
Victims == Traced \union {"cpapke_dec", "masked cpapke_dec"}

VictimParams == Inputs \union {ZeroInput} \subseteq [0 .. K - 1 -> [1 .. N -> 0 .. 2^(LOG_Q - 1) - 1]]

\* Public inputs with every byte the same.
Ones   == Sequence(N, LAMBDA k : 1)
OnesC  == [u |-> Sequence(K, LAMBDA i : Ones), v |-> Ones]
OnesPk == [t |-> Sequence(K, LAMBDA i : Ones), rho |-> (CHOOSE s \in Seeds : TRUE).rho]
OnesHash == [t |-> <<Zeros(N)>>]    \* a hash whose shares are equal

-----------------------------------------------------------------------------
(* victims_commons_util.c, victims_commons_kyber.c *)

ResetState(a) == Add(LoadTwiddle(LoadPoly(a, Zeros(N)), Zeros(N)))

\* Shared bits, one less than the modulus has, turned into shares modulo it and shared anew.
Absorb(a, src, nonce) == StreamInit(a, src, nonce)
SqueezedShares(a, bits) == Boolean(a, Squeezed(a), 2^bits)
Converted(r) == B2A(GadgetsInitQ(r.a), TRUE, r.v)
Shared(r) == LET x == ARef(r.a, TRUE, r.v) IN [x EXCEPT !.a = ResetState(@)]
PolyFromSeed(a, src, nonce) ==
    LET k == Absorb(a, src, nonce)
        t == SqueezedShares(k, LOG_Q - 1)
    IN  Shared(Converted(BothShares(InitQ(Stirred(k)), LAMBDA b, j : Out(Decode(b, t[j])))))
PolyvecFromSeed(a, src) ==
    LET r == Each(a, K, LAMBDA b, i : PolyFromSeed(b, src, i - 1)) IN [r EXCEPT !.v = Pair(@)]

MsgOfStream(p) == Sequence(N, LAMBDA k : p[k] % 2)
MsgFromSeed(a, src) ==
    LET k == Absorb(a, src, 0) IN [a |-> Stirred(k), v |-> Boolean(k, MsgOfStream(Squeezed(k)), 2)]

\* Wrong variant: the polynomials' registers are left as the dummy left them.
Ready_Unset(a) == GadgetsInitQ(a)

Ready(a) == GadgetsInitQ(InitQ(a))

\* Commands l and g.
PrngOn(seed) == hw' = SeedPrng(hw, seed) /\ answer' = None
PrngOff      == hw' = SeedPrng(hw, 0) /\ answer' = None

-----------------------------------------------------------------------------
(* Command p of each program.  The function under test leaves out and the accelerators a.  Bound:   *)
(* the generator is taken back to where it was. *)

Captured(a, v, in, out) ==
    /\ hw' = SeedPrng(a, hw.prng)
    /\ answer' = [call |-> v, in |-> in, out |-> out]

\* kyber_indcpa_dec_ttest
IndcpaDecGetKey(in) ==
    \E s \in {PolyvecFromSeed(hw, in)} : \E d \in {PolyvecFromSeed(s.a, ZeroInput)} :
    \E u \in {MaskedUnpacked([a |-> ResetState(Ready(d.a))], OnesC)} :
    \E m \in {MaskedIndcpaDec(u, s.v)} : Captured(m.a, "indcpa_dec", in, XorOf(m.v))

\* kyber_poly_tomsg_ttest; the dummy takes the function's way, too.
ToMsgGetPoly(in) ==
    \E p \in {PolyFromSeed(hw, in, 0)} : \E d \in {PolyFromSeed(p.a, ZeroInput, 0)} :
    \E x \in {MaskedToMsg(d.a, d.v)} : \E m \in {MaskedToMsg(Ready(x.a), p.v)} :
    Captured(m.a, "poly_tomsg", in, XorOf(m.v))

\* kyber_poly_frommsg_ttest
FromMsgGetPoly(in) ==
    \E m \in {MsgFromSeed(hw, in)} : \E d \in {MsgFromSeed(m.a, ZeroInput)} :
    \E p \in {MaskedFromMsg(Ready(d.a), m.v)} : Captured(p.a, "poly_frommsg", in, SumOf(p.v, Q))

\* kyber_indcca_dec_ttest.  The comparison ends without its result.
Multiply(s) == ZeroTestMul(s.a, s.v)
Tested(x)   == Multiply(Summed(B2AQmVec(GadgetsInitCarrier(x.a), x.v)))
IndccaDecGetKey(in) ==
    /\ hw.prng # 0          \* else x2x_prng_read_nonzero does not return
    /\ \E s \in {PolyvecFromSeed(hw, in)} : \E d \in {PolyvecFromSeed(s.a, ZeroInput)} :
       \E m \in {MaskedIndcpaDec(MaskedUnpacked([a |-> Ready(d.a)], OnesC), s.v)} :
       \E p \in {MaskedPrepare(MaskedHashed(m.a), m.v, OnesPk)} :
       \E n \in {MaskedEncNoise(p, Coins(XorOf(m.v), OnesHash))} :
       \E x \in {MaskedCompared(MaskedCiphertext(p, n), OnesC)} :
       \E f \in {MaskedKdf(Tested(x).a, Cmov(PreKey(XorOf(m.v), OnesHash), Random, FALSE), OnesC)} :
       Captured(f.a, "indcca_dec", in, f.ss)

\* kyber_cpapke_dec_cpa: command k makes the key of a seed, command p decrypts the ciphertext of
\* one, on shares or not.  The key's bytes are 0 before there is one.
CpaKeypair(a, seed) == KeyFrom(KeyNoise(Hashed(InitZeta(InitQ(a))), seed.sigma), seed.rho)
CpaGetKey ==
    /\ \E seed \in Seeds : \E r \in {CpaKeypair(hw, seed)} : hw' = Hashed(r.a) /\ sk' = r.s
    /\ answer' = None
KeyBytes == IF sk = None THEN [i \in 1 .. K |-> Zeros(N)] ELSE sk
CpaGetPt(c) ==
    \E r \in {IndcpaDec(Hashed(hw), c, KeyBytes)} :
        Captured(r.a, "cpapke_dec", [c |-> c, s |-> KeyBytes], r.v)
MaskedCpaGetPt(c) ==
    \E i \in {MaskedIndcpaDecInit(Hashed(hw), KeyBytes)} : \E m \in {MaskedIndcpaDec(MaskedUnpacked(i, c), i.v)} :
        Captured(m.a, "cpapke_dec", [c |-> c, s |-> KeyBytes], XorOf(m.v))

\* A program's loop.  The masked cpapke_dec seeds the generator itself, or leaves it off.
Main(v, a) == IF v = "masked cpapke_dec" THEN {SeedPrng(a, s) : s \in PrngSeeds \union {0}} ELSE {a}
VictimNext(v) ==
    \/ v \in Traced /\ UNCHANGED sk /\ (PrngOff \/ \E seed \in PrngSeeds : PrngOn(seed))
    \/ v = "indcpa_dec"   /\ UNCHANGED sk /\ \E in \in Inputs : IndcpaDecGetKey(in)
    \/ v = "poly_tomsg"   /\ UNCHANGED sk /\ \E in \in Inputs : ToMsgGetPoly(in)
    \/ v = "poly_frommsg" /\ UNCHANGED sk /\ \E in \in Inputs : FromMsgGetPoly(in)
    \/ v = "indcca_dec"   /\ UNCHANGED sk /\ \E in \in Inputs : IndccaDecGetKey(in)
    \/ v \in Victims \ Traced /\ CpaGetKey
    \/ v = "cpapke_dec"   /\ UNCHANGED sk /\ \E c \in Ciphertexts : CpaGetPt(c)
    \/ v = "masked cpapke_dec" /\ UNCHANGED sk /\ \E c \in Ciphertexts : MaskedCpaGetPt(c)

-----------------------------------------------------------------------------
(* Properties *)

Expected(v, in) ==
    LET m == Decryption(OnesC, [i \in 1 .. K |-> in[i - 1]]) IN
    CASE v = "indcpa_dec"   -> m
      [] v = "indcca_dec"   -> Kdf(PreKey(m, OnesHash), OnesC)
      [] v = "poly_tomsg"   -> RoundedPoly(in[0], 1)
      [] v = "poly_frommsg" -> RestoredPoly(MsgOfStream(in[0]), 1)
      [] v = "cpapke_dec"   -> Decryption(in.c, in.s)

\* What a measured function computes is what its input gives, whatever the captures before, on
\* shares drawn by the generator or with the generator off; for cpapke_dec this is the message
\* that kyber_cpapke_dec_cpa.ipynb asserts.
CaptureIsExact == answer # None => answer.out = Expected(answer.call, answer.in)
=============================================================================
