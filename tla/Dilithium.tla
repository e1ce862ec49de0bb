----------------------------- MODULE Dilithium -----------------------------
(***************************************************************************)
(* Key generation, signing and verification as the firmware runs them on   *)
(* the NTT-Lite and Keccak accelerators (fw/src/dilithium): one call after *)
(* another, in any order, each on what the last one left in the registers. *)
(* Signing is a loop whose attempts are rejected on four grounds.          *)
(*                                                                         *)
(* A hash is what was hashed, and a seed is what its streams hold.  All    *)
(* polynomial arithmetic is done, in a small ring, and so is the packing.  *)
(***************************************************************************)
EXTENDS NttLite, FiniteSets

CONSTANTS Q, K, L, D, ETA, BETA, GAMMA1, GAMMA2, OMEGA,
          LOG_ETA, LOG_GAMMA1, LOG_GAMMA2, LOG_T1,   \* bits of packed coefficients
          PSI, PSI_INV,      \* the first entries of the transforms' tables
          BLOCK128, BLOCK256,  \* words of a SHAKE block
          Seeds,             \* what keys are drawn from: the streams of the matrix, and of s1 and s2
          Masks,             \* the streams an attempt may draw: y, packed
          Challenge(_),      \* the challenge polynomial drawn from a hash
          Messages

Index == 1 .. 2
Poly  == [Index -> 0 .. Q - 1]
Zero  == <<0, 0>>

\* What holds of the parameters.
DilithiumParams ==
    /\ K \in Nat \ {0} /\ L \in Nat \ {0, 1} /\ OMEGA \in Nat
    /\ Q % (2 * GAMMA2) = 1 /\ 2 * PSI * PSI_INV % Q = 1 /\ PSI * PSI % Q = Q - 1
    /\ \A s \in Seeds : /\ s.rho \in [(0 .. K - 1) \X (0 .. L - 1) -> Poly]
                        /\ s.rhoprime \in [0 .. K + L - 1 -> Poly]
    /\ Masks \subseteq [0 .. L - 1 -> Poly]

VARIABLES hw,       \* the accelerators
          pk, sk,   \* the keys in memory, if there are any
          local,    \* the signing call's vectors, while it runs
          refused,  \* history: the ground on which the attempt before was rejected
          drawn,    \* history: the mask of the attempt that ended last, until something else is done
          sig,      \* the signature in memory, with its message
          answer    \* what the last call was asked and returned, if it was a verification

vars == <<hw, pk, sk, local, refused, drawn, sig, answer>>

None == <<>>
INV2 == (Q + 1) \div 2
Highs == (Q - 1) \div (2 * GAMMA2)      \* GAMMA2_D >> 1

-----------------------------------------------------------------------------
(* Vectors of polynomials: poly.c, polyvec.c *)

InitQ(a)      == LoadQ(a, Q, Q, 2, 7, INV2, "SINGLE")
InitNtt(a)    == LoadTwiddle(a, <<PSI, 0>>)
InitInvNtt(a) == LoadTwiddle(a, <<PSI_INV, 0>>)

Ntt(a, p)        == Out(Forward(LoadPoly(a, p)))
InvNtt(a, p)     == Out(Backward(LoadPoly(a, p)))
PolyAdd(a, p, q) == Out(Add(LoadPoly(LoadTwiddle(a, q), p)))

VecNtt(a, v)    == Each(a, Len(v), LAMBDA b, i : Ntt(b, v[i]))
VecInvNtt(a, v) == Each(a, Len(v), LAMBDA b, i : InvNtt(b, v[i]))
VecAdd(a, u, v) == Each(a, Len(u), LAMBDA b, i : PolyAdd(b, u[i], v[i]))

\* c times each polynomial: it is loaded once and stays in the twiddle memory.
PointwisePoly(a, c, v) ==
    Each(a, Len(v), LAMBDA b, i : Out(Pwm(LoadPoly(IF i = 1 THEN LoadTwiddle(b, c) ELSE b, v[i]))))

\* The first product is left in the polynomial memory, and the others are added to it.
PointwiseAcc(a, row, v) ==
    LET acc[j \in 1 .. L] ==
            IF j = 1 THEN Pwm(LoadPoly(LoadTwiddle(a, v[1]), row[1]))
                     ELSE Mac(LoadTwiddle(acc[j - 1], v[j]), row[j])
    IN  Out(acc[L])
MatrixPointwise(a, mat, v) ==
    Each(a, K, LAMBDA b, i : PointwiseAcc(b, [j \in 1 .. L |-> mat[(i - 1) * L + j]], v))

ShiftlNtt(a, v) ==
    Each(SetBound(a, 2^D), Len(v), LAMBDA b, i : Out(Forward(MulConst(LoadPoly(b, v[i])))))
PointwisePolySub(a, c, v, u) ==
    Each(a, Len(v), LAMBDA b, i :
        Out(SubRev(LoadTwiddle(Pwm(LoadPoly(LoadTwiddle(b, c), v[i])), u[i]))))

\* Checks on one polynomial: what is in the polynomial memory is the result, if it is small enough.
Small(a) == OutUnless(a, ChkNormFails(a))
PolyChkNorm(a, p)   == Small(LoadPoly(a, p))
PolyInvNttChkNorm(a, p) == Small(Backward(LoadPoly(a, p)))
PolyAddInvNttChkNorm(a, p, c, q) ==
    Small(Backward(InitInvNtt(Add(LoadTwiddle(Pwm(LoadPoly(LoadTwiddle(a, c), p)), q)))))
PolyInvNttSubChkNorm(a, p, c, q) ==
    Small(SubRev(LoadTwiddle(Backward(InitInvNtt(Pwm(LoadPoly(LoadTwiddle(a, c), p)))), q)))

\* Checked loops leave at the first polynomial that is too large; bound holds the limit.
VecChkNorm(a, v, limit)    == Each(SetBound(a, limit), Len(v), LAMBDA b, i : PolyChkNorm(b, v[i]))
InvNttChkNorm(a, v, limit) == Each(SetBound(a, limit), Len(v), LAMBDA b, i : PolyInvNttChkNorm(b, v[i]))
PointwiseAddInvNttChkNorm(a, v, c, u, limit) ==
    Each(SetBound(a, limit), Len(v), LAMBDA b, i : PolyAddInvNttChkNorm(b, v[i], c, u[i]))
PointwiseInvNttSubChkNorm(a, v, c, u, limit) ==
    Each(SetBound(a, limit), Len(v), LAMBDA b, i : PolyInvNttSubChkNorm(b, v[i], c, u[i]))

\* Results are pairs of high and low bits, and the registers are restored.
OutBoth(a) == [a |-> a, v |-> [hi |-> a.tw, lo |-> a.poly], stop |-> FALSE]
PolyDecompose(a, p) == OutBoth(Decompose(LoadPoly(a, p)))
Highest(r) == [i \in DOMAIN r.v |-> r.v[i].hi]
Lowest(r)  == [i \in DOMAIN r.v |-> r.v[i].lo]

Split(a, v, wrap, width) ==
    LET r == Each(SetBound(SetMu(SetInv2(a, wrap), width), width), Len(v),
                  LAMBDA b, i : PolyDecompose(b, v[i]))
    IN  [r EXCEPT !.a = InitQ(r.a)]
VecPower2Round(a, v) == Split(a, v, -1, 2^D)
VecDecompose(a, v)   == Split(a, v, Highs, 2 * GAMMA2)

\* The hints of all polynomials; the loop is left at one that has too many.
AddMakeHint(a, v0, v1, u) ==
    Each(SetInv2(SetBound(a, GAMMA2), Q - GAMMA2), K, LAMBDA b, i :
        LET c == MakeHint(LoadTwiddle(Add(LoadPoly(LoadTwiddle(b, u[i]), v0[i])), v1[i]))
        IN  OutUnless(c, Sum(c) > OMEGA))

PolyUseHintPack(a, p, h) == Out(Encode(UseHint(Decompose(LoadPoly(a, p)), h), LOG_GAMMA2))
UseHintPack(a, u, h) ==
    Each(SetBound(SetMu(SetInv2(a, Highs), 2 * GAMMA2), 2 * GAMMA2), K, LAMBDA b, i : PolyUseHintPack(b, u[i], h[i]))

-----------------------------------------------------------------------------
(* Hashes, streams and sampling: symmetric.c, poly.c, polyvec.c *)

MuCrh(tr, msg)        == [tr |-> tr, msg |-> msg]
ChallengeHash(mu, w1) == [mu |-> mu, w1 |-> w1]

Stream128Init(a, seed, entry) == StreamInit(a, seed, entry)
Stream256Init(a, seed, nonce) == StreamInit(a, seed, nonce)

\* The stream of the next polynomial is begun while this one is stored.
PolyUniform(a, rho, next, initNext) ==
    LET c == Rejsamp(a, BLOCK128, Q) IN Out(IF initNext THEN Stream128Init(c, rho, next) ELSE c)
PolyUniformEta(a, seed, next, initNext) ==
    LET c == Rejsamp(a, BLOCK256, 2 * ETA + 1) IN Out(IF initNext THEN Stream256Init(c, seed, next) ELSE c)
PolyUniformGamma1(a, seed, next, initNext) ==
    LET c == IF initNext THEN Stream256Init(a, seed, next) ELSE a
    IN  Out(SubRevConst(Decode(SetBound(c, GAMMA1), Squeezed(a))))

NextEntry(e) == IF e[2] = L - 1 THEN <<e[1] + 1, 0>> ELSE <<e[1], e[2] + 1>>
Entries(a, rho) ==
    Each(Stream128Init(SetBound(SetInv2(a, BLOCK128), Q), rho, <<0, 0>>), K * L, LAMBDA b, i :
        PolyUniform(b, rho, NextEntry(b.kec.nonce), i < K * L))

\* Wrong variant: the words of a block are left in inv2.
MatrixExpand_LeavesInv2(a, rho) == Entries(a, rho)

RestoreInv2(r) == [r EXCEPT !.a = SetInv2(@, INV2)]
MatrixExpand(a, rho) == RestoreInv2(Entries(a, rho))
UniformEta(a, seed, nonce, n) ==
    RestoreInv2(Each(Stream256Init(SetBound(SetInv2(a, BLOCK256), 2 * ETA + 1), seed, nonce), n, LAMBDA b, i :
        PolyUniformEta(b, seed, nonce + i, i < n)))
UniformGamma1(a, seed) ==
    Each(Stream256Init(a, seed, 0), L, LAMBDA b, i : PolyUniformGamma1(b, seed, i, i < L))

-----------------------------------------------------------------------------
(* Packing: poly.c, packing.c *)

T1Pack(a, p)   == Out(Encode(LoadPoly(a, p), LOG_T1))
W1Pack(a, p)   == Out(Encode(LoadPoly(a, p), LOG_GAMMA2))
T1Unpack(a, p) == Out(Decode(a, p))

\* Signed coefficients are packed as their distance from the largest, which bound holds.
EtaPack(a, p) == Out(Encode(SubRevConst(LoadPoly(a, p)), LOG_ETA))
T0Pack(a, p)  == Out(Encode(SubRevConst(LoadPoly(a, p)), D))
ZPack(a, p)   == Out(Encode(SubRevConst(LoadPoly(a, p)), LOG_GAMMA1))
FromLargest(a, p) == Out(SubRevConst(Decode(a, p)))

PackPk(a, t1)    == Each(a, K, LAMBDA b, i : T1Pack(b, t1[i]))
UnpackPk(a, t1)  == Each(a, K, LAMBDA b, i : T1Unpack(b, t1[i]))
PackW1(a, w1)    == Each(a, K, LAMBDA b, i : W1Pack(b, w1[i]))
PackSkS1(a, s1)  == Each(SetBound(a, ETA), L, LAMBDA b, i : EtaPack(b, s1[i]))
PackZ(a, z)      == Each(SetBound(a, GAMMA1), L, LAMBDA b, i : ZPack(b, z[i]))
UnpackFrom(a, top, v) == Each(SetBound(a, top), Len(v), LAMBDA b, i : FromLargest(b, v[i]))

\* s1 is packed by then.
PackSk(a, s2, t0) ==
    LET ps2 == Each(SetBound(a, ETA), K, LAMBDA b, i : EtaPack(b, s2[i]))
        pt0 == Each(SetBound(ps2.a, 2^(D - 1)), K, LAMBDA b, i : T0Pack(b, t0[i]))
    IN  [a |-> pt0.a, s2 |-> ps2.v, t0 |-> pt0.v]
UnpackSk(a, key) ==
    LET s1 == UnpackFrom(a, ETA, key.s1)
        s2 == UnpackFrom(s1.a, ETA, key.s2)
        t0 == UnpackFrom(s2.a, 2^(D - 1), key.t0)
    IN  [a |-> t0.a, s1 |-> s1.v, s2 |-> s2.v, t0 |-> t0.v]

\* The positions of the hints of all polynomials, and behind them how many there are up to each.
PackHints(h) ==
    LET After[n \in 0 .. 2 * K] ==
            IF n = 0 THEN [k |-> 0, sig |-> [m \in 0 .. OMEGA + K - 1 |-> 0]]
            ELSE LET i == (n - 1) \div 2
                     j == (n - 1) % 2
                     p == After[n - 1]
                     q == IF h[i + 1][j + 1] # 0 THEN [k |-> p.k + 1, sig |-> [p.sig EXCEPT ![p.k] = j]] ELSE p
                 IN  IF j = 1 THEN [q EXCEPT !.sig[OMEGA + i] = q.k] ELSE q
    IN  After[2 * K].sig

HintsFrom(b, i) == IF i = 1 THEN 0 ELSE b[OMEGA + i - 2]
HintsTo(b, i)   == b[OMEGA + i - 1]

\* Wrong variant: what is behind the last hint is not looked at.
Malformed_IgnoresRest(b) ==
    \E i \in 1 .. K : \/ HintsTo(b, i) < HintsFrom(b, i)
                      \/ HintsTo(b, i) > OMEGA
                      \/ \E j \in HintsFrom(b, i) + 1 .. HintsTo(b, i) - 1 : b[j] <= b[j - 1]

Malformed(b) ==
    \/ \E i \in 1 .. K : \/ HintsTo(b, i) < HintsFrom(b, i)
                         \/ HintsTo(b, i) > OMEGA
                         \/ \E j \in HintsFrom(b, i) + 1 .. HintsTo(b, i) - 1 : b[j] <= b[j - 1]
    \/ \E j \in HintsTo(b, K) .. OMEGA - 1 : b[j] # 0
UnpackHints(b) ==
    LET Hint(i, pos) == IF \E j \in HintsFrom(b, i) .. HintsTo(b, i) - 1 : b[j] = pos THEN 1 ELSE 0
    IN  [i \in 1 .. K |-> <<Hint(i, 0), Hint(i, 1)>>]

-----------------------------------------------------------------------------
(* The calls: sign.c.  A call computes, then the action makes what it left the next state.  *)
(* Signing is cut at its label.                                                             *)

Init ==
    /\ hw = Reset
    /\ pk = None /\ sk = None /\ local = None /\ refused = "" /\ drawn = None /\ sig = None /\ answer = None

\* A vector in the NTT domain, and its product with the matrix.
Product(a, mat, v) ==
    LET n == VecNtt(InitNtt(a), v)
        m == MatrixPointwise(n.a, mat, n.v)
        w == VecInvNtt(InitInvNtt(m.a), m.v)
    IN  [a |-> w.a, ntt |-> n.v, v |-> w.v]

\* What a key pair is drawn from, and the key pair made of it.
Drawn(a, s) ==
    LET mat == MatrixExpand(InitQ(a), s.rho)
        s1  == UniformEta(mat.a, s.rhoprime, 0, L)
        s2  == UniformEta(s1.a, s.rhoprime, L, K)
        ps1 == PackSkS1(s2.a, s1.v)
    IN  [a |-> ps1.a, rho |-> s.rho, mat |-> mat.v, s1 |-> s1.v, s2 |-> s2.v, ps1 |-> ps1.v]
Keys(d, t10) ==
    LET pt1 == PackPk(t10.a, Highest(t10))
        ps  == PackSk(pt1.a, d.s2, Lowest(t10))
        key == [rho |-> d.rho, t1 |-> pt1.v]
    IN  [a |-> ps.a, pk |-> key, sk |-> [rho |-> d.rho, tr |-> key, s1 |-> d.ps1, s2 |-> ps.s2, t0 |-> ps.t0]]

Keypair ==
    /\ local = None
    /\ \E s \in Seeds : \E d \in {Drawn(hw, s)} : \E as \in {Product(d.a, d.mat, d.s1)} :
       \E t \in {VecAdd(as.a, as.v, d.s2)} : \E t10 \in {VecPower2Round(t.a, t.v)} :
       \E r \in {Keys(d, t10)} : hw' = r.a /\ pk' = r.pk /\ sk' = r.sk
    /\ drawn' = None /\ answer' = None
    /\ UNCHANGED <<local, refused, sig>>

\* What is computed once for all attempts.
Prepare(a, key, msg) ==
    LET u   == UnpackSk(InitQ(a), key)
        mat == MatrixExpand(u.a, key.rho)
        ns1 == VecNtt(InitNtt(mat.a), u.s1)
        ns2 == VecNtt(ns1.a, u.s2)
        nt0 == VecNtt(ns2.a, u.t0)
    IN  [a |-> nt0.a, local |-> [masked |-> FALSE, mu |-> MuCrh(key.tr, msg), mat |-> mat.v,
                                 s1 |-> ns1.v, s2 |-> ns2.v, t0 |-> nt0.v]]

\* The signature's buffer is scratch memory until it is packed.
SignBegin(msg) ==
    /\ local = None /\ sk # None
    /\ \E r \in {Prepare(hw, sk, msg)} : hw' = r.a /\ local' = r.local
    /\ refused' = "" /\ drawn' = None /\ sig' = None /\ answer' = None
    /\ UNCHANGED <<pk, sk>>

\* One pass from the label, with the mask that seed holds: the commitment and its challenge, the
\* response, and the signature made of it, unless a ground to reject is met on the way.
Commitment(l, w, w10) ==
    LET pw1 == PackW1(w10.a, Highest(w10))
    IN  [a |-> pw1.a, y |-> w.ntt, w1 |-> Highest(w10), w0 |-> Lowest(w10), c |-> ChallengeHash(l.mu, pw1.v)]
Response(l, p, cp) ==
    LET z   == PointwiseAddInvNttChkNorm(cp.a, l.s1, cp.v[1], p.y, GAMMA1 - BETA)
        w0  == PointwiseInvNttSubChkNorm(z.a, l.s2, cp.v[1], p.w0, GAMMA2 - BETA)
    IN  CASE z.stop -> [a |-> z.a, ground |-> "z"]
          [] ~z.stop /\ w0.stop -> [a |-> w0.a, ground |-> "w0"]
          [] OTHER -> [a |-> w0.a, ground |-> "", c |-> p.c, cp |-> cp.v[1], z |-> z.v,
                       w0 |-> w0.v, w1 |-> p.w1]
Hinted(l, q) ==
    LET nct == PointwisePoly(q.a, q.cp, l.t0)
        ct0 == InvNttChkNorm(InitInvNtt(nct.a), nct.v, GAMMA2)
        h   == AddMakeHint(ct0.a, q.w0, q.w1, ct0.v)
        pz  == PackZ(h.a, q.z)
    IN  CASE ct0.stop -> [a |-> ct0.a, ground |-> "t0"]
          [] ~ct0.stop /\ h.stop -> [a |-> h.a, ground |-> "hints"]
          [] OTHER -> [a |-> pz.a, ground |-> "",
                       sig |-> [c |-> q.c, z |-> pz.v, h |-> PackHints(h.v), msg |-> l.mu.msg]]
Attempt(l, q) == IF q.ground # "" THEN q ELSE Hinted(l, q)

\* Back to the label, or return.
Decide(r, seed) ==
    /\ hw' = r.a /\ drawn' = seed
    /\ \/ r.ground # "" /\ refused' = r.ground /\ UNCHANGED <<local, sig>>
       \/ r.ground = "" /\ local' = None /\ sig' = r.sig /\ UNCHANGED refused
    /\ UNCHANGED <<pk, sk, answer>>

SignAttempt ==
    /\ local # None /\ ~local.masked
    /\ \E seed \in Masks : \E y \in {UniformGamma1(hw, seed)} : \E w \in {Product(y.a, local.mat, y.v)} :
       \E w10 \in {VecDecompose(w.a, w.v)} : \E p \in {Commitment(local, w, w10)} :
       \E cp \in {VecNtt(InitNtt(p.a), <<Challenge(p.c)>>)} : \E q \in {Response(local, p, cp)} :
       \E r \in {Attempt(local, q)} : Decide(r, seed)

\* The signature unpacked and checked, then w1 computed from it and compared by its hash.
Unpacked(a, key, s) ==
    LET t1  == UnpackPk(InitQ(a), key.t1)
        z   == UnpackFrom(t1.a, GAMMA1, s.z)
        chk == VecChkNorm(z.a, z.v, GAMMA1 - BETA)
    IN  IF Malformed(s.h) THEN [a |-> z.a, refused |-> TRUE]
        ELSE [a |-> chk.a, refused |-> chk.stop, t1 |-> t1.v, z |-> z.v]
Recomputed(p, key, s) ==
    LET mat == MatrixExpand(p.a, key.rho)
        nz  == VecNtt(InitNtt(mat.a), p.z)
        cp  == VecNtt(nz.a, <<Challenge(s.c)>>)
        nt1 == ShiftlNtt(cp.a, p.t1)
        naz == MatrixPointwise(nt1.a, mat.v, nz.v)
        nw  == PointwisePolySub(naz.a, cp.v[1], nt1.v, naz.v)
        w   == VecInvNtt(InitInvNtt(nw.a), nw.v)
    IN  UseHintPack(w.a, w.v, UnpackHints(s.h))
Compared(w1, key, s) ==
    [a |-> w1.a, value |-> IF s.c = ChallengeHash(MuCrh(key, s.msg), w1.v) THEN 0 ELSE -1]
Verification(p, key, s) ==
    IF p.refused THEN [a |-> p.a, value |-> -1] ELSE Compared(Recomputed(p, key, s), key, s)

Verify(s) ==
    /\ local = None /\ pk # None
    /\ \E r \in {Verification(Unpacked(hw, pk, s), pk, s)} :
        hw' = r.a /\ answer' = [pk |-> pk, sig |-> s, value |-> r.value]
    /\ drawn' = None
    /\ UNCHANGED <<pk, sk, local, refused, sig>>

\* Signatures that reach the device: the one it made, or what that may be changed into.
HintArrays == {b \in [0 .. OMEGA + K - 1 -> 0 .. OMEGA + 1] : \A m \in 0 .. OMEGA - 1 : b[m] \in 0 .. 1}
Variants(s) ==
    {[s EXCEPT !.h = b] : b \in HintArrays \union {s.h}} \union
    {[s EXCEPT !.msg = m] : m \in Messages} \union
    {[s EXCEPT !.z[i][k] = x] : i \in 1 .. L, k \in Index, x \in {1, 2, 2^LOG_GAMMA1 - 2, 2^LOG_GAMMA1 - 1}}

\* Bound: after a verification, the next one is of the device's own signature.
Received == IF answer = None THEN Variants(sig) ELSE {sig}

Next ==
    \/ Keypair
    \/ \E msg \in Messages : SignBegin(msg)
    \/ SignAttempt
    \/ sig # None /\ \E s \in Received : Verify(s)

Spec == Init /\ [][Next]_vars

-----------------------------------------------------------------------------
(* What a valid signature is, without accelerator, transforms or code *)

RingTimes(p, q) == <<(p[1] * q[1] - p[2] * q[2]) % Q, (p[1] * q[2] + p[2] * q[1]) % Q>>
Plus(p, q)  == <<(p[1] + q[1]) % Q, (p[2] + q[2]) % Q>>
Scale(x, p) == <<(x * p[1]) % Q, (x * p[2]) % Q>>

\* The remainder of r in (-GAMMA2, GAMMA2], and the part of r that a hint may move.
Low(r)  == LET m == r % (2 * GAMMA2) IN IF m > GAMMA2 THEN m - 2 * GAMMA2 ELSE m
High(r) == IF r - Low(r) = Q - 1 THEN 0 ELSE (r - Low(r)) \div (2 * GAMMA2)
Moved(r, hint) == LET up == Low(r) > 0 /\ r - Low(r) # Q - 1
                  IN  IF hint = 0 THEN High(r) ELSE (High(r) + (IF up THEN 1 ELSE -1)) % Highs

\* A is drawn as the values of its polynomials at PSI and -PSI.
Entry(key, i, j) ==
    LET v == key.rho[<<i - 1, j - 1>>]
    IN  <<((v[1] + v[2]) * INV2) % Q, ((v[1] - v[2]) * PSI_INV) % Q>>

\* A z - c t1 2^D: its high bits, moved by the hints, are w1.
RowTimes(key, i, z) ==
    LET az[j \in 0 .. L] == IF j = 0 THEN Zero ELSE Plus(az[j - 1], RingTimes(Entry(key, i, j), z[j])) IN az[L]
Azct(key, c, z, i) == Plus(RowTimes(key, i, z), Scale(-(2^D), RingTimes(Challenge(c), key.t1[i])))

\* The one encoding of the hints h: positions in order, zeros, and the running totals.
HintsUpTo(h, i) == Cardinality({e \in (1 .. i) \X Index : h[e[1]][e[2]] = 1})
Encodes(b, h) ==
    /\ HintsUpTo(h, K) <= OMEGA
    /\ \A i \in 1 .. K : b[OMEGA + i - 1] = HintsUpTo(h, i)
    /\ \A i \in 1 .. K, k \in Index :
        h[i][k] = 1 => b[HintsUpTo(h, i - 1) + (IF k = 2 THEN h[i][1] ELSE 0)] = k - 1
    /\ \A m \in HintsUpTo(h, K) .. OMEGA - 1 : b[m] = 0

Hints == [1 .. K -> [Index -> 0 .. 1]]
Valid(key, s) ==
    LET z == [j \in 1 .. L |-> <<(GAMMA1 - s.z[j][1]) % Q, (GAMMA1 - s.z[j][2]) % Q>>]
        w == [i \in 1 .. K |-> Azct(key, s.c, z, i)] IN
    /\ \A j \in 1 .. L, k \in Index : Center(z[j][k], Q) \in -(GAMMA1 - BETA) + 1 .. GAMMA1 - BETA - 1
    /\ s.c.mu = [tr |-> key, msg |-> s.msg]
    /\ \E h \in Hints :
        /\ Encodes(s.h, h)
        /\ \A i \in 1 .. K, k \in Index : s.c.w1[i][k] = Moved(w[i][k], h[i][k])

\* An attempt with the secret key and the mask: on which ground it is refused, or the signature's
\* c, z and hints.  A hint tells that adding c t0 moves a coefficient to other high bits.
TooLarge(v, limit) == \E i \in DOMAIN v, k \in Index : Center(v[i][k], Q) \notin -limit + 1 .. limit - 1
Outcome(key, msg, mask) ==
    LET y  == [j \in 1 .. L |-> <<GAMMA1 - mask[j - 1][1], GAMMA1 - mask[j - 1][2]>>]
        w  == [i \in 1 .. K |-> RowTimes(key, i, y)]
        c  == [mu |-> [tr |-> key.tr, msg |-> msg], w1 |-> [i \in 1 .. K |-> <<High(w[i][1]), High(w[i][2])>>]]
        ByC(p, top) == RingTimes(Challenge(c), <<top - p[1], top - p[2]>>)
        z  == [j \in 1 .. L |-> Plus(y[j], ByC(key.s1[j], ETA))]
        r  == [i \in 1 .. K |-> Plus(w[i], Scale(-1, ByC(key.s2[i], ETA)))]
        r0 == [i \in 1 .. K |-> <<r[i][1] - 2 * GAMMA2 * c.w1[i][1], r[i][2] - 2 * GAMMA2 * c.w1[i][2]>>]
        t0 == [i \in 1 .. K |-> ByC(key.t0[i], 2^(D - 1))]
        Hint(i, k) == IF High(Plus(r[i], t0[i])[k]) = c.w1[i][k] THEN 0 ELSE 1
    IN  [ground |-> CASE TooLarge(z, GAMMA1 - BETA) -> "z"
                      [] ~TooLarge(z, GAMMA1 - BETA) /\ TooLarge(r0, GAMMA2 - BETA) -> "w0"
                      [] ~TooLarge(z, GAMMA1 - BETA) /\ ~TooLarge(r0, GAMMA2 - BETA) ->
                           IF TooLarge(t0, GAMMA2) THEN "t0" ELSE "",
         c |-> c, z |-> z, h |-> [i \in 1 .. K |-> <<Hint(i, 1), Hint(i, 2)>>]]

-----------------------------------------------------------------------------
(* Properties *)

\* Whatever signature, message or hint encoding reaches the device, in whatever state the calls
\* before left the accelerator: crypto_sign_verify returns 0 for the valid ones and for no other.
VerifyIsExact == answer # None => (answer.value = 0 <=> Valid(answer.pk, answer.sig))

\* What crypto_sign_signature returns is valid for the key it was made with, through any number of
\* rejected attempts, but for two things: the attempt came right after one that was rejected for
\* its hints, or more hints were packed than fit.
SignedIsValid ==
    sig # None /\ refused # "hints" /\ HintsTo(sig.h, K) <= OMEGA => Valid(sig.c.mu.tr, sig)

\* Every attempt of a signing call, plain or on shares, whatever the shares, ends as the scheme's
\* attempt with the same mask: refused on the same ground, or with its challenge, response and
\* hints, as long as they fit.
Ended(o) == IF local # None THEN o.ground # "" /\ refused = o.ground
            ELSE /\ o.ground = "" /\ sig.c = o.c
                 /\ \A j \in 1 .. L, k \in Index : (GAMMA1 - sig.z[j][k]) % Q = o.z[j][k]
                 /\ HintsUpTo(o.h, K) <= OMEGA => Encodes(sig.h, o.h)
AttemptIsExact ==
    drawn # None => Ended(Outcome(sk, IF local # None THEN local.mu.msg ELSE sig.msg, drawn))

\* fw/test/dilithium_test/main.c:178 verifies the signature made and expects 0: every signature
\* that crypto_sign_signature returns is valid for its key.  It is not: more than OMEGA hints of
\* several polynomials are packed, over the counters behind them.
SignedVerifies == sig # None => Valid(sig.c.mu.tr, sig)
=============================================================================
