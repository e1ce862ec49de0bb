----------------------------- MODULE MCFirmware -----------------------------
(***************************************************************************)
(* The programs in small rings: Kyber modulo 97 and x^4 + 1, with noise    *)
(* small enough to decrypt; Dilithium modulo 97 and x^2 + 1, with masks    *)
(* for which every ground of rejection is met but the hints'; PASTA modulo *)
(* 17, with halves of four coefficients.                                   *)
(***************************************************************************)
EXTENDS Firmware

\* Numbers without a pattern.
Scrambled(x) == x * x * 31 + x * 17 + 5

-----------------------------------------------------------------------------
(* Kyber: noise of one coefficient, 1, 4 (for -1), 2 or 8 *)

Noise(x) ==
    Sequence(4, LAMBDA k : IF k = 1 + (x % 4) THEN 2^((x \div 4) % 4) ELSE IF k = 1 + ((x + 1) % 4) THEN 5 ELSE 0)
KyberSeed(n) ==
    [rho |-> [e \in (0 .. KyberK - 1) \X (0 .. KyberK - 1) |->
                 Sequence(4, LAMBDA k : Scrambled(40 * n + 16 * e[1] + 4 * e[2] + k) % KyberQ)],
     sigma |-> [i \in 0 .. 2 * KyberK - 1 |-> Noise(5 * i + n)]]
MCKyberSeeds == {KyberSeed(1), KyberSeed(2)}
MCKyberMessages == {<<0, 1, 1, 0>>, <<1, 1, 0, 1>>}
MCKyberCoins(m, key) ==
    [i \in 0 .. 2 * KyberK |-> Noise(7 * i + m[1] + 2 * m[2] + 4 * m[3] + 8 * m[4] + key.t[1][1])]

Stream(n) == Sequence(4, LAMBDA k : Scrambled(n + k) % 64)
MCKyberInputs == {[i \in 0 .. KyberK - 1 |-> Stream(30 * n + 4 * i)] : n \in 1 .. 2}
MCKyberZeroInput == [i \in 0 .. KyberK - 1 |-> <<0, 0, 17, 63>>]
MCKyberCiphertexts ==
    {[u |-> Sequence(KyberK, LAMBDA i : Sequence(4, LAMBDA k : Scrambled(30 * n + 4 * i + k) % 32)),
      v |-> Sequence(4, LAMBDA k : Scrambled(30 * n + k) % 8)] : n \in 1 .. 2}

-----------------------------------------------------------------------------
(* Dilithium *)

Values(p) == <<(p[1] + DilithiumPsi * p[2]) % DilithiumQ, (p[1] - DilithiumPsi * p[2]) % DilithiumQ>>
DilithiumSeed(a, s) ==
    [rho |-> [e \in (0 .. 1) \X (0 .. 1) |-> Values(a[2 * e[1] + e[2] + 1])], rhoprime |-> [i \in 0 .. 3 |-> s[i + 1]]]

\* Attempts with the first key end in every way but one; those with the second never get past t0.
MCDilithiumSeeds ==
    {DilithiumSeed(<< <<30, 41>>, <<40, 58>>, <<46, 76>>, <<10, 65>> >>,
                   << <<96, 0>>, <<96, 96>>, <<0, 96>>, <<1, 96>> >>),
     DilithiumSeed(<< <<53, 8>>, <<30, 11>>, <<70, 54>>, <<7, 72>> >>,
                   << <<96, 96>>, <<1, 1>>, <<1, 96>>, <<1, 1>> >>)}

\* Coefficients 8 - 8 = 0, 8 - 2 = 6 and 8 - 13 = -5.
MCDilithiumMasks == [0 .. 1 -> {<<8, 8>>, <<2, 13>>, <<13, 2>>, <<2, 2>>}]

\* The position and the sign of the one coefficient that is not 0, from the hashed high bits.
MCDilithiumChallenge(c) ==
    LET x == c.w1[1][1] + 2 * c.w1[1][2] + 4 * c.w1[2][1] + 8 * c.w1[2][2] + c.mu.msg
    IN  CASE x % 4 = 0 -> <<1, 0>> [] x % 4 = 1 -> <<0, 1>>
          [] x % 4 = 2 -> <<DilithiumQ - 1, 0>> [] x % 4 = 3 -> <<0, DilithiumQ - 1>>

\* Secrets made of a seed.
DilithiumStream(n) == [i \in {0, 1, 4, 5} |-> <<Scrambled(n + 2 * i) % 64, Scrambled(n + 2 * i + 1) % 64>>]
MCDilithiumInputs == {DilithiumStream(1), DilithiumStream(30)}
MCDilithiumZeroInput == DilithiumStream(60)

-----------------------------------------------------------------------------
(* PASTA *)

PastaNonce(n) ==
    [c \in 0 .. 4 * PastaRounds + 3 |->
        Sequence(PastaN, LAMBDA k : Scrambled(40 * n + 4 * c + k) % (IF c % 4 < 2 THEN PastaQ - 1 ELSE PastaQ))]
MCPastaNonces == {PastaNonce(1), PastaNonce(2)}
MCPastaKeys == {Sequence(2 * PastaN, LAMBDA k : 1), Sequence(2 * PastaN, LAMBDA k : Scrambled(k) % PastaQ)}
MCPastaPlaintexts == {Zeros(PastaN), Sequence(PastaN, LAMBDA k : PastaQ - k)}
=============================================================================
