------------------------------ MODULE Firmware ------------------------------
(***************************************************************************)
(* The cryptographic programs of fw/ on one board, each a loop of calls in *)
(* any order, and the measured programs of sca/fw/victims on another, each *)
(* a loop of commands.  A program is loaded over the serial line at any    *)
(* time, even in the middle of a call.  The loader resets the core and the *)
(* accelerators and replaces what is in the core's memories; the memories  *)
(* of the accelerators keep what the last program left there.              *)
(***************************************************************************)
EXTENDS Masking

CONSTANTS
    Programs,   \* those that are loaded
    \* Kyber
    KyberQ, KyberLogQ, KyberK, KyberDU, KyberDV, KyberPsi, KyberPsiInv, KyberQExp, KyberXofWords,
    KyberSeeds, KyberMessages, KyberCoins(_, _), KyberInputs, KyberZeroInput, KyberCiphertexts,
    \* Dilithium
    DilithiumQ, DilithiumK, DilithiumL, DilithiumD, DilithiumEta, DilithiumBeta, DilithiumGamma1,
    DilithiumGamma2, DilithiumOmega, DilithiumLogEta, DilithiumLogGamma1, DilithiumLogGamma2,
    DilithiumLogT1, DilithiumPsi, DilithiumPsiInv, DilithiumBlock128, DilithiumBlock256,
    DilithiumSeeds, DilithiumMasks, DilithiumChallenge(_), DilithiumMessages,
    DilithiumInputs, DilithiumZeroInput,
    \* PASTA
    PastaQ, PastaLogQ, PastaN, PastaRounds, PastaStreamWords, PastaNonces, PastaKeys, PastaPlaintexts,
    PrngSeeds   \* what the generator of shares may be seeded with

VARIABLES program,    \* the one in memory
          hw,         \* the accelerators
          pk, sk, sent, local, refused, drawn, sig, answer   \* its variables, as far as it has them

vars == <<program, hw, pk, sk, sent, local, refused, drawn, sig, answer>>

Kyber == INSTANCE KyberVictims WITH
    Q <- KyberQ, LOG_Q <- KyberLogQ, K <- KyberK, DU <- KyberDU, DV <- KyberDV, PSI <- KyberPsi,
    PSI_INV <- KyberPsiInv, Q_EXP <- KyberQExp, XOF_WORDS <- KyberXofWords, Seeds <- KyberSeeds,
    Messages <- KyberMessages, Coins <- KyberCoins, Inputs <- KyberInputs,
    ZeroInput <- KyberZeroInput, Ciphertexts <- KyberCiphertexts
Dilithium == INSTANCE DilithiumVictim WITH
    Q <- DilithiumQ, K <- DilithiumK, L <- DilithiumL, D <- DilithiumD, ETA <- DilithiumEta,
    BETA <- DilithiumBeta, GAMMA1 <- DilithiumGamma1, GAMMA2 <- DilithiumGamma2,
    OMEGA <- DilithiumOmega, LOG_ETA <- DilithiumLogEta, LOG_GAMMA1 <- DilithiumLogGamma1,
    LOG_GAMMA2 <- DilithiumLogGamma2, LOG_T1 <- DilithiumLogT1, PSI <- DilithiumPsi,
    PSI_INV <- DilithiumPsiInv, BLOCK128 <- DilithiumBlock128, BLOCK256 <- DilithiumBlock256,
    Seeds <- DilithiumSeeds, Masks <- DilithiumMasks, Challenge <- DilithiumChallenge,
    Messages <- DilithiumMessages, Inputs <- DilithiumInputs, ZeroInput <- DilithiumZeroInput
Pasta == INSTANCE Pasta WITH
    Q <- PastaQ, LOG_Q <- PastaLogQ, N <- PastaN, PASTA_R <- PastaRounds,
    STREAM_WORDS <- PastaStreamWords, Nonces <- PastaNonces, Keys <- PastaKeys,
    Plaintexts <- PastaPlaintexts

\* Those that are measured, on the board made for it.
Measured == Kyber!Victims \union {"sign"}

ASSUME Parameters ==
    /\ Programs \subseteq {"kyber", "dilithium", "pasta"} \union Measured
    /\ Kyber!KyberParams /\ Kyber!CarrierParams /\ Dilithium!DilithiumParams /\ Pasta!PastaParams
    /\ Kyber!VictimParams /\ Dilithium!VictimParams
    /\ PrngSeeds \subseteq 1 .. 65536

None == <<>>

\* A program's variables before its first call.
Fresh == /\ pk' = None /\ sk' = None /\ sent' = None /\ local' = None
         /\ refused' = "" /\ drawn' = None /\ sig' = None /\ answer' = None

Init ==
    /\ program \in Programs /\ hw \in Kyber!Main(program, Reset)
    /\ pk = None /\ sk = None /\ sent = None /\ local = None
    /\ refused = "" /\ drawn = None /\ sig = None /\ answer = None

AfterLoad(a) == [Reset EXCEPT !.poly = a.poly, !.tw = a.tw, !.zeta = a.zeta]

Load(p) ==
    /\ p \in Measured <=> program \in Measured
    /\ program' = p /\ hw' \in Kyber!Main(p, AfterLoad(hw)) /\ Fresh

KyberStep ==
    /\ program = "kyber" /\ Kyber!MaskedNext
    /\ UNCHANGED <<program, local, refused, drawn, sig>>
DilithiumStep ==
    /\ program = "dilithium" /\ Dilithium!MaskedNext
    /\ UNCHANGED <<program, sent>>
PastaStep ==
    /\ program = "pasta" /\ Pasta!Next
    /\ UNCHANGED <<program, pk, sk, sent, refused, drawn, sig>>

KyberVictimStep ==
    /\ Kyber!VictimNext(program)
    /\ UNCHANGED <<program, pk, sent, local, refused, drawn, sig>>
DilithiumVictimStep ==
    /\ program = "sign" /\ Dilithium!VictimNext
    /\ UNCHANGED <<program, pk, sk, sent, local, refused, drawn, sig>>

Next == \/ \E p \in Programs : Load(p)
        \/ KyberStep \/ DilithiumStep \/ PastaStep
        \/ KyberVictimStep \/ DilithiumVictimStep

Spec == Init /\ [][Next]_vars

-----------------------------------------------------------------------------
(* Properties *)

\* What crypto_kem_enc sends is the encryption of its message, and the secret the one the message
\* gives, whatever ran before: the key is A s + e, u the rounding of A^T r + e1, v that of
\* t r + e2 + m, and no register is what an operation before left there.
EncapsulationIsExact == program = "kyber" => Kyber!EncapsulationIsExact

\* Whatever ciphertext reaches the device, decapsulation, plain or on shares, whatever the shares,
\* returns the secret of its message if the message gives this ciphertext, and else one drawn
\* from z: on shares, roundings of two shares add up to the rounding of what they share, and the
\* comparison fails exactly for other ciphertexts.
DecapsulationIsExact == program = "kyber" => Kyber!DecapsulationIsExact

\* What pasta_encrypt and masked_pasta_encrypt return is the plaintext plus the key stream: the
\* rows of a matrix still find in the buffer they share what they need of each other, bound holds
\* what each step takes it for, and products of shares add up to the shared product.
CiphertextIsExact == program = "pasta" => Pasta!CiphertextIsExact

\* Whatever signature, message or hint encoding reaches the device, in whatever state the calls
\* before left the accelerator: crypto_sign_verify returns 0 for the valid ones and for no other.
VerifyIsExact == program = "dilithium" => Dilithium!VerifyIsExact

\* What crypto_sign_signature returns, plain or masked, is valid for the key it was made with,
\* through any number of rejected attempts, unless more hints were packed than fit.
SignedIsValid == program = "dilithium" => Dilithium!SignedIsValid

\* Every attempt of a signing call, plain or on shares, ends as the scheme's attempt with the same
\* mask: refused on the same ground, or with its challenge, response and hints.
AttemptIsExact == program = "dilithium" => Dilithium!AttemptIsExact

\* What a measured function computes is what its input gives, whatever was captured before, on
\* shares drawn by the generator or with the generator off: the dummies of zeros leave nothing
\* behind, and a build that goes past the comparisons still computes on the same shares.  For
\* cpapke_dec this is the message that kyber_cpapke_dec_cpa.ipynb asserts.
CaptureIsExact ==
    /\ program \in Kyber!Victims => Kyber!CaptureIsExact
    /\ program = "sign" => Dilithium!CaptureIsExact

\* fw/test/dilithium_test/main.c:178 verifies the signature made and expects 0: every signature
\* that crypto_sign_signature returns is valid for its key.
SignedVerifies == program = "dilithium" => Dilithium!SignedVerifies
=============================================================================
