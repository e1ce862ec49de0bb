SPECIFICATION Spec
CONSTANTS
  Programs = {"kyber", "dilithium", "pasta",
              "indcpa_dec", "poly_tomsg", "poly_frommsg", "indcca_dec", "cpapke_dec", "masked cpapke_dec", "sign"}
  KyberQ = 97
  KyberLogQ = 7
  KyberK = 3
  KyberDU = 5
  KyberDV = 3
  KyberPsi = 22
  KyberPsiInv = 86
  KyberQExp = 409
  KyberXofWords = 42
  KyberSeeds <- MCKyberSeeds
  KyberMessages <- MCKyberMessages
  KyberCoins <- MCKyberCoins
  KyberInputs <- MCKyberInputs
  KyberZeroInput <- MCKyberZeroInput
  KyberCiphertexts <- MCKyberCiphertexts
  DilithiumQ = 97
  DilithiumK = 2
  DilithiumL = 2
  DilithiumD = 5
  DilithiumEta = 1
  DilithiumBeta = 1
  DilithiumGamma1 = 8
  DilithiumGamma2 = 12
  DilithiumOmega = 2
  DilithiumLogEta = 2
  DilithiumLogGamma1 = 4
  DilithiumLogGamma2 = 2
  DilithiumLogT1 = 2
  DilithiumPsi = 22
  DilithiumPsiInv = 86
  DilithiumBlock128 = 42
  DilithiumBlock256 = 34
  DilithiumSeeds <- MCDilithiumSeeds
  DilithiumMasks <- MCDilithiumMasks
  DilithiumChallenge <- MCDilithiumChallenge
  DilithiumMessages = {0, 1}
  DilithiumInputs <- MCDilithiumInputs
  DilithiumZeroInput <- MCDilithiumZeroInput
  PastaQ = 17
  PastaLogQ = 5
  PastaN = 4
  PastaRounds = 3
  PastaStreamWords = 168
  PastaNonces <- MCPastaNonces
  PastaKeys <- MCPastaKeys
  PastaPlaintexts <- MCPastaPlaintexts
  PrngSeeds = {1, 999}
INVARIANTS EncapsulationIsExact DecapsulationIsExact CiphertextIsExact VerifyIsExact SignedIsValid AttemptIsExact CaptureIsExact
