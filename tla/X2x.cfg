CONSTANTS
  BurstLen = 4
  LenMod = 32
  PrngInit = 9
  ConvCycles = 2
  Calls = {"b2a", "a_share", "ref_b2a_1bit", "prng_read"}
  Moduli = {"pow2", "prime_dual"}
  Bursts = {1, 4}
  Strides = {4}
  Quiet = TRUE
SPECIFICATION FairSpec
INVARIANTS ResultIsOwn PortsTakeTurns
PROPERTIES CallsReturn
