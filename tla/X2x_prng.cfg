CONSTANTS
  BurstLen = 4
  LenMod = 32
  PrngInit = 9
  ConvCycles = 2
  Calls = {"prng_read"}
  Moduli = {"prime"}
  Bursts = {2}
  Strides = {1}
  Quiet = FALSE
SPECIFICATION Spec
INVARIANT SomeDataIsLeft
