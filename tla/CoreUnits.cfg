CONSTANTS
  Limb = 1
  Pow <- MCPow
  Later = {0, 3, 13}
  Top = 1
  NumWords = 2
SPECIFICATION MCSpec
INVARIANTS ResultIsIsa RoundsAreExact AccessIsBytewise
