CONSTANTS
  rom = rom
  ram = ram
  d1 = d1
  d2 = d2
  per = per
  w1 = w1
  w2 = w2
  InstAddr <- MCInstAddr
  RomAddr <- MCRomAddr
  DataAddr <- MCDataAddr
  PerAddr <- MCPerAddr
  BusWord <- MCBusWord
  NumMasters = 2
SYMMETRY MCSymmetry
SPECIFICATION BusSpec
INVARIANTS LoadReturnsItsWord AckMeansServed OneIsServed
PROPERTY CodeIsGuarded
