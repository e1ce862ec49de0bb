------------------------------ MODULE MCMemBus ------------------------------
\* Words and data addresses are only ever compared for equality, so their permutations are
\* symmetries; the masters are numbers with an order.
EXTENDS MemBus, TLC

CONSTANTS rom, ram, d1, d2, per, w1, w2

MCInstAddr == {rom, ram}
MCRomAddr  == {rom}
MCDataAddr == {d1, d2}
MCPerAddr  == {per}
MCBusWord     == {w1, w2}
MCSymmetry == Permutations(MCDataAddr) \cup Permutations(MCBusWord)
=============================================================================
