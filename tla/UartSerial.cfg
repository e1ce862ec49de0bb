SPECIFICATION FairSpec
CONSTANTS DataBits = 3  Clks = 8  MaxSlip = 1
INVARIANTS OneFrameAtATime
PROPERTIES DeliversInOrder Arrives
