CONSTANTS
  Quiet = TRUE
  NumRegs = 3
  DivCycles = 4
  ExcVec <- MCExcVec
  IrqVec <- MCIrqVec
  Boot <- MCBoot
  Suites <- MCSuites
  Banks <- MCBanks
  Dmems <- MCDmems
SPECIFICATION FairSpec
INVARIANTS ResultIsOwn StagesAgree Benign
PROPERTIES Refines TrapIsRecorded RequestIsServed
