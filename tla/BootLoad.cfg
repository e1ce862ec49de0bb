SPECIFICATION RetrySpec
CONSTANTS
  Images <- MCImages
  Byte <- MCByte
  Scratch = 9
  Typed = {1}
  MemLen = 3
  Patient = TRUE
  MaxFaults = 1
INVARIANTS GateFollowsCore
PROPERTIES EntersCompleteImages UploadInstalls OnlyLoadsWriteProgram RetriesInstall
