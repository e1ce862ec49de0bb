CONSTANTS
  Depth = 4
  DataLen = 2
  RespLen = 4
  Gap = 2
  CheckDone = TRUE
  Unknown = FALSE
SPECIFICATION FairSpec
INVARIANTS IsDoneMeansDone TriggerFramesTheWork
PROPERTIES ResponseIsMine NothingIsDropped EveryCommandIsAnswered
