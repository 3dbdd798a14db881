SPECIFICATION FairSpec
CONSTANTS
  j1 = j1
  Jobs = {j1, j2}
  NoJob = NoJob
  NumBlocks = 6
  SlotBlocks = 6
  ImageVersion <- MCImageVersion
  FactoryVersion = 2
  FwuFaults = {}
  InstallAnswers = {"PSA_SUCCESS_REBOOT"}
  NumBuffers = 2
  QueueLength = 6
  CounterMod = 16
  U16 = 65536
  IdLength <- MCIdLength
  Versions = {0, 1, 2, 3}
  MaxUplink = 2
  Lossy = FALSE
  SlowCloud = FALSE
  MaxDown = 2
  MaxDrops = 0
  MaxCrashes = 0
PROPERTIES
  JobFinishes
CHECK_DEADLOCK FALSE
