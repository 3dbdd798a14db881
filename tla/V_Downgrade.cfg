SPECIFICATION SystemSpec
CONSTANTS
  j1 = j1
  Jobs = {j1, j2}
  NoJob = NoJob
  NumBlocks = 2
  SlotBlocks = 3
  ImageVersion <- MCImageVersion
  FactoryVersion = 2
  FwuFaults = {}
  InstallAnswers = {"PSA_SUCCESS_REBOOT"}
  NumBuffers = 2
  QueueLength = 6
  CounterMod = 8
  U16 = 65536
  IdLength <- MCIdLength
  Versions = {0, 1, 2, 3}
  MaxUplink = 2
  Lossy = FALSE
  SlowCloud = FALSE
  MaxDown = 2
  MaxDrops = 1
  MaxCrashes = 0
PROPERTIES
  NeverDowngraded
CHECK_DEADLOCK FALSE
