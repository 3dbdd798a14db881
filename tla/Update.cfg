SPECIFICATION SystemSpec
CONSTANTS
  j1 = j1
  Jobs = {j1, j2}
  NoJob = NoJob
  NumBlocks = 3
  SlotBlocks = 4
  ImageVersion <- MCImageVersion
  FactoryVersion = 2
  FwuFaults = {"start", "write", "finish", "install", "clean", "reset"}
  InstallAnswers = {"PSA_SUCCESS", "PSA_SUCCESS_REBOOT"}
  NumBuffers = 2
  QueueLength = 6
  CounterMod = 8
  U16 = 4
  IdLength <- MCIdLength
  Versions = {0, 1, 2, 3}
  MaxUplink = 2
  Lossy = FALSE
  SlowCloud = FALSE
  MaxDown = 2
  MaxDrops = 0
  MaxCrashes = 2
INVARIANTS
  SystemTypeOK
  DownloadInOrder
  RemainingIsBlocksLeft
  OneBlockInFlight
  ReportedAfterReset
PROPERTIES
  ImplementsUpdateJobs
CHECK_DEADLOCK FALSE
