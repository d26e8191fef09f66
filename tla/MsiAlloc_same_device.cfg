\* One device, two threads that init, clean up, allocate and free vectors on it concurrently.
CONSTANTS
  d1 = d1
  d2 = d2
  t1 = t1
  t2 = t2
  NoThread = NoThread
  NoDesc = NoDesc
  NoDevice = NoDevice
  Devices <- OneDevice
  Threads <- TwoThreads
  DevOf <- SameDevice
  Lifecycle <- TwoThreads
  LegacyThreads = {}
  InitRegistered <- OneDevice
  DescIds <- Slots
  Hwirqs <- HwirqSpace
  ReqVals <- Requests
  MSI_MAX_VECTORS = 32
  CallersQuiesceCleanup = TRUE
SPECIFICATION FairSpec
PROPERTY AllocOutcome
PROPERTY LockHolderReturns
PROPERTY RefinesRegistry
