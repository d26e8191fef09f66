\* Violation: msi_device_cleanup kfrees the registry while the other thread has read dev->msi_data and is about to lock it.
CONSTANTS
  d1 = d1
  d2 = d2
  t1 = t1
  t2 = t2
  NoThread = NoThread
  NoDesc = NoDesc
  NoDevice = NoDevice
  Devices <- OneDevice
  Threads <- TwoThreads
  DevOf <- SameDevice
  Lifecycle <- TwoThreads
  LegacyThreads = {}
  InitRegistered <- OneDevice
  DescIds <- Slots
  Hwirqs <- HwirqSpace
  ReqVals <- Requests
  MSI_MAX_VECTORS = 32
  CallersQuiesceCleanup = FALSE
SPECIFICATION Spec
PROPERTY RegistryFreedUnused
