\* Violation: the rollback of msi_alloc_vectors removes a caller's descriptor that shares hwirq 0 instead of its own.
CONSTANTS
  d1 = d1
  d2 = d2
  t1 = t1
  t2 = t2
  NoThread = NoThread
  NoDesc = NoDesc
  NoDevice = NoDevice
  Devices <- OneDevice
  Threads <- OneThread
  DevOf <- OnlyT1
  Lifecycle = {}
  LegacyThreads <- OneThread
  InitRegistered <- OneDevice
  DescIds <- Slots
  Hwirqs <- HwirqSpace
  ReqVals <- Requests
  MSI_MAX_VECTORS = 32
  CallersQuiesceCleanup = TRUE
SPECIFICATION Spec
PROPERTY AllocOutcome
