\* Violation: msi_free_vectors kfrees a descriptor its caller still holds a reference to.
CONSTANTS
  d1 = d1
  d2 = d2
  t1 = t1
  t2 = t2
  NoThread = NoThread
  NoDesc = NoDesc
  NoDevice = NoDevice
  Devices <- OneDevice
  Threads <- OneThread
  DevOf <- OnlyT1
  Lifecycle = {}
  LegacyThreads <- OneThread
  InitRegistered <- OneDevice
  DescIds <- Slots
  Hwirqs <- HwirqSpace
  ReqVals <- Requests
  MSI_MAX_VECTORS = 32
  CallersQuiesceCleanup = TRUE
SPECIFICATION Spec
INVARIANT NoDanglingHandle
