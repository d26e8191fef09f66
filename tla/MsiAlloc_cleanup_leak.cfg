\* Violation: msi_device_cleanup after msi_alloc_vectors strands the descriptors (refcount 2 -> 1).
CONSTANTS
  d1 = d1
  d2 = d2
  t1 = t1
  t2 = t2
  NoThread = NoThread
  NoDesc = NoDesc
  NoDevice = NoDevice
  Devices <- TwoDevices
  Threads <- TwoThreads
  DevOf <- DevPerThread
  Lifecycle <- TwoThreads
  LegacyThreads = {}
  InitRegistered = {}
  DescIds <- Slots
  Hwirqs <- HwirqSpace
  ReqVals <- Requests
  MSI_MAX_VECTORS = 32
  CallersQuiesceCleanup = TRUE
SPECIFICATION Spec
INVARIANT NoLeak
