\* Violation: msi_desc_free after msi_device_cleanup unlinks through the kfree'd registry.
CONSTANTS
  d1 = d1
  d2 = d2
  t1 = t1
  t2 = t2
  NoThread = NoThread
  NoDesc = NoDesc
  NoDevice = NoDevice
  Devices <- OneDevice
  Threads <- OneThread
  DevOf <- OnlyT1
  Lifecycle <- OneThread
  LegacyThreads <- OneThread
  InitRegistered <- OneDevice
  DescIds <- Slots
  Hwirqs <- HwirqSpace
  ReqVals <- Requests
  MSI_MAX_VECTORS = 32
  CallersQuiesceCleanup = TRUE
SPECIFICATION Spec
INVARIANT HeldLinksValid
