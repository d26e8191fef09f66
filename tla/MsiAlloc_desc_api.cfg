\* One device, one caller mixing msi_desc_alloc / msi_desc_list_add / msi_desc_free with msi_alloc_vectors / msi_free_vectors.
CONSTANTS
  d1 = d1
  d2 = d2
  t1 = t1
  t2 = t2
  NoThread = NoThread
  NoDesc = NoDesc
  NoDevice = NoDevice
  Devices <- OneDevice
  Threads <- OneThread
  DevOf <- OnlyT1
  Lifecycle = {}
  LegacyThreads <- OneThread
  InitRegistered <- OneDevice
  DescIds <- Slots
  Hwirqs <- HwirqSpace
  ReqVals <- Requests
  MSI_MAX_VECTORS = 32
  CallersQuiesceCleanup = TRUE
SPECIFICATION Spec
INVARIANT RegistryIntegrity
INVARIANT ListedHeldHasListRef
