CONSTANTS
  NumIds <- NumIds63
  MsiIds <- Ids
  Cpus <- OneCpu
  ThresholdVals <- Thresholds
  ShiftMode = "arithmetic"
  c1 = c1
  c2 = c2
SPECIFICATION Spec
INVARIANT TypeOK
INVARIANT HandlerTakesLowestPending
INVARIANT EnableMatchesRequest
INVARIANT DispatchOncePerMsi
