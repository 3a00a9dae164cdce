SPECIFICATION FairSpec
CONSTANTS
  MaxRequests = 3
  MaxRuns = 1
  MaxPauses = 1
  MaxDispatches = 1
  CaptureSlots = 1
  Happens = {"editor"}
PROPERTIES
  InterruptionSettles
CHECK_DEADLOCK FALSE
INVARIANT IInv
