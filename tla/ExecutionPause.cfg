SPECIFICATION Spec
CONSTANTS
  MaxRequests = 4
  MaxRuns = 1
  MaxPauses = 1
  MaxDispatches = 2
  CaptureSlots = 1
  Happens = {"editor"}
VIEW View
PROPERTIES
  PauseKeepsTargetStopped
CHECK_DEADLOCK FALSE
