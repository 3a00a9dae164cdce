SPECIFICATION Spec
CONSTANTS
  MaxRequests = 3
  MaxRuns = 1
  MaxPauses = 1
  MaxDispatches = 1
  CaptureSlots = 1
  Happens = {"editor"}
VIEW View
PROPERTIES
  FenceKeptUntilStopSettles
CHECK_DEADLOCK FALSE
