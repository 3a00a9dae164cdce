SPECIFICATION Spec
CONSTANTS
  MaxRequests = 2
  MaxRuns = 1
  MaxPauses = 1
  MaxDispatches = 1
  CaptureSlots = 1
  Happens = {"quit"}
VIEW View
INVARIANTS
  ShutdownLeavesPaused
CHECK_DEADLOCK FALSE
