SPECIFICATION Spec
CONSTANTS
  MaxRequests = 3
  MaxRuns = 2
  MaxPauses = 1
  MaxDispatches = 2
  CaptureSlots = 1
  Happens = {"restart","agent","stop","bind","link","editor","deadline","quit","touch","unsaved"}
VIEW View
CHECK_DEADLOCK FALSE
INVARIANTS TypeOK FenceHasOwner
PROPERTIES AgentMovesOnlyUnderGrant ResumeFromItsOwnStop FenceFallsAtRest
