SPECIFICATION Spec
CONSTANTS
  MaxRequests = 4
  MaxRuns = 1
  MaxPauses = 1
  MaxDispatches = 2
  CaptureSlots = 2
  Happens = {"editor","late","agent"}
VIEW View
CHECK_DEADLOCK FALSE
INVARIANTS OneInterrupter OneMovementAtATime
PROPERTIES StaleReplyHarmless ResumeYieldsToHuman
