SPECIFICATION Spec
CONSTANTS
    NumRuns = 2
    MaxRecords = 4
    MaxArchiveFaults = 1
    Tails = {t1}
    CommandIds = {i1}
    Tracepoints = {d1, d2}
    CaptureLimit = 1
    Ring = 2
    MaxPending = 2
    MaxCursor = 4
    MaxSequence = 3
    MaxRuns = 2
    MaxBindings = 2
    MaxLedgerFaults = 2
    Places <- AllPlaces
    MaxDefinitions = 2
    MaxTargetRuns = 2
    MaxDefinitionFaults = 1
    ProofTTL = 1
    ChallengeTTL = 1
    TaskLease = 1
    RenewAfter = 0
    MaxTurns = 1
    MaxInstances = 2
    MaxFacts = 2
    MaxChallenges = 2
    MaxPipe = 1
    MaxLeaseFaults = 1
CHECK_DEADLOCK FALSE
INVARIANT AcknowledgedSurvive
INVARIANT DeletionSparesTheLiving
PROPERTY InvestigationsStable
INVARIANT StreamsExact
INVARIANT CommandOncePerRun
INVARIANT CaptureLimitHolds
INVARIANT OrdinaryStopsKept
INVARIANT NoGhostPoints
INVARIANT EndedTurnsStayEnded
PROPERTY ScopeNeverRevived
