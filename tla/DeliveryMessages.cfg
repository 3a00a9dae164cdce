SPECIFICATION PartSpec
CONSTANTS
    Consumers = {c1, c2}
    Direct = direct
    Threads = {t1}
    Keys = {k1}
    Writers = {}
    ConsumerLimit = 2
    MaxSubjects = 2
    MaxCopies = 2
    MaxInstances = 2
    MaxBindings = 2
    MaxRuns = 2
    MaxFaults = 1
    Receipts = {"sending", "unknown", "thinking"}
    Events = {"reclaim", "crash", "legacy", "task", "fault", "close", "create", "retry", "resolve"}
SYMMETRY Symmetry
CHECK_DEADLOCK FALSE
VIEW PartView
INVARIANT TypeOK
INVARIANT ClaimIsDurable
INVARIANT SendingHasHost
INVARIANT StatusBelongsToAttempt
PROPERTY ExposureWasAsked
PROPERTY AcknowledgementKept
