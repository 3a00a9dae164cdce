SPECIFICATION Spec
CONSTANTS
    Consumers = {c1}
    Direct = direct
    Threads = {t1}
    Keys = {k1}
    Writers = {}
    ConsumerLimit = 2
    MaxSubjects = 2
    MaxCopies = 2
    MaxInstances = 2
    MaxBindings = 2
    MaxRuns = 1
    MaxFaults = 0
    Receipts = {"queued","unknown"}
    Events = {"create","retry","resolve"}
SYMMETRY Symmetry
CHECK_DEADLOCK FALSE
INVARIANT InterruptedSendCanBeRetried
