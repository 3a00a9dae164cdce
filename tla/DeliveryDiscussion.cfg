SPECIFICATION Spec
CONSTANTS
    Consumers = {}
    Direct = direct
    Threads = {t1}
    Keys = {k1, k2}
    Writers = {w1}
    ConsumerLimit = 2
    MaxSubjects = 2
    MaxCopies = 2
    MaxInstances = 1
    MaxBindings = 2
    MaxRuns = 2
    MaxFaults = 1
    Receipts = {"sending","thinking"}
    Events = {"create","ask","claim","reply","delivery","retry","resolve","reopen","answer-failed","crash","reclaim","legacy","task"}
SYMMETRY Symmetry
CHECK_DEADLOCK FALSE
VIEW View
CONSTRAINT OneKind
INVARIANT OneAnswer
PROPERTY AnswersKept
PROPERTY ImplementsQuestion
PROPERTY ExposureWasAsked
