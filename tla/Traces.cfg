SPECIFICATION Spec
CONSTANTS
    MaxCaptures = 3
    QueueLimit = 2
    BatchLimit = 2
    ServiceLimit = 1
    MaxExportFaults = 1
    NoteNames = {"n", "m"}
    Bodies = {"a", "b"}
    TracedRuns = {1}
    NoteStores = {"local", "remote"}
    StoreQueueLimit = 1
    MaxReceipts = 2
    MaxNotes = 2
    MaxSubmissions = 2
    MaxNoteFaults = 1
    RecorderLimit = 1
    ObservedLimit = 1
    MaxItems = 2
    MaxStops = 1
    MaxRecorderFaults = 1
    Authors = {1, 2}
    Natives = {"n1", "n2"}
    Contents = {"c", "d"}
    LinkedThreads = {"l"}
    ThreadLimit = 1
    CommitAttempts = 2
    MaxPosts = 2
    MaxImportFaults = 1
    Reads = {1}
    PeerReads = 1
    MaxStopsRead = 3
    MaxEpochs = 3
    MaxHandles = 2
    MaxPeers = 2
    MaxRestarts = 1
    Runtimes = {1, 2}
    StoreWorkers = 2
    MaxRuntimeFaults = 1
    MaxOrders = 2
    MaxRenewals = 2
CHECK_DEADLOCK FALSE
INVARIANT SentIsStored
INVARIANT QueuedIsHeld
INVARIANT NothingStranded
INVARIANT FinishedIsWhole
INVARIANT NothingOverwritten
INVARIANT RepliesOfOnePause
INVARIANT ReferencesKeepTheirMeaning
INVARIANT PushesIntoLiveModules
INVARIANT EditorToldOfPause
