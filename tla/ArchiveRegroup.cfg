SPECIFICATION ArchiveSpec
CONSTANTS
    NumRuns = 3
    MaxRecords = 2
    MaxArchiveFaults = 0
CHECK_DEADLOCK FALSE
PROPERTY AssociationsImmutable
