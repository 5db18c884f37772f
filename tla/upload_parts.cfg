SPECIFICATION FairSpec
CHECK_DEADLOCK FALSE
CONSTANTS
    Total = 7 MaxChunk = 3 PartSize = 2
    Concurrency = 2 Retries = 1 MaxFaults = 4
INVARIANTS TypeOK PublishedWhole MemoryBound NothingLeftSending
PROPERTIES ProgressMonotone UploadEnds
