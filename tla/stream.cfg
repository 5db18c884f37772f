SPECIFICATION FairSpec
CHECK_DEADLOCK FALSE
CONSTANTS
    Size = 14 RangeSize = 3 ChunkSize = 2
    Concurrency = 3 Retries = 2 Routes = 2 Broken = {0}
    MaxGlitches = 2
INVARIANTS TypeOK Window NothingLeftRunning Failover
PROPERTIES InOrder Ends
