SPECIFICATION FairSpec
CONSTANTS
    root = root  a = a  b = b  c = c  d = d  f = f  g = g  h = h
    Job = {j1, j2}
    NoJob = NoJob
    Root = root
    Entry <- ShareEntries
    Listing <- ShareListing
    Size <- ShareSize
    Capacity = 10
    Reserve = 3
    MaxRetries = 1
    ScanWidth = 2
INVARIANTS TypeOK ImportedWhole ReserveKept 
PROPERTIES ImportEnds
CHECK_DEADLOCK FALSE
