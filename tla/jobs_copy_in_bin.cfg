SPECIFICATION FairSpec
CONSTANTS
    Job = {j1}
    Worker = {w1}
    Client = {c1}
    Reaper = reaper
    NoJob = NoJob
    NoOne = NoOne
    MaxPending = 1
    Allowed = {}
PROPERTIES FolderPurged
CHECK_DEADLOCK FALSE
