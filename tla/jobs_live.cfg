SPECIFICATION RetriedSpec
CONSTANTS
    Job = {j1}
    Worker = {w1, w2}
    Client = {c1}
    Reaper = reaper
    NoJob = NoJob
    NoOne = NoOne
    MaxPending = 1
    Allowed = {"crash", "call_fault", "remove_fault", "purge_fault"}
PROPERTIES Settles FolderLeaves
CHECK_DEADLOCK FALSE
