SPECIFICATION Spec
CONSTANTS
    Job = {j1}
    Worker = {w1}
    Client = {c1}
    Reaper = reaper
    NoJob = NoJob
    NoOne = NoOne
    MaxPending = 1
    Allowed = {}
INVARIANTS CancelIsFinal
CHECK_DEADLOCK FALSE
