SPECIFICATION Spec
CONSTANTS
    Job = {j1}
    Worker = {w1, w2}
    Client = {c1, c2}
    Reaper = reaper
    NoJob = NoJob
    NoOne = NoOne
    MaxPending = 1
    Allowed = {"crash", "stop", "late_expiry", "metadata_fault"}
SYMMETRY Symmetry
INVARIANTS Registered SourcePresent
CHECK_DEADLOCK FALSE
