SPECIFICATION Spec
CONSTANTS
    Job = {j1}
    Worker = {w1, w2}
    Client = {c1, c2}
    Reaper = reaper
    NoJob = NoJob
    NoOne = NoOne
    MaxPending = 1
    Allowed = {"crash", "double_submit", "call_fault", "remove_fault", "purge_fault"}
SYMMETRY Symmetry
INVARIANTS TypeOK MutationExclusive NoStrandedJob CleanupTruthful LiveFolderTracked
CHECK_DEADLOCK FALSE
