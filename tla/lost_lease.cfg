CONSTANTS
    Workers = {w1, w2}
    None = None
    AttemptLimit = 2
    Faults = {"stall"}
    MaxFaults = 1
    MaxJobs = 1
    MaxRevision = 1
SYMMETRY Symmetry
SPECIFICATION Spec
INVARIANTS
    PendingHasJob
CHECK_DEADLOCK FALSE
