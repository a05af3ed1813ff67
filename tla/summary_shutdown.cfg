CONSTANTS
    Workers = {w1, w2}
    None = None
    AttemptLimit = 2
    Faults = {"stop"}
    MaxFaults = 1
    MaxJobs = 1
    MaxRevision = 1
SYMMETRY Symmetry
SPECIFICATION Spec
PROPERTIES
    ShutdownKeepsGeneration
CHECK_DEADLOCK FALSE
