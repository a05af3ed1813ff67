CONSTANTS
    Workers = {w1, w2}
    None = None
    AttemptLimit = 2
    Faults = {"database", "stall", "stop", "crash"}
    MaxFaults = 2
    MaxJobs = 2
    MaxRevision = 2
SPECIFICATION Spec
INVARIANTS
    GenerationsInvariant
    CallsAudited
PROPERTIES
    AnswersAreCurrent
    OnlyCurrentGenerationWrites
    LostWorkersLeaveJobs
    GenerationsEnd
CHECK_DEADLOCK FALSE
