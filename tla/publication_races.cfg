CONSTANTS
    Instances = {i1, i2}
    Actors = {alice}
    Roles = {"admin"}
    Branches = {dev}
    DefaultBranch = dev
    DraftIds = {d1, d2}
    Names = {n1, n2}
    Contents = {c1, c2}
    None = None
    Skew = 0
    Faults = {}
    MaxAttempts = 4
    MaxStamp = 3
    MaxRounds = 1
    MaxDocStamp = 1
SYMMETRY Symmetry
SPECIFICATION Spec
INVARIANTS
    HistoryIsALine
PROPERTIES
    ImplementsHistory
