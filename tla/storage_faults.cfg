CONSTANTS
    Instances = {i1, i2}
    Actors = {alice}
    Roles = {"admin"}
    Branches = {dev, feature}
    DefaultBranch = dev
    DraftIds = {d1, d2}
    Names = {n1}
    Contents = {c1}
    None = None
    Skew = 0
    Faults = {"put", "delete", "rollback", "unknown", "crash"}
    MaxAttempts = 3
    MaxStamp = 3
    MaxRounds = 1
    MaxDocStamp = 1
SYMMETRY Symmetry
SPECIFICATION Spec
INVARIANTS
    StoredContentPresent
    ContentInvariant
