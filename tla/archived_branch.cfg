CONSTANTS
    Instances = {i1, i2}
    Actors = {alice}
    Roles = {"admin"}
    Branches = {dev, feature}
    DefaultBranch = dev
    DraftIds = {d1}
    Names = {n1}
    Contents = {c1}
    None = None
    Skew = 0
    Faults = {}
    MaxAttempts = 2
    MaxStamp = 3
    MaxRounds = 1
    MaxDocStamp = 1
SYMMETRY Symmetry
SPECIFICATION Spec
PROPERTIES
    ArchivedBranchKeepsDrafts
