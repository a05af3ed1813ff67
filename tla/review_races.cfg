CONSTANTS
    Instances = {i1, i2}
    Actors = {alice}
    Roles = {"none", "writer", "admin"}
    Branches = {dev, feature}
    DefaultBranch = dev
    DraftIds = {d1}
    Names = {n1}
    Contents = {c1, c2}
    None = None
    Skew = 0
    Faults = {"put", "rollback"}
    MaxAttempts = 3
    MaxStamp = 5
    MaxRounds = 2
    MaxDocStamp = 2
SYMMETRY Symmetry
SPECIFICATION Spec
INVARIANTS
    TypeOK
    VersionIsWhatWasReviewed
    NoStrayObjects
PROPERTIES
    PublicationIsAuthorised
    ChangesFallOnWhatWasLoaded
    ReviewClosesDrafts
