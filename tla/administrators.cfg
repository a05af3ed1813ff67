CONSTANTS
    Users = {u1, u2}
    Teams = {t1}
    Projects = {p1}
    Roles = {"reader", "admin"}
    Clients = {c1, c2}
    Kinds = {"register", "createUser", "patchUser",
             "createTeam", "updateTeam", "archiveTeam", "createProject",
             "updateProject", "archiveProject", "addMember", "patchMember",
             "removeMember"}
    Hashes = {h1, h2}
    None = None
    MaxStamp = 2
SYMMETRY Symmetry
SPECIFICATION Spec
INVARIANTS
    CollaborationInvariant
    SuperAdminRemains
    ProjectsHaveAdmin
    ProjectsInLiveTeams
PROPERTIES
    SuperAdminsAreAppointed
    ProjectChangesAuthorised
    ArchivedIsFinal
CHECK_DEADLOCK FALSE
