CONSTANTS
    Users = {u1, u2}
    Supers = {u2}
    Branches = {b1}
    Clients = {c1, c2}
    Workloads = {
        {"createShare", "revokeShare", "content", "archive"},
        {"createShare", "metadata", "versions", "download", "publish"},
        {"createShare", "unlock", "content", "time"},
        {"createShare", "revealShare", "revokeShare", "roles", "rotate", "archive", "time"},
        {"createToken", "listTokens", "revokeToken", "revealToken", "time", "supers", "accounts", "rotate"},
        {"createToken", "revokeToken", "mcp", "accounts"},
        {"createToken", "mcp", "roles"},
        {"createToken", "mcp", "time", "listTokens"},
        {"createToken", "mcp", "archive", "rotate"},
        {"createChat", "chat", "roles"},
        {"createChat", "chat", "configure"},
        {"createChat", "chat", "time"},
        {"createChat", "chat", "archive", "publish"},
        {"configure", "supers"},
        {"configure", "testProvider", "archive"},
        {"document", "updateBranch", "archiveBranch"},
        {"document", "createBranch", "archiveBranch", "archive"},
        {"document", "createDocument", "updateDocument"},
        {"document", "updateDocument", "archiveDocument", "roles"},
        {"createDocument", "createFolder"}}
    NewRoles = {0, 2}
    None = None
    MaxVersions = 2
    MaxTime = 1
    MaxEvents = 2
    Shares = {s1}
    Scopes = {"latest", "fixed", "all"}
    ShareLife = 1
    ProofLife = 1
    Tokens = {t1}
    Grants = {{"apiDraft", "docRead"}, {"apiRead", "docDraft"}}
    MaxWrites = 3
    Sessions = {"s"}
    Modes = {"stream", "responses", "whole"}
    MaxSerial = 6
    MaxRevision = 2
    MaxFragments = 1
    Documents = {d1, d2}
    DocumentNames = {n1, n2}
    Letters = {"a"}
    BranchNames = {"dev", "test", "prod", "main"}
    Requested <- Paths
    MaxDepth = 3
    MaxBranchRows = 6
    MaxMoves = 2
    MaxEdits = 3
SYMMETRY Symmetry
SPECIFICATION Spec
INVARIANTS
    TypeInvariant
    ConversationIsWhole
PROPERTIES
    AnswersAreCurrent
    LibraryIsWhole
    SharesOpenOnlyWhatIsShared
    TokensActWithinTheirRights
    WithdrawnStaysWithdrawn
CHECK_DEADLOCK FALSE
