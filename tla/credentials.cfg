CONSTANTS
    Users = {u1, u2}
    Teams = {t1}
    Projects = {p1}
    Roles = {"admin"}
    Clients = {c1, c2}
    Kinds = {"register", "seed", "login", "changePassword",
             "createUser", "patchUser", "reset"}
    Hashes = {h1, h2, h3, h4}
    None = None
    MaxStamp = 4
SYMMETRY Symmetry
SPECIFICATION Spec
PROPERTIES
    PasswordsAreNotUndone
    LoginsAreCurrent
