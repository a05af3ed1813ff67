--------------------------- MODULE Collaboration ----------------------------
(***************************************************************************)
(* Accounts, teams, projects and memberships, and the requests that change *)
(* them.                                                                   *)
(*                                                                         *)
(* A handler checks rights and state on the rows it has just loaded, and   *)
(* prepares its writes; some hash or verify a password in between, with    *)
(* the store unlocked, load again and check again.  The transaction that   *)
(* follows takes the two invariant locks, decides whether a registration   *)
(* is the first, checks rights once more (the mutation guard), writes      *)
(* every row whose updated_at is what was loaded, and validates what the   *)
(* writes may have broken.  Anything may commit between the handler and    *)
(* its transaction: requests run in several Vdoc processes.                *)
(*                                                                         *)
(* A user is known by the email address, which a unique index protects.    *)
(***************************************************************************)
EXTENDS Naturals

CONSTANTS
    Users,      \* email addresses
    Teams,
    Projects,
    Roles,      \* of a member; "admin" is one of them
    Clients,    \* requests that run at the same time
    Kinds,      \* requests and commands that are made
    Hashes,     \* password hashes in use at the same time
    None,       \* no row, no write, not named
    MaxStamp    \* bound: writes of one row

RequestKinds ==
    {"register", "seed", "login", "changePassword", "createUser", "patchUser",
     "createTeam", "updateTeam", "archiveTeam", "createProject",
     "updateProject", "archiveProject", "addMember", "patchMember",
     "removeMember", "reset"}

Members == Projects \X Users

ASSUME RolesAssumption == "admin" \in Roles
ASSUME KindsAssumption == Kinds \subseteq RequestKinds
VARIABLES
    user,       \* users, by email
    team,       \* teams; an archived one is soft-deleted
    project,    \* projects
    member,     \* project_members, by project and user
    step,       \* where each client's request is
    request     \* its rights to be checked again and its writes

rows == <<user, team, project, member>>
vars == <<user, team, project, member, step, request>>

-----------------------------------------------------------------------------
(* Rows, writes and requests                                               *)

UserRow == [active : BOOLEAN, super : BOOLEAN, hash : Hashes, stamp : Nat]
TeamRow == [live : BOOLEAN, stamp : Nat]
ProjectRow == [team : Teams, active : BOOLEAN, stamp : Nat]
MemberRow == [role : Roles, active : BOOLEAN, stamp : Nat]

\* A write of one row: what was loaded and what is to be stored.
RowWrite(Key, Row) == [key : Key, from : Row \cup {None}, to : Row]
Write(Key, Row) == RowWrite(Key, Row) \cup {None}

ASSUME NoneAssumption ==
    /\ None \notin Users \cup Teams \cup Projects \cup Hashes
    /\ None \notin UserRow \cup TeamRow \cup ProjectRow \cup MemberRow
    /\ None \notin RowWrite(Users, UserRow) \cup RowWrite(Teams, TeamRow)
    /\ None \notin RowWrite(Projects, ProjectRow) \cup RowWrite(Members, MemberRow)

\* What the transaction checks again: the rights of the actor, the password the
\* actor proved, users who must be active, the parents that must exist.
Guard == [actor : Users \cup {None},
          need : {"none", "authenticated", "admin", "super"},
          proven : Hashes \cup {None}, mustBeActive : SUBSET Users,
          inTeam : Teams \cup {None}, inProject : Projects \cup {None}]

Writes == [user : Write(Users, UserRow), team : Write(Teams, TeamRow),
           project : Write(Projects, ProjectRow),
           member : Write(Members, MemberRow)]

Request == [kind : RequestKinds \cup {"none"}, guard : Guard, put : Writes]

Unguarded == [actor |-> None, need |-> "none", proven |-> None,
              mustBeActive |-> {}, inTeam |-> None, inProject |-> None]
Put(u, t, p, m) == [user |-> u, team |-> t, project |-> p, member |-> m]
Ask(k, g, w) == [kind |-> k, guard |-> g, put |-> w]
Blank == Ask("none", Unguarded, Put(None, None, None, None))

TypeOK ==
    /\ user \in [Users -> UserRow \cup {None}]
    /\ team \in [Teams -> TeamRow \cup {None}]
    /\ project \in [Projects -> ProjectRow \cup {None}]
    /\ member \in [Members -> MemberRow \cup {None}]
    /\ step \in [Clients -> {"idle", "hashing", "ready", "refused"}]
    /\ request \in [Clients -> Request]

Init ==
    /\ user = [u \in Users |-> None]
    /\ team = [t \in Teams |-> None]
    /\ project = [p \in Projects |-> None]
    /\ member = [m \in Members |-> None]
    /\ step = [c \in Clients |-> "idle"]
    /\ request = [c \in Clients |-> Blank]

Account(active, super, h, stamp) ==
    [active |-> active, super |-> super, hash |-> h, stamp |-> stamp]
TeamAt(live, stamp) == [live |-> live, stamp |-> stamp]
ProjectOf(t, active, stamp) == [team |-> t, active |-> active, stamp |-> stamp]
Membership(role, active, stamp) ==
    [role |-> role, active |-> active, stamp |-> stamp]

Replace(k, old, row) == [key |-> k, from |-> old, to |-> row]
Insert(k, row) == Replace(k, None, row)

After(table, w) ==
    IF w = None THEN table ELSE [table EXCEPT ![w.key] = w.to]

-----------------------------------------------------------------------------
(* Rights                                                                  *)

NoUsers == \A u \in Users : user[u] = None
IsActive(u) == user[u] # None /\ user[u].active
IsSuper(u) == IsActive(u) /\ user[u].super
LiveTeam(t) == team[t] # None /\ team[t].live
ActiveProject(p) == project[p] # None /\ project[p].active
IsMember(u, p) == member[<<p, u>>] # None /\ member[<<p, u>>].active
HasAdminRole(u, p) == IsMember(u, p) /\ member[<<p, u>>].role = "admin"
Manages(u, p) == IsActive(u) /\ (user[u].super \/ HasAdminRole(u, p))
Administers(u, p) == HasAdminRole(u, p) /\ IsActive(u)
HasOtherAdmin(p, u) == \E v \in Users \ {u} : Administers(v, p)

-----------------------------------------------------------------------------
(* Handlers, up to their transaction                                       *)

\* A client that waits for nothing makes another request.
Free(c, k) == k \in Kinds /\ step[c] \in {"idle", "refused"}

Enter(c, s, r) ==
    /\ step' = [step EXCEPT ![c] = s]
    /\ request' = [request EXCEPT ![c] = r]
    /\ UNCHANGED rows

Refuse(c) ==
    /\ step' = [step EXCEPT ![c] = "refused"]
    /\ request' = [request EXCEPT ![c] = Blank]
    /\ UNCHANGED rows

\* Salted hashes do not repeat: a new one differs from every hash that a row
\* or a running request holds.
HashesOf(r) ==
    {r.guard.proven} \cup
    (IF r.put.user = None THEN {}
     ELSE {r.put.user.to.hash} \cup
          (IF r.put.user.from = None THEN {} ELSE {r.put.user.from.hash}))
Fresh(h) ==
    /\ \A u \in Users : user[u] # None => user[u].hash # h
    /\ \A c \in Clients : h \notin HashesOf(request[c])

NewUser(u, super, h) == Put(Insert(u, Account(TRUE, super, h, 1)), None, None, None)

\* The guards of registered users, of super administrators, of those who
\* manage a project.
ByHolder(u) ==
    [actor |-> u, need |-> "authenticated", proven |-> user[u].hash,
     mustBeActive |-> {}, inTeam |-> None, inProject |-> None]
BySuper(a, t, others) ==
    [actor |-> a, need |-> "super", proven |-> None,
     mustBeActive |-> others, inTeam |-> t, inProject |-> None]
ByManager(a, p, others) ==
    [actor |-> a, need |-> "admin", proven |-> None,
     mustBeActive |-> others, inTeam |-> None, inProject |-> p]

\* Passwords are hashed, and verified, with the store unlocked.
Register(c, u, h) ==
    /\ Free(c, "register")
    /\ user[u] = None
    /\ Fresh(h)
    /\ Enter(c, "hashing", Ask("register", Unguarded, NewUser(u, NoUsers, h)))

SeedInitialAdmin(c, u, h) ==
    /\ Free(c, "seed")
    /\ NoUsers
    /\ Fresh(h)
    /\ Enter(c, "hashing", Ask("seed", Unguarded, NewUser(u, TRUE, h)))

CreateUser(c, a, u, super, h) ==
    /\ Free(c, "createUser")
    /\ IsSuper(a)
    /\ user[u] = None
    /\ Fresh(h)
    /\ Enter(c, "hashing",
             Ask("createUser", BySuper(a, None, {}), NewUser(u, super, h)))

\* The password given is the current one; any other ends without a session.
Login(c, u) ==
    /\ Free(c, "login")
    /\ user[u] # None
    /\ Enter(c, "hashing", Ask("login", ByHolder(u), Put(None, None, None, None)))

NewPassword(u, h) ==
    Put(Replace(u, user[u], Account(user[u].active, user[u].super, h, user[u].stamp + 1)),
        None, None, None)

\* Verifying the old password and hashing the new one are two intervals with
\* the same check after each; a hash that changed in the first differs after
\* the second too.
ChangePassword(c, u, h) ==
    /\ Free(c, "changePassword")
    /\ IsActive(u)
    /\ user[u].stamp < MaxStamp
    /\ Fresh(h)
    /\ Enter(c, "hashing", Ask("changePassword", ByHolder(u), NewPassword(u, h)))

\* The store is locked and loaded again.  A registration looks for its email
\* and a seed for any user; the guard of the others repeats the check of
\* rights; a password must still be the one that was verified.
StillAllowed(r) ==
    /\ r.kind \in {"register", "seed", "createUser"} => user[r.put.user.key] = None
    /\ r.kind = "seed" => NoUsers
    /\ r.kind = "createUser" => IsSuper(r.guard.actor)
    /\ r.kind \in {"login", "changePassword"} =>
          IsActive(r.guard.actor) /\ user[r.guard.actor].hash = r.guard.proven

\* The row a password is written to is the one loaded now.
Reloaded(r) ==
    IF r.kind = "changePassword"
      THEN Ask(r.kind, r.guard, NewPassword(r.guard.actor, r.put.user.to.hash))
      ELSE r

Hashed(c) ==
    /\ step[c] = "hashing"
    /\ IF StillAllowed(request[c])
         THEN Enter(c, "ready", Reloaded(request[c]))
         ELSE Refuse(c)

PatchUser(c, a, u, active, super) ==
    /\ Free(c, "patchUser")
    /\ IsSuper(a)
    /\ user[u] # None
    /\ user[u].stamp < MaxStamp
    /\ IsSuper(u) /\ ~(active /\ super) => \E v \in Users \ {u} : IsSuper(v)
    /\ IsActive(u) /\ ~active =>
          \A p \in Projects : ActiveProject(p) /\ Administers(u, p) => HasOtherAdmin(p, u)
    /\ Enter(c, "ready",
             Ask("patchUser", BySuper(a, None, {}),
                 Put(Replace(u, user[u], Account(active, super, user[u].hash, user[u].stamp + 1)),
                     None, None, None)))

\* Ids are fresh: nobody else is creating the same row.
CreateTeam(c, a, t) ==
    /\ Free(c, "createTeam")
    /\ IsSuper(a)
    /\ team[t] = None
    /\ \A d \in Clients : request[d].put.team # None => request[d].put.team.key # t
    /\ Enter(c, "ready", Ask("createTeam", BySuper(a, None, {}),
                             Put(None, Insert(t, TeamAt(TRUE, 1)), None, None)))

UpdateTeam(c, a, t) ==
    /\ Free(c, "updateTeam")
    /\ IsSuper(a)
    /\ LiveTeam(t)
    /\ team[t].stamp < MaxStamp
    /\ Enter(c, "ready",
             Ask("updateTeam", BySuper(a, None, {}),
                 Put(None, Replace(t, team[t], TeamAt(TRUE, team[t].stamp + 1)), None, None)))

ArchiveTeam(c, a, t) ==
    /\ Free(c, "archiveTeam")
    /\ IsSuper(a)
    /\ LiveTeam(t)
    /\ \A p \in Projects : ActiveProject(p) => project[p].team # t
    /\ Enter(c, "ready", Ask("archiveTeam", BySuper(a, t, {}), Put(None, None, None, None)))

CreateProject(c, a, t, p, u) ==
    /\ Free(c, "createProject")
    /\ IsSuper(a)
    /\ LiveTeam(t)
    /\ IsActive(u)
    /\ project[p] = None
    /\ \A d \in Clients : request[d].put.project # None => request[d].put.project.key # p
    /\ Enter(c, "ready",
             Ask("createProject", BySuper(a, t, {u}),
                 Put(None, None, Insert(p, ProjectOf(t, TRUE, 1)),
                     Insert(<<p, u>>, Membership("admin", TRUE, 1)))))

Managed(c, k, a, p) == Free(c, k) /\ ActiveProject(p) /\ Manages(a, p)

PatchProject(c, k, a, p, active) ==
    /\ Managed(c, k, a, p)
    /\ project[p].stamp < MaxStamp
    /\ Enter(c, "ready",
             Ask(k, ByManager(a, p, {}),
                 Put(None, None, Replace(p, project[p], ProjectOf(project[p].team, active,
                                                             project[p].stamp + 1)), None)))

UpdateProject(c, a, p) == PatchProject(c, "updateProject", a, p, TRUE)
ArchiveProject(c, a, p) == PatchProject(c, "archiveProject", a, p, FALSE)

\* Only an administrator has to be an active user.
NewAdmins(u, role) == IF role = "admin" THEN {u} ELSE {}

PutMember(m, row) == Put(None, None, None, Replace(m, member[m], row))
NextStamp(m) == IF member[m] = None THEN 1 ELSE member[m].stamp + 1

AddProjectMember(c, a, p, u, role) ==
    LET m == <<p, u>> IN
    /\ Managed(c, "addMember", a, p)
    /\ user[u] # None
    /\ \A v \in NewAdmins(u, role) : IsActive(v)
    /\ ~IsMember(u, p)
    /\ NextStamp(m) <= MaxStamp
    /\ Enter(c, "ready",
             Ask("addMember", ByManager(a, p, NewAdmins(u, role)),
                 PutMember(m, Membership(role, TRUE, NextStamp(m)))))

PatchProjectMemberRole(c, a, p, u, role) ==
    LET m == <<p, u>> IN
    /\ Managed(c, "patchMember", a, p)
    /\ IsMember(u, p)
    /\ \A v \in NewAdmins(u, role) : IsActive(v)
    /\ HasAdminRole(u, p) /\ role # "admin" => HasOtherAdmin(p, u)
    /\ NextStamp(m) <= MaxStamp
    /\ Enter(c, "ready",
             Ask("patchMember", ByManager(a, p, NewAdmins(u, role)),
                 PutMember(m, Membership(role, TRUE, NextStamp(m)))))

RemoveProjectMember(c, a, p, u) ==
    LET m == <<p, u>> IN
    /\ Managed(c, "removeMember", a, p)
    /\ IsMember(u, p)
    /\ HasAdminRole(u, p) => HasOtherAdmin(p, u)
    /\ NextStamp(m) <= MaxStamp
    /\ Enter(c, "ready",
             Ask("removeMember", ByManager(a, p, {}),
                 PutMember(m, Membership(member[m].role, FALSE, NextStamp(m)))))

-----------------------------------------------------------------------------
(* The transaction                                                         *)

\* The first registration makes a super administrator; the database decides.
UserPutAsLoaded(r) == r.put.user
UserPut(r) ==
    IF r.kind \in {"register", "seed"}
      THEN Insert(r.put.user.key, Account(TRUE, NoUsers, r.put.user.to.hash, 1))
      ELSE r.put.user

SeedHolds(r) == r.kind = "seed" => NoUsers

PermittedWhenActive(r) ==
    r.guard.need # "none" => IsActive(r.guard.actor)
Permitted(r) ==
    CASE r.guard.need = "none"          -> TRUE
      [] r.guard.need = "authenticated" -> IsActive(r.guard.actor)
      [] r.guard.need = "admin"         -> Manages(r.guard.actor, r.guard.inProject)
      [] r.guard.need = "super"         -> IsSuper(r.guard.actor)

PasswordUnverified(r) == TRUE
PasswordHolds(r) == r.guard.proven # None => user[r.guard.actor].hash = r.guard.proven

TeamUnguarded(r) == TRUE
TeamHolds(r) == r.guard.inTeam # None => LiveTeam(r.guard.inTeam)

\* The mutation guard, against rows locked until the end of the transaction.
GuardHolds(r) ==
    /\ Permitted(r)
    /\ PasswordHolds(r)
    /\ \A u \in r.guard.mustBeActive : IsActive(u)
    /\ TeamHolds(r)
    /\ r.guard.inProject # None => ActiveProject(r.guard.inProject)

\* A row is written only if its updated_at is what was loaded, and inserted
\* only if it does not exist.  An archived team is not found.
Exists(table, w) == w # None => (w.from = None <=> table[w.key] = None)
Unchanged(table, w) ==
    w # None =>
      IF w.from = None THEN table[w.key] = None
                       ELSE /\ table[w.key] # None
                            /\ table[w.key].stamp = w.from.stamp
TeamUnchangedOrArchived(r) == Unchanged(team, r.put.team)
TeamUnchanged(r) ==
    /\ Unchanged(team, r.put.team)
    /\ r.put.team # None /\ r.put.team.from # None => team[r.put.team.key].live

\* What the writes of a request may break, by comparison of what was loaded
\* with what is stored.
IsSuperRow(row) == row # None /\ row.active /\ row.super
IsAdminRow(row) == row # None /\ row.active /\ row.role = "admin"

LosesSuperAdmin(r) ==
    r.put.user # None /\ IsSuperRow(r.put.user.from) /\ ~IsSuperRow(r.put.user.to)

TouchedProjects(r) ==
    {p \in Projects :
        \/ /\ r.put.project # None /\ r.put.project.key = p /\ r.put.project.to.active
           /\ r.put.project.from = None \/ ~r.put.project.from.active
        \/ /\ r.put.member # None /\ r.put.member.key[1] = p
           /\ IsAdminRow(r.put.member.from) # IsAdminRow(r.put.member.to)}

\* Whose status changes; their projects are looked up after the writes.
TouchedUsers(r) ==
    {u \in Users : /\ r.put.user # None /\ r.put.user.key = u
                   /\ r.put.user.from # None /\ r.put.user.from.active # r.put.user.to.active}

AffectedBesidesUsers(r) == TouchedProjects(r)
Affected(r) ==
    TouchedProjects(r)
      \cup {p \in Projects : \E u \in TouchedUsers(r) : HasAdminRole(u, p)'}

ValidatedProjectsOnly(r) ==
    \A p \in Affected(r) : ActiveProject(p)' => \E u \in Users : Administers(u, p)'
Validated(r) ==
    /\ LosesSuperAdmin(r) => \E u \in Users : IsSuper(u)'
    /\ \A p \in Affected(r) : ActiveProject(p)' => \E u \in Users : Administers(u, p)'

End(c) ==
    /\ step' = [step EXCEPT ![c] = "idle"]
    /\ request' = [request EXCEPT ![c] = Blank]

Commit(c) ==
    LET r == request[c] IN
    /\ step[c] = "ready"
    /\ r.kind # "archiveTeam"
    /\ SeedHolds(r)
    /\ GuardHolds(r)
    /\ Unchanged(user, UserPut(r))
    /\ TeamUnchanged(r)
    /\ Unchanged(project, r.put.project)
    /\ Unchanged(member, r.put.member)
    /\ user' = After(user, UserPut(r))
    /\ team' = After(team, r.put.team)
    /\ project' = After(project, r.put.project)
    /\ member' = After(member, r.put.member)
    /\ Validated(r)
    /\ End(c)

\* A team is archived by a transaction of its own, without the row's stamp.
CommitArchiveTeam(c) ==
    LET r == request[c] IN
    /\ step[c] = "ready"
    /\ r.kind = "archiveTeam"
    /\ GuardHolds(r)
    /\ LiveTeam(r.guard.inTeam)
    /\ \A p \in Projects : ActiveProject(p) => project[p].team # r.guard.inTeam
    /\ team' = [team EXCEPT ![r.guard.inTeam] =
                              TeamAt(FALSE, team[r.guard.inTeam].stamp)]
    /\ End(c)
    /\ UNCHANGED <<user, project, member>>

\* A check of the transaction fails, or the database does.
Reject(c) ==
    /\ step[c] = "ready"
    /\ Refuse(c)

\* The command line resets the password of an active super administrator.
ResetSuperAdminPassword(u, h) ==
    /\ "reset" \in Kinds
    /\ IsSuper(u)
    /\ user[u].stamp < MaxStamp
    /\ Fresh(h)
    /\ user' = [user EXCEPT ![u] = Account(TRUE, TRUE, h, user[u].stamp + 1)]
    /\ UNCHANGED <<team, project, member, step, request>>

Handler(c) ==
    \/ \E u \in Users, h \in Hashes :
          Register(c, u, h) \/ SeedInitialAdmin(c, u, h) \/ ChangePassword(c, u, h)
    \/ \E u \in Users : Login(c, u)
    \/ \E a, u \in Users, super \in BOOLEAN :
          \/ \E h \in Hashes : CreateUser(c, a, u, super, h)
          \/ \E active \in BOOLEAN : PatchUser(c, a, u, active, super)
    \/ \E a \in Users, t \in Teams :
          CreateTeam(c, a, t) \/ UpdateTeam(c, a, t) \/ ArchiveTeam(c, a, t)
    \/ \E a, u \in Users, t \in Teams, p \in Projects : CreateProject(c, a, t, p, u)
    \/ \E a \in Users, p \in Projects :
          UpdateProject(c, a, p) \/ ArchiveProject(c, a, p)
    \/ \E a, u \in Users, p \in Projects :
          \/ RemoveProjectMember(c, a, p, u)
          \/ \E role \in Roles : \/ AddProjectMember(c, a, p, u, role)
                                 \/ PatchProjectMemberRole(c, a, p, u, role)

Next ==
    \/ \E c \in Clients : \/ Handler(c) \/ Hashed(c)
                          \/ Commit(c) \/ CommitArchiveTeam(c) \/ Reject(c)
    \/ \E u \in Users, h \in Hashes : ResetSuperAdminPassword(u, h)

Spec == Init /\ [][Next]_vars

-----------------------------------------------------------------------------
(* Properties                                                              *)

\* Somebody can always administer the installation: concurrent demotions and
\* deactivations never leave it without an active super administrator.
SuperAdminRemains == NoUsers \/ \E u \in Users : IsSuper(u)

\* An active project keeps an active user as administrator, whatever mix of
\* demotions, removals and deactivations runs in other processes.
ProjectsHaveAdmin ==
    \A p \in Projects : ActiveProject(p) => \E u \in Users : Administers(u, p)

\* A project is never created in a team that is being archived, nor a team
\* archived under a project that is being created.
ProjectsInLiveTeams ==
    \A p \in Projects : ActiveProject(p) => LiveTeam(project[p].team)

Accepted(c) == step[c] = "ready" /\ step'[c] = "idle"

\* One becomes a super administrator as the first user of an empty database,
\* or by the decision of someone who is one when it takes effect: of several
\* first registrations in several processes only one counts.
SuperAdminsAreAppointed ==
    [][\A u \in Users : ~IsSuper(u) /\ IsSuper(u)' =>
          \/ NoUsers
          \/ \E c \in Clients : Accepted(c) /\ request[c].guard.actor # None
                                            /\ IsSuper(request[c].guard.actor)]_vars

\* Memberships and projects change only by someone who manages the project,
\* or creates it as a super administrator, when the change takes effect, and
\* only while the project is active.
ProjectChangesAuthorised ==
    [][\A p \in Projects :
          \/ project'[p] # project[p]
          \/ \E u \in Users : member'[<<p, u>>] # member[<<p, u>>]
          => \E c \in Clients :
                /\ Accepted(c) /\ request[c].guard.actor # None
                /\ IF project[p] = None THEN IsSuper(request[c].guard.actor)
                                        ELSE /\ Manages(request[c].guard.actor, p)
                                             /\ project[p].active]_vars

\* A password changes by the reset of an administrator's, or by a request that
\* proved the password it replaces: an edit of the account that was loaded
\* before a change of password does not bring the old one back.
PasswordsAreNotUndone ==
    [][\A u \in Users :
          user[u] # None /\ user'[u] # None /\ user'[u].hash # user[u].hash =>
             \/ IsSuper(u) /\ UNCHANGED step
             \/ \E c \in Clients : /\ Accepted(c)
                                   /\ request[c].kind = "changePassword"
                                   /\ request[c].guard.actor = u
                                   /\ request[c].guard.proven = user[u].hash]_vars

\* A login succeeds only if the account is active and its password is the one
\* that was verified, when the login is recorded.
LoginsAreCurrent ==
    [][\A c \in Clients :
          Accepted(c) /\ request[c].kind = "login" =>
             LET u == request[c].guard.actor IN
             IsActive(u) /\ user[u].hash = request[c].guard.proven]_vars

\* An archived team or project does not come back by an edit that was loaded
\* before it was archived.
ArchivedIsFinal ==
    [][/\ \A t \in Teams : team[t] # None /\ ~team[t].live => ~LiveTeam(t)'
       /\ \A p \in Projects :
             project[p] # None /\ ~project[p].active => ~ActiveProject(p)']_vars

-----------------------------------------------------------------------------
(* The inductive invariant                                                 *)

\* What was loaded is what is stored for as long as its stamp is.
Current(table, w) ==
    w # None => (w.from # None =>
       /\ table[w.key] # None
       /\ w.from.stamp <= table[w.key].stamp
       /\ w.from.stamp = table[w.key].stamp => table[w.key] = w.from)

LoadedRowsAreCurrent ==
    \A c \in Clients : /\ Current(user, request[c].put.user)
                       /\ Current(project, request[c].put.project)
                       /\ Current(member, request[c].put.member)

Restamps(w) == w # None => (w.from # None => w.to.stamp = w.from.stamp + 1)

\* Accounts are written by registrations, by super administrators, and by
\* their holders, who change their password only.
AccountWrite(r) ==
    \/ /\ r.kind \in {"register", "seed"}
       /\ r.put.user.from = None /\ r.put.user.to.active
    \/ /\ r.kind \in {"createUser", "patchUser"}
       /\ r.guard.need = "super" /\ r.guard.actor # None
       /\ r.put.user.from # None => r.put.user.to.hash = r.put.user.from.hash
    \/ /\ r.kind = "changePassword"
       /\ r.guard.actor = r.put.user.key /\ r.guard.proven # None
       /\ r.put.user.from # None
       /\ r.put.user.to.active = r.put.user.from.active
       /\ r.put.user.to.super = r.put.user.from.super

\* A project is created in the team the guard names, by a super administrator,
\* or changed by someone whom the guard finds to manage it.
ProjectWrite(r) ==
    IF r.put.project.from = None
      THEN /\ r.guard.need = "super" /\ r.guard.inTeam = r.put.project.to.team
      ELSE /\ r.guard.need = "admin" /\ r.guard.inProject = r.put.project.key
           /\ r.put.project.to.team = r.put.project.from.team
           /\ r.put.project.to.active => r.put.project.from.active

MemberWrite(r) ==
    \/ /\ r.guard.need = "super" /\ r.put.project # None
       /\ r.put.project.from = None /\ r.put.project.key = r.put.member.key[1]
    \/ r.guard.need = "admin" /\ r.guard.inProject = r.put.member.key[1]

Formed(r) ==
    /\ Restamps(r.put.user) /\ Restamps(r.put.project) /\ Restamps(r.put.member)
    /\ r.kind \in {"register", "seed", "createUser", "changePassword"} => r.put.user # None
    /\ r.kind = "login" => r.guard.actor # None /\ r.guard.proven # None /\ r.guard.need = "authenticated"
    /\ r.kind = "archiveTeam" => r.guard.inTeam # None
    /\ r.put.user # None => AccountWrite(r)
    /\ r.put.team # None => r.put.team.to.live
    /\ r.put.project # None => ProjectWrite(r) /\ r.guard.actor # None
    /\ r.put.member # None => MemberWrite(r) /\ r.guard.actor # None

RequestsAreFormed == \A c \in Clients : Formed(request[c])

\* Why the three invariants of administration last: a row is written over what
\* was loaded or not at all, and every write comes with the rights and the
\* parents it was checked for.
CollaborationInvariant ==
    /\ TypeOK
    /\ LoadedRowsAreCurrent
    /\ RequestsAreFormed
    /\ SuperAdminRemains
    /\ ProjectsHaveAdmin
    /\ ProjectsInLiveTeams

=============================================================================
