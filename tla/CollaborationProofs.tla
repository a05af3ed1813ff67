------------------------ MODULE CollaborationProofs -------------------------
(***************************************************************************)
(* For any users, teams, projects and clients: administrators remain,      *)
(* projects stay in live teams, and rights are those of the commit.        *)
(***************************************************************************)
EXTENDS Collaboration, TLAPS

\* A handler that leaves a well-formed request over current rows keeps the
\* invariant.
LEMMA EnterPreserves ==
    ASSUME CollaborationInvariant, NEW c \in Clients, NEW r \in Request,
           NEW s \in {"hashing", "ready", "refused", "idle"}, Enter(c, s, r),
           Formed(r), Current(user, r.put.user), Current(project, r.put.project),
           Current(member, r.put.member)
    PROVE  CollaborationInvariant'
  <1>1. UNCHANGED rows /\ request' = [request EXCEPT ![c] = r]
        /\ step' = [step EXCEPT ![c] = s]
    BY DEF Enter
  <1>2. TypeOK'
    BY <1>1 DEF CollaborationInvariant, TypeOK, rows
  <1>3. \A d \in Clients : request'[d] = IF d = c THEN r ELSE request[d]
    BY <1>1 DEF CollaborationInvariant, TypeOK
  <1>4. LoadedRowsAreCurrent'
    <2>1. user' = user /\ project' = project /\ member' = member
      BY <1>1 DEF rows
    <2> SUFFICES ASSUME NEW d \in Clients
                 PROVE  /\ Current(user', request'[d].put.user)
                        /\ Current(project', request'[d].put.project)
                        /\ Current(member', request'[d].put.member)
      BY Zenon DEF LoadedRowsAreCurrent, Current
    <2>2. CASE d = c
      <3>1. request'[d] = r
        BY <1>3, <2>2
      <3> QED BY <2>1, <3>1, Zenon
    <2>3. CASE d # c
      <3>1. request'[d] = request[d]
        BY <1>3, <2>3
      <3>2. /\ Current(user, request[d].put.user) /\ Current(project, request[d].put.project)
            /\ Current(member, request[d].put.member)
        BY Zenon DEF CollaborationInvariant, LoadedRowsAreCurrent
      <3> QED BY <2>1, <3>1, <3>2, Zenon
    <2> QED BY <2>2, <2>3
  <1>5. RequestsAreFormed'
    <2> SUFFICES ASSUME NEW d \in Clients PROVE Formed(request'[d])
      BY DEF RequestsAreFormed, Formed, Restamps, AccountWrite, ProjectWrite, MemberWrite
    <2> QED BY <1>3 DEF CollaborationInvariant, RequestsAreFormed
  <1>6. SuperAdminRemains' /\ ProjectsHaveAdmin' /\ ProjectsInLiveTeams'
    BY <1>1 DEF CollaborationInvariant, rows, SuperAdminRemains, ProjectsHaveAdmin,
          ProjectsInLiveTeams, NoUsers, IsSuper, IsActive, ActiveProject, Administers,
          HasAdminRole, IsMember, LiveTeam
  <1> QED BY <1>2, <1>4, <1>5, <1>6 DEF CollaborationInvariant

LEMMA BlankIsFormed ==
    /\ Blank \in Request /\ Formed(Blank)
    /\ Current(user, Blank.put.user) /\ Current(project, Blank.put.project)
    /\ Current(member, Blank.put.member)
  BY DEF Blank, Ask, Put, Unguarded, Request, Guard, Writes, Write, Formed, Restamps, Current

LEMMA RefusePreserves ==
    ASSUME CollaborationInvariant, NEW c \in Clients, Refuse(c)
    PROVE  CollaborationInvariant'
  <1>1. Enter(c, "refused", Blank)
    BY DEF Refuse, Enter
  <1> QED BY <1>1, BlankIsFormed, EnterPreserves

\* A request that writes one account.
LEMMA AccountRequest ==
    ASSUME CollaborationInvariant, NEW c \in Clients, NEW s \in {"hashing", "ready"},
           NEW k \in RequestKinds, NEW g \in Guard, NEW u \in Users,
           NEW old, old = user[u] \/ old = None, NEW row \in UserRow,
           old # None => row.stamp = old.stamp + 1,
           k # "login",
           AccountWrite(Ask(k, g, Put(Replace(u, old, row), None, None, None))),
           Enter(c, s, Ask(k, g, Put(Replace(u, old, row), None, None, None)))
    PROVE  CollaborationInvariant'
  <1> DEFINE w == Replace(u, old, row)
             r == Ask(k, g, Put(w, None, None, None))
  <1>1. w \in RowWrite(Users, UserRow) /\ w # None /\ w.key = u /\ w.from = old /\ w.to = row
    <2>1. old \in UserRow \cup {None}
      BY DEF CollaborationInvariant, TypeOK
    <2> QED BY <2>1, NoneAssumption DEF Replace, RowWrite
  <1>2. r.kind = k /\ r.guard = g /\ r.put.user = w /\ r.put.team = None
        /\ r.put.project = None /\ r.put.member = None
    BY DEF Ask, Put
  <1>3. r \in Request
    BY <1>1 DEF Request, Writes, Write, Ask, Put
  <1>4. Formed(r)
    <2>1. k # "archiveTeam"
      BY <1>2 DEF AccountWrite
    <2> QED BY <1>1, <1>2, <2>1 DEF Formed, Restamps
  <1>5. Current(user, w)
    <2>1. old # None => old.stamp \in Nat
      BY <1>1 DEF RowWrite, UserRow
    <2> QED BY <1>1, <2>1 DEF Current
  <1>6. Current(user, r.put.user) /\ Current(project, r.put.project)
        /\ Current(member, r.put.member)
    BY <1>2, <1>5 DEF Current
  <1>7. Enter(c, s, r)
    OBVIOUS
  <1> HIDE DEF r
  <1> QED BY <1>3, <1>4, <1>6, <1>7, EnterPreserves

LEMMA RegisterPreserves ==
    ASSUME CollaborationInvariant, NEW c \in Clients, NEW u \in Users,
           NEW h \in Hashes, Register(c, u, h)
    PROVE  CollaborationInvariant'
  <1> DEFINE row == Account(TRUE, NoUsers, h, 1)
  <1>1. row \in UserRow
    BY DEF UserRow, Account, NoUsers
  <1>2. Unguarded \in Guard
    BY DEF Unguarded, Guard
  <1>3. AccountWrite(Ask("register", Unguarded, Put(Replace(u, None, row), None, None, None)))
    BY DEF AccountWrite, Ask, Put, Replace, Account
  <1>4. Enter(c, "hashing", Ask("register", Unguarded,
                                Put(Replace(u, None, row), None, None, None)))
    BY DEF Register, NewUser, Insert
  <1> HIDE DEF row
  <1> QED BY <1>1, <1>2, <1>3, <1>4, AccountRequest DEF RequestKinds

LEMMA SeedInitialAdminPreserves ==
    ASSUME CollaborationInvariant, NEW c \in Clients, NEW u \in Users,
           NEW h \in Hashes, SeedInitialAdmin(c, u, h)
    PROVE  CollaborationInvariant'
  <1> DEFINE row == Account(TRUE, TRUE, h, 1)
  <1>1. row \in UserRow
    BY DEF UserRow, Account
  <1>2. Unguarded \in Guard
    BY DEF Unguarded, Guard
  <1>3. AccountWrite(Ask("seed", Unguarded, Put(Replace(u, None, row), None, None, None)))
    BY DEF AccountWrite, Ask, Put, Replace, Account
  <1>4. Enter(c, "hashing", Ask("seed", Unguarded,
                                Put(Replace(u, None, row), None, None, None)))
    BY DEF SeedInitialAdmin, NewUser, Insert
  <1> HIDE DEF row
  <1> QED BY <1>1, <1>2, <1>3, <1>4, AccountRequest DEF RequestKinds

\* The three guards name users, teams and projects.
LEMMA GuardTypes ==
    ASSUME TypeOK, NEW a \in Users, NEW others \in SUBSET Users
    PROVE  /\ user[a] # None => ByHolder(a) \in Guard
           /\ BySuper(a, None, others) \in Guard
           /\ \A t \in Teams : BySuper(a, t, others) \in Guard
           /\ \A p \in Projects : ByManager(a, p, others) \in Guard
  <1>1. user[a] # None => user[a].hash \in Hashes
    BY DEF TypeOK, UserRow
  <1> QED BY <1>1 DEF Guard, ByHolder, BySuper, ByManager

LEMMA CreateUserPreserves ==
    ASSUME CollaborationInvariant, NEW c \in Clients, NEW a \in Users, NEW u \in Users,
           NEW super \in BOOLEAN, NEW h \in Hashes, CreateUser(c, a, u, super, h)
    PROVE  CollaborationInvariant'
  <1> DEFINE row == Account(TRUE, super, h, 1)
             g == BySuper(a, None, {})
  <1>1. row \in UserRow
    BY DEF UserRow, Account
  <1>2. g \in Guard
    BY GuardTypes DEF CollaborationInvariant
  <1>3. AccountWrite(Ask("createUser", g, Put(Replace(u, None, row), None, None, None)))
    BY NoneAssumption DEF AccountWrite, Ask, Put, Replace, BySuper
  <1>4. Enter(c, "hashing", Ask("createUser", g, Put(Replace(u, None, row), None, None, None)))
    BY DEF CreateUser, NewUser, Insert
  <1> HIDE DEF row, g
  <1> QED BY <1>1, <1>2, <1>3, <1>4, AccountRequest DEF RequestKinds

LEMMA PatchUserPreserves ==
    ASSUME CollaborationInvariant, NEW c \in Clients, NEW a \in Users, NEW u \in Users,
           NEW active \in BOOLEAN, NEW super \in BOOLEAN, PatchUser(c, a, u, active, super)
    PROVE  CollaborationInvariant'
  <1> DEFINE row == Account(active, super, user[u].hash, user[u].stamp + 1)
             g == BySuper(a, None, {})
  <1>1. row \in UserRow /\ row.stamp = user[u].stamp + 1
    BY DEF UserRow, Account, PatchUser, CollaborationInvariant, TypeOK
  <1>2. g \in Guard
    BY GuardTypes DEF CollaborationInvariant
  <1>3. AccountWrite(Ask("patchUser", g, Put(Replace(u, user[u], row), None, None, None)))
    BY NoneAssumption DEF AccountWrite, Ask, Put, Replace, BySuper, Account
  <1>4. Enter(c, "ready", Ask("patchUser", g, Put(Replace(u, user[u], row), None, None, None)))
    BY DEF PatchUser
  <1> HIDE DEF row, g
  <1> QED BY <1>1, <1>2, <1>3, <1>4, AccountRequest DEF RequestKinds

\* A password change, when it begins and when it is loaded again.
LEMMA PasswordRequest ==
    ASSUME CollaborationInvariant, NEW c \in Clients, NEW u \in Users, NEW h \in Hashes,
           NEW s \in {"hashing", "ready"}, user[u] # None,
           NEW g \in Guard, g.actor = u, g.proven # None,
           Enter(c, s, Ask("changePassword", g, NewPassword(u, h)))
    PROVE  CollaborationInvariant'
  <1> DEFINE row == Account(user[u].active, user[u].super, h, user[u].stamp + 1)
  <1>1. row \in UserRow /\ row.stamp = user[u].stamp + 1
    BY DEF UserRow, Account, CollaborationInvariant, TypeOK
  <1>2. AccountWrite(Ask("changePassword", g, Put(Replace(u, user[u], row), None, None, None)))
    BY NoneAssumption DEF AccountWrite, Ask, Put, Replace, Account
  <1>3. Enter(c, s, Ask("changePassword", g, Put(Replace(u, user[u], row), None, None, None)))
    BY DEF NewPassword
  <1> HIDE DEF row
  <1> QED BY <1>1, <1>2, <1>3, AccountRequest DEF RequestKinds

LEMMA ChangePasswordPreserves ==
    ASSUME CollaborationInvariant, NEW c \in Clients, NEW u \in Users,
           NEW h \in Hashes, ChangePassword(c, u, h)
    PROVE  CollaborationInvariant'
  <1>1. user[u] # None /\ Enter(c, "hashing", Ask("changePassword", ByHolder(u), NewPassword(u, h)))
    BY DEF ChangePassword, IsActive
  <1>2. ByHolder(u) \in Guard
    BY <1>1, GuardTypes DEF CollaborationInvariant
  <1>3. ByHolder(u).actor = u /\ ByHolder(u).proven = user[u].hash
    BY DEF ByHolder
  <1>4. user[u].hash # None
    BY <1>1, NoneAssumption DEF CollaborationInvariant, TypeOK, UserRow
  <1> QED BY <1>1, <1>2, <1>3, <1>4, PasswordRequest

\* A request that writes at most a team.
LEMMA TeamRequest ==
    ASSUME CollaborationInvariant, NEW c \in Clients, NEW s \in {"hashing", "ready"},
           NEW k \in RequestKinds, NEW g \in Guard, NEW w \in Write(Teams, TeamRow),
           w # None => w.to.live,
           k \notin {"register", "seed", "createUser", "changePassword"},
           k = "login" => g.actor # None /\ g.proven # None /\ g.need = "authenticated",
           k = "archiveTeam" => g.inTeam # None,
           Enter(c, s, Ask(k, g, Put(None, w, None, None)))
    PROVE  CollaborationInvariant'
  <1> DEFINE r == Ask(k, g, Put(None, w, None, None))
  <1>1. r.kind = k /\ r.guard = g /\ r.put.user = None /\ r.put.team = w
        /\ r.put.project = None /\ r.put.member = None
    BY DEF Ask, Put
  <1>2. r \in Request
    BY DEF Request, Writes, Write, Ask, Put
  <1>3. Formed(r)
    BY <1>1 DEF Formed, Restamps
  <1>4. Current(user, r.put.user) /\ Current(project, r.put.project)
        /\ Current(member, r.put.member)
    BY <1>1 DEF Current
  <1>5. Enter(c, s, r)
    OBVIOUS
  <1> HIDE DEF r
  <1> QED BY <1>2, <1>3, <1>4, <1>5, EnterPreserves

LEMMA LoginPreserves ==
    ASSUME CollaborationInvariant, NEW c \in Clients, NEW u \in Users, Login(c, u)
    PROVE  CollaborationInvariant'
  <1>1. user[u] # None /\ Enter(c, "hashing", Ask("login", ByHolder(u), Put(None, None, None, None)))
    BY DEF Login
  <1>2. ByHolder(u) \in Guard
    BY <1>1, GuardTypes DEF CollaborationInvariant
  <1>3. ByHolder(u).actor # None /\ ByHolder(u).proven # None
        /\ ByHolder(u).need = "authenticated"
    BY <1>1, NoneAssumption DEF ByHolder, CollaborationInvariant, TypeOK, UserRow
  <1> QED BY <1>1, <1>2, <1>3, TeamRequest DEF Write, RequestKinds

LEMMA TeamHandlersPreserve ==
    ASSUME CollaborationInvariant, NEW c \in Clients, NEW a \in Users, NEW t \in Teams,
           CreateTeam(c, a, t) \/ UpdateTeam(c, a, t) \/ ArchiveTeam(c, a, t)
    PROVE  CollaborationInvariant'
  <1>1. BySuper(a, None, {}) \in Guard /\ BySuper(a, t, {}) \in Guard
    BY GuardTypes DEF CollaborationInvariant
  <1>2. CASE CreateTeam(c, a, t)
    <2> DEFINE w == Insert(t, TeamAt(TRUE, 1))
    <2>1. w \in Write(Teams, TeamRow) /\ w.to.live
      BY DEF Insert, Replace, TeamAt, Write, RowWrite, TeamRow
    <2>2. Enter(c, "ready", Ask("createTeam", BySuper(a, None, {}), Put(None, w, None, None)))
      BY <1>2 DEF CreateTeam
    <2> HIDE DEF w
    <2> QED BY <1>1, <2>1, <2>2, TeamRequest DEF RequestKinds
  <1>3. CASE UpdateTeam(c, a, t)
    <2> DEFINE w == Replace(t, team[t], TeamAt(TRUE, team[t].stamp + 1))
    <2>1. team[t] \in TeamRow
      BY <1>3 DEF UpdateTeam, LiveTeam, CollaborationInvariant, TypeOK
    <2>2. w \in Write(Teams, TeamRow) /\ w.to.live
      BY <2>1 DEF Replace, TeamAt, Write, RowWrite, TeamRow
    <2>3. Enter(c, "ready", Ask("updateTeam", BySuper(a, None, {}), Put(None, w, None, None)))
      BY <1>3 DEF UpdateTeam
    <2> HIDE DEF w
    <2> QED BY <1>1, <2>2, <2>3, TeamRequest DEF RequestKinds
  <1>4. CASE ArchiveTeam(c, a, t)
    <2>1. Enter(c, "ready", Ask("archiveTeam", BySuper(a, t, {}), Put(None, None, None, None)))
      BY <1>4 DEF ArchiveTeam
    <2>2. BySuper(a, t, {}).inTeam # None
      BY NoneAssumption DEF BySuper
    <2> QED BY <1>1, <2>1, <2>2, TeamRequest DEF RequestKinds, Write
  <1> QED BY <1>2, <1>3, <1>4

LEMMA CreateProjectPreserves ==
    ASSUME CollaborationInvariant, NEW c \in Clients, NEW a \in Users, NEW t \in Teams,
           NEW p \in Projects, NEW u \in Users, CreateProject(c, a, t, p, u)
    PROVE  CollaborationInvariant'
  <1> DEFINE m == <<p, u>>
             w == Insert(p, ProjectOf(t, TRUE, 1))
             x == Insert(m, Membership("admin", TRUE, 1))
             g == BySuper(a, t, {u})
             r == Ask("createProject", g, Put(None, None, w, x))
  <1>1. w \in RowWrite(Projects, ProjectRow) /\ w.key = p /\ w.from = None /\ w.to.team = t
    BY DEF Insert, Replace, RowWrite, ProjectOf, ProjectRow
  <1>2. m \in Members /\ m[1] = p
    BY DEF Members
  <1>9. Enter(c, "ready", r)
    BY DEF CreateProject
  <1> HIDE DEF m
  <1>3. x \in RowWrite(Members, MemberRow) /\ x.key = m /\ x.from = None
    BY <1>2, RolesAssumption DEF Insert, Replace, RowWrite, Membership, MemberRow
  <1>4. g \in Guard /\ g.actor = a /\ g.need = "super" /\ g.inTeam = t
    BY GuardTypes DEF BySuper, CollaborationInvariant
  <1>5. r.kind = "createProject" /\ r.guard = g /\ r.put.user = None /\ r.put.team = None
        /\ r.put.project = w /\ r.put.member = x
    BY DEF Ask, Put
  <1>6. r \in Request
    BY <1>1, <1>3, <1>4 DEF Request, Writes, Write, Ask, Put, RequestKinds
  <1>7. Formed(r)
    <2>1. x.key[1] = p
      BY <1>2, <1>3
    <2>2. ProjectWrite(r) /\ MemberWrite(r) /\ g.actor # None
      BY <1>1, <1>3, <1>4, <1>5, <2>1, NoneAssumption DEF ProjectWrite, MemberWrite
    <2> HIDE DEF r, w, x, g
    <2> QED BY <1>1, <1>3, <1>5, <2>2 DEF Formed, Restamps
  <1>8. Current(user, r.put.user) /\ Current(project, r.put.project)
        /\ Current(member, r.put.member)
    BY <1>1, <1>3, <1>5 DEF Current
  <1> HIDE DEF r
  <1> QED BY <1>6, <1>7, <1>8, <1>9, EnterPreserves

LEMMA PatchProjectPreserves ==
    ASSUME CollaborationInvariant, NEW c \in Clients, NEW a \in Users,
           NEW p \in Projects, NEW active \in BOOLEAN,
           NEW k \in {"updateProject", "archiveProject"}, PatchProject(c, k, a, p, active)
    PROVE  CollaborationInvariant'
  <1> DEFINE row == ProjectOf(project[p].team, active, project[p].stamp + 1)
             w == Replace(p, project[p], row)
             g == ByManager(a, p, {})
             r == Ask(k, g, Put(None, None, w, None))
  <1>1. project[p] \in ProjectRow /\ project[p] # None /\ project[p].active
    BY DEF PatchProject, Managed, ActiveProject, CollaborationInvariant, TypeOK
  <1>2. row \in ProjectRow /\ row.stamp = project[p].stamp + 1 /\ row.team = project[p].team
    BY <1>1 DEF ProjectOf, ProjectRow
  <1>3. w \in RowWrite(Projects, ProjectRow) /\ w.key = p /\ w.from = project[p] /\ w.to = row
    BY <1>1, <1>2 DEF Replace, RowWrite
  <1>4. g \in Guard /\ g.actor = a /\ g.need = "admin" /\ g.inProject = p
    BY GuardTypes DEF ByManager, CollaborationInvariant
  <1>5. r.kind = k /\ r.guard = g /\ r.put.user = None /\ r.put.team = None
        /\ r.put.project = w /\ r.put.member = None
    BY DEF Ask, Put
  <1>6. r \in Request
    BY <1>3, <1>4 DEF Request, Writes, Write, Ask, Put, RequestKinds
  <1>7. Formed(r)
    <2>1. ProjectWrite(r) /\ g.actor # None
      BY <1>1, <1>2, <1>3, <1>4, <1>5, NoneAssumption, SMTT(20) DEF ProjectWrite
    <2> HIDE DEF r, w, g, row
    <2> QED BY <1>2, <1>3, <1>5, <2>1 DEF Formed, Restamps
  <1>8. Current(project, w)
    <2>1. project[p].stamp \in Nat
      BY <1>1 DEF ProjectRow
    <2> QED BY <1>1, <1>3, <2>1 DEF Current
  <1>9. Current(user, r.put.user) /\ Current(project, r.put.project)
        /\ Current(member, r.put.member)
    BY <1>5, <1>8 DEF Current
  <1>10. Enter(c, "ready", r)
    BY DEF PatchProject
  <1> HIDE DEF r
  <1> QED BY <1>6, <1>7, <1>9, <1>10, EnterPreserves

\* A request that writes one membership of the project it was checked for.
LEMMA MemberRequest ==
    ASSUME CollaborationInvariant, NEW c \in Clients, NEW a \in Users, NEW p \in Projects,
           NEW u \in Users, NEW role \in Roles, NEW active \in BOOLEAN,
           NEW k \in {"addMember", "patchMember", "removeMember"},
           NEW others \in SUBSET Users,
           Enter(c, "ready", Ask(k, ByManager(a, p, others),
                   PutMember(<<p, u>>, Membership(role, active, NextStamp(<<p, u>>)))))
    PROVE  CollaborationInvariant'
  <1> DEFINE m == <<p, u>>
             row == Membership(role, active, NextStamp(m))
             w == Replace(m, member[m], row)
             g == ByManager(a, p, others)
             r == Ask(k, g, Put(None, None, None, w))
  <1>1. m \in Members /\ m[1] = p
    BY DEF Members
  <1> HIDE DEF m
  <1>2. member[m] \in MemberRow \cup {None}
    BY <1>1 DEF CollaborationInvariant, TypeOK
  <1>3. row \in MemberRow /\ (member[m] # None => row.stamp = member[m].stamp + 1)
    BY <1>2 DEF Membership, MemberRow, NextStamp
  <1>4. w \in RowWrite(Members, MemberRow) /\ w.key = m /\ w.from = member[m] /\ w.to = row
    BY <1>1, <1>2, <1>3 DEF Replace, RowWrite
  <1>5. g \in Guard /\ g.actor = a /\ g.need = "admin" /\ g.inProject = p
    BY GuardTypes DEF ByManager, CollaborationInvariant
  <1>6. r.kind = k /\ r.guard = g /\ r.put.user = None /\ r.put.team = None
        /\ r.put.project = None /\ r.put.member = w
    BY DEF Ask, Put
  <1>7. r \in Request
    BY <1>4, <1>5 DEF Request, Writes, Write, Ask, Put, RequestKinds
  <1>8. Formed(r)
    <2>1. MemberWrite(r) /\ g.actor # None
      BY <1>1, <1>4, <1>5, <1>6, NoneAssumption DEF MemberWrite
    <2> HIDE DEF r, w, g, row
    <2> QED BY <1>3, <1>4, <1>6, <2>1 DEF Formed, Restamps
  <1>9. Current(member, w)
    <2>1. member[m] # None => member[m].stamp \in Nat
      BY <1>2 DEF MemberRow
    <2> QED BY <1>4, <2>1 DEF Current
  <1>10. Current(user, r.put.user) /\ Current(project, r.put.project)
         /\ Current(member, r.put.member)
    BY <1>6, <1>9 DEF Current
  <1>11. Enter(c, "ready", r)
    BY DEF PutMember, m
  <1> HIDE DEF r
  <1> QED BY <1>7, <1>8, <1>10, <1>11, EnterPreserves

LEMMA MemberHandlersPreserve ==
    ASSUME CollaborationInvariant, NEW c \in Clients, NEW a \in Users, NEW p \in Projects,
           NEW u \in Users, NEW role \in Roles,
           \/ AddProjectMember(c, a, p, u, role)
           \/ PatchProjectMemberRole(c, a, p, u, role)
           \/ RemoveProjectMember(c, a, p, u)
    PROVE  CollaborationInvariant'
  <1>1. NewAdmins(u, role) \in SUBSET Users
    BY DEF NewAdmins
  <1>2. CASE AddProjectMember(c, a, p, u, role)
    BY <1>1, <1>2, MemberRequest DEF AddProjectMember
  <1>3. CASE PatchProjectMemberRole(c, a, p, u, role)
    BY <1>1, <1>3, MemberRequest DEF PatchProjectMemberRole
  <1>4. CASE RemoveProjectMember(c, a, p, u)
    <2> DEFINE old == member[<<p, u>>].role
    <2>1. old \in Roles
      BY <1>4 DEF RemoveProjectMember, IsMember, CollaborationInvariant, TypeOK,
            Members, MemberRow
    <2>2. Enter(c, "ready", Ask("removeMember", ByManager(a, p, {}),
                  PutMember(<<p, u>>, Membership(old, FALSE, NextStamp(<<p, u>>)))))
      BY <1>4 DEF RemoveProjectMember
    <2>3. {} \in SUBSET Users /\ FALSE \in BOOLEAN
          /\ "removeMember" \in {"addMember", "patchMember", "removeMember"}
      OBVIOUS
    <2> HIDE DEF old
    <2> QED BY <2>1, <2>2, <2>3, MemberRequest
  <1> QED BY <1>2, <1>3, <1>4

\* Bcrypt ends: the request goes on with what is stored now, or ends.
LEMMA HashedPreserves ==
    ASSUME CollaborationInvariant, NEW c \in Clients, Hashed(c)
    PROVE  CollaborationInvariant'
  <1> DEFINE r == request[c]
  <1>1. r \in Request /\ Formed(r)
    BY DEF CollaborationInvariant, TypeOK, RequestsAreFormed
  <1>2. CASE ~StillAllowed(r)
    BY <1>2, RefusePreserves DEF Hashed
  <1>3. CASE StillAllowed(r) /\ r.kind # "changePassword"
    <2>1. Enter(c, "ready", r)
      BY <1>3 DEF Hashed, Reloaded
    <2>2. Current(user, r.put.user) /\ Current(project, r.put.project)
          /\ Current(member, r.put.member)
      BY DEF CollaborationInvariant, LoadedRowsAreCurrent
    <2> HIDE DEF r
    <2> QED BY <1>1, <2>1, <2>2, EnterPreserves
  <1>4. CASE StillAllowed(r) /\ r.kind = "changePassword"
    <2>1. r.put.user # None /\ AccountWrite(r)
      BY <1>1, <1>4 DEF Formed
    <2>2. r.put.user \in RowWrite(Users, UserRow) /\ r.guard \in Guard
      BY <1>1, <2>1 DEF Request, Writes, Write
    <2>3. r.guard.actor = r.put.user.key /\ r.guard.proven # None
      BY <1>4, <2>1 DEF AccountWrite
    <2>4. r.put.user.to.hash \in Hashes /\ r.guard.actor \in Users
      BY <2>2, <2>3 DEF RowWrite, UserRow
    <2>5. user[r.guard.actor] # None
      BY <1>4 DEF StillAllowed, IsActive
    <2>6. Enter(c, "ready", Ask("changePassword", r.guard,
                                NewPassword(r.guard.actor, r.put.user.to.hash)))
      BY <1>4 DEF Hashed, Reloaded
    <2> HIDE DEF r
    <2> QED BY <2>2, <2>3, <2>4, <2>5, <2>6, PasswordRequest
  <1> QED BY <1>2, <1>3, <1>4

\* Writing over what was loaded: a row that differs from before has a later
\* stamp, so what other requests have loaded stays what is stored or is stale.
LEMMA WriteIsCurrent ==
    ASSUME NEW Key, NEW Row, \A row \in Row : row.stamp \in Nat,
           None \notin Row \cup RowWrite(Key, Row),
           NEW table \in [Key -> Row \cup {None}], NEW w \in Write(Key, Row),
           Unchanged(table, w), Current(table, w), Restamps(w)
    PROVE  /\ After(table, w) \in [Key -> Row \cup {None}]
           /\ w # None => w.key \in Key /\ table[w.key] = w.from /\ w.to \in Row
           /\ \A k \in Key : After(table, w)[k] =
                                IF w # None /\ w.key = k THEN w.to ELSE table[k]
           /\ \A x \in Write(Key, Row) : Current(table, x) => Current(After(table, w), x)
  <1>1. w # None => w.key \in Key /\ w.from \in Row \cup {None} /\ w.to \in Row
    BY DEF Write, RowWrite
  <1>2. w # None => table[w.key] = w.from
    BY <1>1 DEF Unchanged, Current
  <1>3. After(table, w) \in [Key -> Row \cup {None}]
    BY <1>1 DEF After
  <1>4. \A k \in Key : After(table, w)[k] = IF w # None /\ w.key = k THEN w.to ELSE table[k]
    BY <1>1 DEF After
  <1>5. ASSUME NEW x \in Write(Key, Row), Current(table, x), x # None, x.from # None
        PROVE  /\ After(table, w)[x.key] # None
               /\ x.from.stamp <= After(table, w)[x.key].stamp
               /\ x.from.stamp = After(table, w)[x.key].stamp => After(table, w)[x.key] = x.from
    <2>1. x.key \in Key /\ x.from \in Row
      BY <1>5 DEF Write, RowWrite
    <2>2. table[x.key] # None /\ x.from.stamp <= table[x.key].stamp
          /\ (x.from.stamp = table[x.key].stamp => table[x.key] = x.from)
      BY <1>5 DEF Current
    <2>3. CASE w # None /\ w.key = x.key
      <3>1. After(table, w)[x.key] = w.to /\ w.from = table[x.key] /\ w.to \in Row
        BY <1>1, <1>2, <1>4, <2>1, <2>3
      <3>2. w.to.stamp = table[x.key].stamp + 1
        BY <2>2, <2>3, <3>1 DEF Restamps
      <3>3. table[x.key].stamp \in Nat /\ x.from.stamp \in Nat
        BY <2>1, <2>2
      <3> QED BY <2>2, <3>1, <3>2, <3>3
    <2>4. CASE ~(w # None /\ w.key = x.key)
      BY <1>4, <2>1, <2>2, <2>4
    <2> QED BY <2>3, <2>4
  <1>6. \A x \in Write(Key, Row) : Current(table, x) => Current(After(table, w), x)
    BY <1>5 DEF Current
  <1> QED BY <1>1, <1>2, <1>3, <1>4, <1>6

\* What a registration writes is an insertion whoever loaded what.
LEMMA UserPutFacts ==
    ASSUME CollaborationInvariant, NEW c \in Clients
    PROVE  /\ UserPut(request[c]) \in Write(Users, UserRow)
           /\ Restamps(UserPut(request[c])) /\ Current(user, UserPut(request[c]))
           /\ \/ UserPut(request[c]) = request[c].put.user
              \/ /\ request[c].kind \in {"register", "seed"}
                 /\ UserPut(request[c]).from = None
                 /\ UserPut(request[c]).to.active
                 /\ UserPut(request[c]).to.super = NoUsers
           /\ request[c].kind \in {"register", "seed"} =>
                 /\ UserPut(request[c]).to.super = NoUsers /\ UserPut(request[c]).to.active
                 /\ UserPut(request[c]).to.super => NoUsers
  <1> DEFINE r == request[c]
             i == Insert(r.put.user.key, Account(TRUE, NoUsers, r.put.user.to.hash, 1))
  <1>1. r \in Request /\ Formed(r) /\ Current(user, r.put.user)
    BY DEF CollaborationInvariant, TypeOK, RequestsAreFormed, LoadedRowsAreCurrent
  <1>2. r.put.user \in Write(Users, UserRow)
    BY <1>1 DEF Request, Writes
  <1>3. CASE r.kind \notin {"register", "seed"}
    <2>1. UserPut(r) = r.put.user
      BY <1>3 DEF UserPut
    <2> HIDE DEF r
    <2> QED BY <1>1, <1>2, <1>3, <2>1 DEF Formed, r
  <1>4. CASE r.kind \in {"register", "seed"}
    <2>1. UserPut(r) = i
      BY <1>4 DEF UserPut
    <2>2. r.put.user \in RowWrite(Users, UserRow)
      BY <1>1, <1>2, <1>4 DEF Formed, Write
    <2>3. r.put.user.key \in Users /\ r.put.user.to.hash \in Hashes
      BY <2>2 DEF RowWrite, UserRow
    <2>4. Account(TRUE, NoUsers, r.put.user.to.hash, 1) \in UserRow
      BY <2>3 DEF Account, UserRow, NoUsers
    <2>5. i \in Write(Users, UserRow) /\ i.from = None
      BY <2>3, <2>4 DEF Insert, Replace, RowWrite, Write
    <2>6. i.to.active /\ i.to.super = NoUsers /\ (i.to.super => NoUsers)
      BY DEF Insert, Replace, Account
    <2> HIDE DEF r, i
    <2>7. Restamps(i) /\ Current(user, i)
      BY <2>5 DEF Restamps, Current
    <2> QED BY <1>4, <2>1, <2>5, <2>6, <2>7 DEF r
  <1> QED BY <1>3, <1>4

\* What a commit does to each table, and that it only writes over what it loaded.
LEMMA CommitWrites ==
    ASSUME CollaborationInvariant, NEW c \in Clients, Commit(c),
           NEW r, r = request[c], NEW w, w = UserPut(r)
    PROVE  /\ user' \in [Users -> UserRow \cup {None}]
           /\ team' \in [Teams -> TeamRow \cup {None}]
           /\ project' \in [Projects -> ProjectRow \cup {None}]
           /\ member' \in [Members -> MemberRow \cup {None}]
           /\ w # None => w.key \in Users /\ user[w.key] = w.from /\ w.to \in UserRow
           /\ r.put.project # None => /\ r.put.project.key \in Projects
                                      /\ project[r.put.project.key] = r.put.project.from
                                      /\ r.put.project.to \in ProjectRow
           /\ r.put.member # None => /\ r.put.member.key \in Members
                                     /\ member[r.put.member.key] = r.put.member.from
                                     /\ r.put.member.to \in MemberRow
           /\ \A u \in Users : user'[u] = IF w # None /\ w.key = u THEN w.to ELSE user[u]
           /\ \A p \in Projects : project'[p] =
                 IF r.put.project # None /\ r.put.project.key = p
                   THEN r.put.project.to ELSE project[p]
           /\ \A m \in Members : member'[m] =
                 IF r.put.member # None /\ r.put.member.key = m
                   THEN r.put.member.to ELSE member[m]
           /\ \A t \in Teams : LiveTeam(t) => LiveTeam(t)'
           /\ \A d \in Clients : /\ Current(user', request[d].put.user)
                                 /\ Current(project', request[d].put.project)
                                 /\ Current(member', request[d].put.member)
  <1>1. TypeOK /\ r \in Request /\ Formed(r)
    BY DEF CollaborationInvariant, TypeOK, RequestsAreFormed
  <1>2. \A d \in Clients : request[d].put \in Writes
    BY <1>1 DEF TypeOK, Request
  <1>3. \A d \in Clients : /\ request[d].put.user \in Write(Users, UserRow)
                           /\ request[d].put.team \in Write(Teams, TeamRow)
                           /\ request[d].put.project \in Write(Projects, ProjectRow)
                           /\ request[d].put.member \in Write(Members, MemberRow)
    BY <1>2 DEF Writes
  <1>4. /\ \A row \in UserRow : row.stamp \in Nat
        /\ \A row \in ProjectRow : row.stamp \in Nat
        /\ \A row \in MemberRow : row.stamp \in Nat
    BY DEF UserRow, ProjectRow, MemberRow
  <1>5. /\ None \notin UserRow \cup RowWrite(Users, UserRow)
        /\ None \notin ProjectRow \cup RowWrite(Projects, ProjectRow)
        /\ None \notin MemberRow \cup RowWrite(Members, MemberRow)
    BY NoneAssumption
  <1>6. /\ Current(project, r.put.project) /\ Current(member, r.put.member)
        /\ Restamps(r.put.project) /\ Restamps(r.put.member)
    BY <1>1 DEF Formed, CollaborationInvariant, LoadedRowsAreCurrent
  <1>7. /\ Unchanged(user, w) /\ user' = After(user, w)
        /\ Unchanged(project, r.put.project) /\ project' = After(project, r.put.project)
        /\ Unchanged(member, r.put.member) /\ member' = After(member, r.put.member)
        /\ Unchanged(team, r.put.team) /\ team' = After(team, r.put.team)
    BY DEF Commit, TeamUnchanged
  <1>8. w \in Write(Users, UserRow) /\ Restamps(w) /\ Current(user, w)
    BY UserPutFacts
  <1>9. \A d \in Clients : /\ Current(user, request[d].put.user)
                           /\ Current(project, request[d].put.project)
                           /\ Current(member, request[d].put.member)
    BY DEF CollaborationInvariant, LoadedRowsAreCurrent
  <1>10. user \in [Users -> UserRow \cup {None}] /\ team \in [Teams -> TeamRow \cup {None}]
         /\ project \in [Projects -> ProjectRow \cup {None}]
         /\ member \in [Members -> MemberRow \cup {None}]
    BY <1>1 DEF TypeOK
  <1>11. /\ r.put.project \in Write(Projects, ProjectRow)
         /\ r.put.member \in Write(Members, MemberRow)
         /\ r.put.team \in Write(Teams, TeamRow)
    BY <1>3
  <1>12. /\ user' \in [Users -> UserRow \cup {None}]
         /\ w # None => w.key \in Users /\ user[w.key] = w.from /\ w.to \in UserRow
         /\ \A u \in Users : user'[u] = IF w # None /\ w.key = u THEN w.to ELSE user[u]
         /\ \A x \in Write(Users, UserRow) : Current(user, x) => Current(user', x)
    BY <1>4, <1>5, <1>7, <1>8, <1>10, WriteIsCurrent
  <1>13. /\ project' \in [Projects -> ProjectRow \cup {None}]
         /\ r.put.project # None => /\ r.put.project.key \in Projects
                                    /\ project[r.put.project.key] = r.put.project.from
                                    /\ r.put.project.to \in ProjectRow
         /\ \A p \in Projects : project'[p] =
               IF r.put.project # None /\ r.put.project.key = p
                 THEN r.put.project.to ELSE project[p]
         /\ \A x \in Write(Projects, ProjectRow) : Current(project, x) => Current(project', x)
    BY <1>4, <1>5, <1>6, <1>7, <1>10, <1>11, WriteIsCurrent
  <1>14. /\ member' \in [Members -> MemberRow \cup {None}]
         /\ r.put.member # None => /\ r.put.member.key \in Members
                                   /\ member[r.put.member.key] = r.put.member.from
                                   /\ r.put.member.to \in MemberRow
         /\ \A m \in Members : member'[m] =
               IF r.put.member # None /\ r.put.member.key = m
                 THEN r.put.member.to ELSE member[m]
         /\ \A x \in Write(Members, MemberRow) : Current(member, x) => Current(member', x)
    BY <1>4, <1>5, <1>6, <1>7, <1>10, <1>11, WriteIsCurrent
  <1>15. team' \in [Teams -> TeamRow \cup {None}] /\ \A t \in Teams : LiveTeam(t) => LiveTeam(t)'
    <2>1. r.put.team # None => /\ r.put.team.key \in Teams /\ r.put.team.to \in TeamRow
                               /\ r.put.team.to.live
      BY <1>1, <1>11 DEF Write, RowWrite, Formed
    <2>2. team' \in [Teams -> TeamRow \cup {None}]
          /\ \A t \in Teams : team'[t] = IF r.put.team # None /\ r.put.team.key = t
                                           THEN r.put.team.to ELSE team[t]
      BY <1>7, <1>10, <2>1 DEF After
    <2> QED BY <2>1, <2>2, NoneAssumption DEF LiveTeam
  <1> QED BY <1>3, <1>9, <1>12, <1>13, <1>14, <1>15

\* A commit ends the request; the requests that remain are as they were.
LEMMA CommitRequests ==
    ASSUME CollaborationInvariant, NEW c \in Clients, Commit(c)
    PROVE  TypeOK' /\ LoadedRowsAreCurrent' /\ RequestsAreFormed'
  <1>1. step' = [step EXCEPT ![c] = "idle"] /\ request' = [request EXCEPT ![c] = Blank]
    BY DEF Commit, End
  <1>2. \A d \in Clients : request'[d] = IF d = c THEN Blank ELSE request[d]
    BY <1>1 DEF CollaborationInvariant, TypeOK
  <1>3. TypeOK'
    <2>1. step' \in [Clients -> {"idle", "hashing", "ready", "refused"}]
          /\ request' \in [Clients -> Request]
      BY <1>1, BlankIsFormed DEF CollaborationInvariant, TypeOK
    <2> QED BY <2>1, CommitWrites DEF TypeOK
  <1>4. LoadedRowsAreCurrent'
    <2> SUFFICES ASSUME NEW d \in Clients
                 PROVE  /\ Current(user', request'[d].put.user)
                        /\ Current(project', request'[d].put.project)
                        /\ Current(member', request'[d].put.member)
      BY DEF LoadedRowsAreCurrent, Current
    <2>1. CASE d = c
      <3>1. Blank.put.user = None /\ Blank.put.project = None /\ Blank.put.member = None
        BY DEF Blank, Ask, Put
      <3> QED BY <1>2, <2>1, <3>1 DEF Current
    <2>2. CASE d # c
      BY <1>2, <2>2, CommitWrites
    <2> QED BY <2>1, <2>2
  <1>5. RequestsAreFormed'
    <2> SUFFICES ASSUME NEW d \in Clients PROVE Formed(request'[d])
      BY DEF RequestsAreFormed, Formed, Restamps, AccountWrite, ProjectWrite, MemberWrite
    <2> QED BY <1>2, BlankIsFormed DEF CollaborationInvariant, RequestsAreFormed
  <1> QED BY <1>3, <1>4, <1>5

\* The last super administrator stays one: a request that takes the rights of
\* one is validated after its writes.
LEMMA CommitKeepsSuperAdmin ==
    ASSUME CollaborationInvariant, NEW c \in Clients, Commit(c)
    PROVE  SuperAdminRemains'
  <1> DEFINE r == request[c]
             w == UserPut(r)
  <1>1. /\ w # None => w.key \in Users /\ user[w.key] = w.from /\ w.to \in UserRow
        /\ \A u \in Users : user'[u] = IF w # None /\ w.key = u THEN w.to ELSE user[u]
    BY CommitWrites
  <1>2. /\ \/ w = r.put.user
           \/ /\ r.kind \in {"register", "seed"} /\ w.from = None
              /\ w.to.active /\ w.to.super = NoUsers
        /\ r.kind \in {"register", "seed"} => w.to.super = NoUsers /\ w.to.active
    BY UserPutFacts
  <1>3. r \in Request /\ Formed(r) /\ GuardHolds(r) /\ Validated(r) /\ SuperAdminRemains
    BY DEF CollaborationInvariant, TypeOK, RequestsAreFormed, Commit
  <1>4. CASE w = None
    <2>1. \A u \in Users : user'[u] = user[u]
      BY <1>1, <1>4
    <2> QED BY <1>3, <2>1 DEF SuperAdminRemains, NoUsers, IsSuper, IsActive
  <1>5. CASE w # None /\ NoUsers
    <2>1. w.from = None
      BY <1>1, <1>5 DEF NoUsers
    <2>2. CASE r.kind \in {"register", "seed"}
      <3>1. w.to.active /\ w.to.super
        BY <1>2, <1>5, <2>2
      <3>2. user'[w.key] # None /\ user'[w.key].active /\ user'[w.key].super
        BY <1>1, <1>5, <3>1, NoneAssumption
      <3> QED BY <1>1, <1>5, <3>2 DEF SuperAdminRemains, IsSuper, IsActive
    <2>3. CASE r.kind \notin {"register", "seed"}
      <3>1. w = r.put.user
        BY <1>2, <2>3
      <3>2. AccountWrite(r) /\ r.put.user # None
        BY <1>3, <1>5, <3>1 DEF Formed
      <3>3. r.guard.need = "super" /\ r.guard.actor # None
        BY <2>1, <2>3, <3>1, <3>2 DEF AccountWrite
      <3>4. IsSuper(r.guard.actor)
        BY <1>3, <3>3 DEF GuardHolds, Permitted
      <3>5. r.guard.actor \in Users
        BY <1>3, <3>3 DEF Request, Guard
      <3> QED BY <1>5, <3>4, <3>5 DEF IsSuper, IsActive, NoUsers
    <2> QED BY <2>2, <2>3
  <1>6. CASE w # None /\ ~NoUsers
    <2>1. PICK v \in Users : IsSuper(v)
      BY <1>3, <1>6 DEF SuperAdminRemains
    <2>2. CASE w.key # v
      BY <1>1, <2>1, <2>2 DEF SuperAdminRemains, IsSuper, IsActive
    <2>3. CASE w.key = v /\ IsSuperRow(w.to)
      BY <1>1, <1>6, <2>1, <2>3 DEF SuperAdminRemains, IsSuper, IsActive, IsSuperRow
    <2>4. CASE w.key = v /\ ~IsSuperRow(w.to)
      <3>1. w.from = user[v] /\ IsSuperRow(w.from)
        BY <1>1, <1>6, <2>1, <2>4 DEF IsSuperRow, IsSuper, IsActive
      <3>2. w = r.put.user
        BY <1>2, <3>1 DEF IsSuperRow
      <3>3. LosesSuperAdmin(r)
        BY <1>6, <2>4, <3>1, <3>2 DEF LosesSuperAdmin
      <3> QED BY <1>3, <3>3 DEF Validated, SuperAdminRemains
    <2> QED BY <2>2, <2>3, <2>4
  <1> QED BY <1>4, <1>5, <1>6

\* A project none of whose administrators the request touches keeps them; the
\* others are validated after the writes.
LEMMA CommitKeepsProjectAdmins ==
    ASSUME CollaborationInvariant, NEW c \in Clients, Commit(c)
    PROVE  ProjectsHaveAdmin'
  <1> DEFINE r == request[c]
             w == UserPut(r)
  <1> SUFFICES ASSUME NEW p \in Projects, ActiveProject(p)'
               PROVE  \E u \in Users : Administers(u, p)'
    BY DEF ProjectsHaveAdmin, ActiveProject, Administers, HasAdminRole, IsMember, IsActive
  <1>1. CASE p \in Affected(r)
    BY <1>1 DEF Commit, Validated
  <1>2. CASE p \notin Affected(r)
    <2>1. /\ w # None => user[w.key] = w.from
          /\ \A u \in Users : user'[u] = IF w # None /\ w.key = u THEN w.to ELSE user[u]
      BY CommitWrites
    <2>2. /\ r.put.project # None => project[r.put.project.key] = r.put.project.from
          /\ project'[p] = IF r.put.project # None /\ r.put.project.key = p
                             THEN r.put.project.to ELSE project[p]
      BY CommitWrites
    <2>3. /\ r.put.member # None => /\ member[r.put.member.key] = r.put.member.from
                                    /\ r.put.member.to # None
          /\ \A m \in Members : member'[m] =
                IF r.put.member # None /\ r.put.member.key = m
                  THEN r.put.member.to ELSE member[m]
      BY CommitWrites, NoneAssumption
    <2>4. w = r.put.user \/ w.from = None
      BY UserPutFacts
    <2>5. ActiveProject(p)
      <3>1. CASE r.put.project # None /\ r.put.project.key = p
        <4>1. r.put.project.to.active
          BY <2>2, <3>1 DEF ActiveProject
        <4>2. r.put.project.from # None /\ r.put.project.from.active
          BY <1>2, <3>1, <4>1 DEF Affected, TouchedProjects
        <4> QED BY <2>2, <3>1, <4>2 DEF ActiveProject
      <3>2. CASE ~(r.put.project # None /\ r.put.project.key = p)
        BY <2>2, <3>2 DEF ActiveProject
      <3> QED BY <3>1, <3>2
    <2>6. PICK u \in Users : Administers(u, p)
      BY <2>5 DEF CollaborationInvariant, ProjectsHaveAdmin
    <2>7. <<p, u>> \in Members /\ <<p, u>>[1] = p
      BY DEF Members
    <2>8. HasAdminRole(u, p)'
      <3>1. CASE r.put.member # None /\ r.put.member.key = <<p, u>>
        <4>1. IsAdminRow(r.put.member.from)
          BY <2>3, <2>6, <3>1 DEF Administers, HasAdminRole, IsMember, IsAdminRow
        <4>2. IsAdminRow(r.put.member.to)
          BY <1>2, <2>7, <3>1, <4>1 DEF Affected, TouchedProjects
        <4> QED BY <2>3, <2>7, <3>1, <4>2 DEF HasAdminRole, IsMember, IsAdminRow
      <3>2. CASE ~(r.put.member # None /\ r.put.member.key = <<p, u>>)
        BY <2>3, <2>6, <2>7, <3>2 DEF Administers, HasAdminRole, IsMember
      <3> QED BY <3>1, <3>2
    <2>9. IsActive(u)'
      <3>1. CASE w # None /\ w.key = u
        <4>1. w.from = user[u] /\ user'[u] = w.to /\ w.from # None /\ w.from.active
          BY <2>1, <2>6, <3>1 DEF Administers, IsActive
        <4>2. w = r.put.user
          BY <2>4, <4>1
        <4>3. w.to \in UserRow
          BY <3>1, CommitWrites
        <4>4. w.to.active
          <5>1. u \notin TouchedUsers(r)
            BY <1>2, <2>8 DEF Affected
          <5> HIDE DEF w
          <5>2. w.from.active = w.to.active
            BY <3>1, <4>1, <4>2, <5>1 DEF TouchedUsers
          <5> QED BY <4>1, <5>2
        <4> QED BY <4>1, <4>3, <4>4, NoneAssumption DEF IsActive
      <3>2. CASE ~(w # None /\ w.key = u)
        BY <2>1, <2>6, <3>2 DEF Administers, IsActive
      <3> QED BY <3>1, <3>2
    <2> QED BY <2>8, <2>9 DEF Administers
  <1> QED BY <1>1, <1>2

\* A project comes to a live team, and the team is live at the commit.
LEMMA CommitKeepsTeams ==
    ASSUME CollaborationInvariant, NEW c \in Clients, Commit(c)
    PROVE  ProjectsInLiveTeams'
  <1> DEFINE r == request[c]
             w == r.put.project
  <1> SUFFICES ASSUME NEW p \in Projects, ActiveProject(p)' PROVE LiveTeam(project[p].team)'
    BY DEF ProjectsInLiveTeams, ActiveProject, LiveTeam
  <1>1. /\ w # None => project[w.key] = w.from /\ w.to \in ProjectRow
        /\ project'[p] = IF w # None /\ w.key = p THEN w.to ELSE project[p]
        /\ \A t \in Teams : LiveTeam(t) => LiveTeam(t)'
    BY CommitWrites
  <1>2. r \in Request /\ Formed(r) /\ GuardHolds(r) /\ ProjectsInLiveTeams
    BY DEF CollaborationInvariant, TypeOK, RequestsAreFormed, Commit
  <1>3. project'[p].team \in Teams
    BY CommitWrites DEF ActiveProject, ProjectRow
  <1>4. LiveTeam(project'[p].team)
    <2>1. CASE ~(w # None /\ w.key = p)
      BY <1>1, <1>2, <2>1 DEF ProjectsInLiveTeams, ActiveProject
    <2>2. CASE w # None /\ w.key = p /\ w.from = None
      <3>1. r.guard.inTeam = project'[p].team
        BY <1>1, <1>2, <2>2 DEF Formed, ProjectWrite
      <3>2. r.guard.inTeam # None
        BY <1>3, <3>1, NoneAssumption
      <3> QED BY <1>2, <3>1, <3>2 DEF GuardHolds, TeamHolds
    <2>3. CASE w # None /\ w.key = p /\ w.from # None
      <3>1. w.to.team = w.from.team /\ (w.to.active => w.from.active)
        BY <1>2, <2>3 DEF Formed, ProjectWrite
      <3>2. project[p] = w.from /\ project'[p] = w.to
        BY <1>1, <2>3
      <3>3. ActiveProject(p)
        BY <2>3, <3>1, <3>2 DEF ActiveProject
      <3> QED BY <1>2, <3>1, <3>2, <3>3 DEF ProjectsInLiveTeams
    <2> QED BY <2>1, <2>2, <2>3
  <1> QED BY <1>1, <1>3, <1>4 DEF LiveTeam

LEMMA CommitPreserves ==
    ASSUME CollaborationInvariant, NEW c \in Clients, Commit(c)
    PROVE  CollaborationInvariant'
  BY CommitRequests, CommitKeepsSuperAdmin, CommitKeepsProjectAdmins, CommitKeepsTeams
     DEF CollaborationInvariant

\* A team is archived only when no active project is left in it.
LEMMA CommitArchiveTeamPreserves ==
    ASSUME CollaborationInvariant, NEW c \in Clients, CommitArchiveTeam(c)
    PROVE  CollaborationInvariant'
  <1> DEFINE t == request[c].guard.inTeam
             row == TeamAt(FALSE, team[t].stamp)
  <1>1. UNCHANGED <<user, project, member>> /\ team' = [team EXCEPT ![t] = row]
        /\ step' = [step EXCEPT ![c] = "idle"] /\ request' = [request EXCEPT ![c] = Blank]
    BY DEF CommitArchiveTeam, End
  <1>2. \A d \in Clients : request'[d] = IF d = c THEN Blank ELSE request[d]
    BY <1>1 DEF CollaborationInvariant, TypeOK
  <1>3. t \in Teams /\ LiveTeam(t)
    <2>1. LiveTeam(t) /\ request[c].kind = "archiveTeam" /\ t \in Teams \cup {None}
      BY DEF CommitArchiveTeam, CollaborationInvariant, TypeOK, Request, Guard
    <2>2. t # None
      BY <2>1 DEF CollaborationInvariant, RequestsAreFormed, Formed
    <2> QED BY <2>1, <2>2
  <1>4. team[t] \in TeamRow /\ row \in TeamRow
    BY <1>3 DEF LiveTeam, CollaborationInvariant, TypeOK, TeamRow, TeamAt
  <1>5. TypeOK'
    BY <1>1, <1>3, <1>4, BlankIsFormed DEF CollaborationInvariant, TypeOK
  <1>6. LoadedRowsAreCurrent'
    <2> SUFFICES ASSUME NEW d \in Clients
                 PROVE  /\ Current(user, request'[d].put.user)
                        /\ Current(project, request'[d].put.project)
                        /\ Current(member, request'[d].put.member)
      BY <1>1 DEF LoadedRowsAreCurrent, Current
    <2> QED BY <1>2, BlankIsFormed DEF CollaborationInvariant, LoadedRowsAreCurrent
  <1>7. RequestsAreFormed'
    <2> SUFFICES ASSUME NEW d \in Clients PROVE Formed(request'[d])
      BY DEF RequestsAreFormed, Formed, Restamps, AccountWrite, ProjectWrite, MemberWrite
    <2> QED BY <1>2, BlankIsFormed DEF CollaborationInvariant, RequestsAreFormed
  <1>8. SuperAdminRemains' /\ ProjectsHaveAdmin'
    BY <1>1 DEF CollaborationInvariant, SuperAdminRemains, ProjectsHaveAdmin, NoUsers,
          IsSuper, IsActive, ActiveProject, Administers, HasAdminRole, IsMember
  <1>9. ProjectsInLiveTeams'
    <2> SUFFICES ASSUME NEW p \in Projects, ActiveProject(p) PROVE LiveTeam(project[p].team)'
      BY <1>1 DEF ProjectsInLiveTeams, ActiveProject, LiveTeam
    <2>1. project[p].team # t
      BY DEF CommitArchiveTeam
    <2>2. LiveTeam(project[p].team) /\ project[p].team \in Teams
      BY DEF CollaborationInvariant, ProjectsInLiveTeams, ActiveProject, TypeOK, ProjectRow
    <2>3. project'[p].team = project[p].team /\ team'[project[p].team] = team[project[p].team]
      BY <1>1, <2>1, <2>2 DEF CollaborationInvariant, TypeOK
    <2> QED BY <1>1, <2>2, <2>3 DEF LiveTeam
  <1> QED BY <1>5, <1>6, <1>7, <1>8, <1>9 DEF CollaborationInvariant

\* The command line changes a password and nothing that administers.
LEMMA ResetPreserves ==
    ASSUME CollaborationInvariant, NEW u \in Users, NEW h \in Hashes,
           ResetSuperAdminPassword(u, h)
    PROVE  CollaborationInvariant'
  <1> DEFINE row == Account(TRUE, TRUE, h, user[u].stamp + 1)
  <1>1. user' = [user EXCEPT ![u] = row] /\ UNCHANGED <<team, project, member, step, request>>
        /\ IsSuper(u) /\ user[u] # None
    BY DEF ResetSuperAdminPassword, IsSuper, IsActive
  <1>2. user[u] \in UserRow /\ row \in UserRow /\ row.stamp = user[u].stamp + 1
        /\ row.active /\ row.super
    BY <1>1 DEF CollaborationInvariant, TypeOK, UserRow, Account
  <1> HIDE DEF row
  <1>3. TypeOK'
    BY <1>1, <1>2 DEF CollaborationInvariant, TypeOK
  <1>4. \A v \in Users : user'[v] = IF v = u THEN row ELSE user[v]
    BY <1>1 DEF CollaborationInvariant, TypeOK
  <1>5. LoadedRowsAreCurrent'
    <2> SUFFICES ASSUME NEW d \in Clients, request[d].put.user # None,
                        request[d].put.user.from # None
                 PROVE  LET x == request[d].put.user IN
                        /\ user'[x.key] # None
                        /\ x.from.stamp <= user'[x.key].stamp
                        /\ x.from.stamp = user'[x.key].stamp => user'[x.key] = x.from
      BY <1>1 DEF CollaborationInvariant, LoadedRowsAreCurrent, Current
    <2> DEFINE x == request[d].put.user
    <2>1. x \in RowWrite(Users, UserRow)
      BY DEF CollaborationInvariant, TypeOK, Request, Writes, Write
    <2>2. x.key \in Users /\ x.from \in UserRow
      BY <2>1 DEF RowWrite
    <2>3. Current(user, x)
      BY DEF CollaborationInvariant, LoadedRowsAreCurrent
    <2>4. x.from.stamp \in Nat /\ user[u].stamp \in Nat
      BY <1>2, <2>2 DEF UserRow
    <2>5. x.from.stamp <= user[x.key].stamp /\ user[x.key] # None
          /\ (x.from.stamp = user[x.key].stamp => user[x.key] = x.from)
      BY <2>3 DEF Current
    <2>6. row # None
      BY <1>2, NoneAssumption
    <2> HIDE DEF x
    <2>7. CASE x.key = u
      BY <1>2, <1>4, <2>2, <2>4, <2>5, <2>6, <2>7 DEF x
    <2>8. CASE x.key # u
      BY <1>4, <2>2, <2>5, <2>8 DEF x
    <2> QED BY <2>7, <2>8
  <1>6. RequestsAreFormed'
    <2>1. request' = request /\ \A d \in Clients : Formed(request[d])
      BY <1>1 DEF CollaborationInvariant, RequestsAreFormed
    <2> SUFFICES ASSUME NEW d \in Clients PROVE Formed(request'[d])
      BY DEF RequestsAreFormed, Formed, Restamps, AccountWrite, ProjectWrite, MemberWrite
    <2> QED BY <2>1, Zenon
  <1>7. IsSuper(u)' /\ \A v \in Users : IsActive(v) => IsActive(v)'
    BY <1>2, <1>4, NoneAssumption DEF IsSuper, IsActive
  <1>8. SuperAdminRemains'
    BY <1>7 DEF SuperAdminRemains
  <1>9. ProjectsHaveAdmin' /\ ProjectsInLiveTeams'
    BY <1>1, <1>7 DEF CollaborationInvariant, ProjectsHaveAdmin, ProjectsInLiveTeams,
          ActiveProject, LiveTeam, Administers, HasAdminRole, IsMember
  <1> QED BY <1>3, <1>5, <1>6, <1>8, <1>9 DEF CollaborationInvariant

-----------------------------------------------------------------------------
(* The invariant                                                           *)

LEMMA InitInvariant == Init => CollaborationInvariant
  <1> SUFFICES ASSUME Init PROVE CollaborationInvariant
    OBVIOUS
  <1>1. TypeOK
    BY BlankIsFormed DEF Init, TypeOK
  <1>2. \A c \in Clients : request[c] = Blank
    BY DEF Init
  <1>3. LoadedRowsAreCurrent /\ RequestsAreFormed
    BY <1>2, BlankIsFormed DEF LoadedRowsAreCurrent, RequestsAreFormed
  <1>4. SuperAdminRemains /\ ProjectsHaveAdmin /\ ProjectsInLiveTeams
    BY DEF Init, SuperAdminRemains, NoUsers, ProjectsHaveAdmin, ProjectsInLiveTeams,
          ActiveProject
  <1> QED BY <1>1, <1>3, <1>4 DEF CollaborationInvariant

LEMMA HandlerPreserves ==
    ASSUME CollaborationInvariant, NEW c \in Clients, Handler(c)
    PROVE  CollaborationInvariant'
  <1>1. CASE \E u \in Users, h \in Hashes :
                Register(c, u, h) \/ SeedInitialAdmin(c, u, h) \/ ChangePassword(c, u, h)
    BY <1>1, RegisterPreserves, SeedInitialAdminPreserves, ChangePasswordPreserves
  <1>2. CASE \E u \in Users : Login(c, u)
    BY <1>2, LoginPreserves
  <1>3. CASE \E a, u \in Users, super \in BOOLEAN :
                \/ \E h \in Hashes : CreateUser(c, a, u, super, h)
                \/ \E active \in BOOLEAN : PatchUser(c, a, u, active, super)
    BY <1>3, CreateUserPreserves, PatchUserPreserves
  <1>4. CASE \E a \in Users, t \in Teams :
                CreateTeam(c, a, t) \/ UpdateTeam(c, a, t) \/ ArchiveTeam(c, a, t)
    BY <1>4, TeamHandlersPreserve
  <1>5. CASE \E a, u \in Users, t \in Teams, p \in Projects : CreateProject(c, a, t, p, u)
    BY <1>5, CreateProjectPreserves
  <1>6. CASE \E a \in Users, p \in Projects : UpdateProject(c, a, p) \/ ArchiveProject(c, a, p)
    BY <1>6, PatchProjectPreserves DEF UpdateProject, ArchiveProject
  <1>7. CASE \E a, u \in Users, p \in Projects :
                \/ RemoveProjectMember(c, a, p, u)
                \/ \E role \in Roles : \/ AddProjectMember(c, a, p, u, role)
                                       \/ PatchProjectMemberRole(c, a, p, u, role)
    BY <1>7, MemberHandlersPreserve, RolesAssumption
  <1> QED BY <1>1, <1>2, <1>3, <1>4, <1>5, <1>6, <1>7 DEF Handler

LEMMA StepPreserves == CollaborationInvariant /\ [Next]_vars => CollaborationInvariant'
  <1> SUFFICES ASSUME CollaborationInvariant, [Next]_vars PROVE CollaborationInvariant'
    OBVIOUS
  <1>1. CASE \E c \in Clients : Handler(c) \/ Hashed(c)
    BY <1>1, HandlerPreserves, HashedPreserves
  <1>2. CASE \E c \in Clients : Commit(c) \/ CommitArchiveTeam(c) \/ Reject(c)
    BY <1>2, CommitPreserves, CommitArchiveTeamPreserves, RefusePreserves DEF Reject
  <1>3. CASE \E u \in Users, h \in Hashes : ResetSuperAdminPassword(u, h)
    BY <1>3, ResetPreserves
  <1>4. CASE UNCHANGED vars
    BY <1>4 DEF vars, CollaborationInvariant, TypeOK, LoadedRowsAreCurrent, Current,
          RequestsAreFormed, SuperAdminRemains, ProjectsHaveAdmin, ProjectsInLiveTeams,
          NoUsers, IsSuper, IsActive, ActiveProject, Administers, HasAdminRole, IsMember,
          LiveTeam
  <1> QED BY <1>1, <1>2, <1>3, <1>4 DEF Next

\* In every reachable state what requests have loaded is what is stored or is
\* stale, requests carry the rights they were checked for, and administration
\* is as promised.
THEOREM Invariant == Spec => []CollaborationInvariant
  BY InitInvariant, StepPreserves, PTL DEF Spec

\* Rows, requests and steps stay in their types.
THEOREM TypeCorrect == Spec => []TypeOK
  <1>1. CollaborationInvariant => TypeOK
    BY DEF CollaborationInvariant
  <1> QED BY <1>1, Invariant, PTL

\* Concurrent demotions and deactivations of any number of super
\* administrators leave an active one (PatchUser and its transaction).
THEOREM SuperAdminAlways == Spec => []SuperAdminRemains
  <1>1. CollaborationInvariant => SuperAdminRemains
    BY DEF CollaborationInvariant
  <1> QED BY <1>1, Invariant, PTL

\* An active project has an active administrator at all times, for any number
\* of concurrent demotions, removals and deactivations.
THEOREM ProjectsAlwaysHaveAdmin == Spec => []ProjectsHaveAdmin
  <1>1. CollaborationInvariant => ProjectsHaveAdmin
    BY DEF CollaborationInvariant
  <1> QED BY <1>1, Invariant, PTL

\* No active project is left in an archived team, though a team is archived
\* and projects are created in different transactions.
THEOREM ProjectsAlwaysInLiveTeams == Spec => []ProjectsInLiveTeams
  <1>1. CollaborationInvariant => ProjectsInLiveTeams
    BY DEF CollaborationInvariant
  <1> QED BY <1>1, Invariant, PTL

-----------------------------------------------------------------------------
(* What a step may do                                                      *)

\* Rows change, and requests are accepted, by a transaction or by the command.
LEMMA OnlyTransactionsWrite ==
    ASSUME CollaborationInvariant, [Next]_vars
    PROVE  \/ UNCHANGED rows /\ \A c \in Clients : ~Accepted(c)
           \/ \E c \in Clients : Commit(c)
           \/ \E c \in Clients : CommitArchiveTeam(c)
           \/ \E u \in Users, h \in Hashes : ResetSuperAdminPassword(u, h)
  <1>1. ASSUME NEW c \in Clients, NEW s \in {"hashing", "ready", "refused"}, NEW r, Enter(c, s, r)
        PROVE  UNCHANGED rows /\ \A d \in Clients : ~Accepted(d)
    <2>1. UNCHANGED rows /\ step' = [step EXCEPT ![c] = s]
      BY <1>1 DEF Enter
    <2>2. \A d \in Clients : step'[d] = IF d = c THEN s ELSE step[d]
      BY <2>1 DEF CollaborationInvariant, TypeOK
    <2> QED BY <2>1, <2>2 DEF Accepted
  <1>2. ASSUME NEW c \in Clients, Handler(c)
        PROVE  \E s \in {"hashing", "ready"}, r \in {request'[c]} : Enter(c, s, r)
    <2>1. request \in [Clients -> Request]
      BY DEF CollaborationInvariant, TypeOK
    <2>2. \A s, r : Enter(c, s, r) => request'[c] = r
      BY <2>1 DEF Enter
    <2>3. (\E s \in {"hashing", "ready"} : \E r : Enter(c, s, r))
            => \E s \in {"hashing", "ready"}, r \in {request'[c]} : Enter(c, s, r)
      BY <2>2
    <2> DEFINE Entered == \E s \in {"hashing", "ready"} : \E r : Enter(c, s, r)
    <2>4. ASSUME NEW u \in Users, NEW h \in Hashes,
                 Register(c, u, h) \/ SeedInitialAdmin(c, u, h) \/ ChangePassword(c, u, h)
          PROVE  Entered
      BY <2>4 DEF Register, SeedInitialAdmin, ChangePassword
    <2>5. ASSUME NEW u \in Users, Login(c, u) PROVE Entered
      BY <2>5 DEF Login
    <2>6. ASSUME NEW a \in Users, NEW u \in Users, NEW super \in BOOLEAN, NEW h \in Hashes,
                 CreateUser(c, a, u, super, h)
          PROVE  Entered
      BY <2>6 DEF CreateUser
    <2>7. ASSUME NEW a \in Users, NEW u \in Users, NEW super \in BOOLEAN,
                 NEW active \in BOOLEAN, PatchUser(c, a, u, active, super)
          PROVE  Entered
      BY <2>7 DEF PatchUser
    <2>8. ASSUME NEW a \in Users, NEW t \in Teams,
                 CreateTeam(c, a, t) \/ UpdateTeam(c, a, t) \/ ArchiveTeam(c, a, t)
          PROVE  Entered
      BY <2>8 DEF CreateTeam, UpdateTeam, ArchiveTeam
    <2>9. ASSUME NEW a \in Users, NEW u \in Users, NEW t \in Teams, NEW p \in Projects,
                 CreateProject(c, a, t, p, u)
          PROVE  Entered
      BY <2>9 DEF CreateProject
    <2>10. ASSUME NEW a \in Users, NEW p \in Projects,
                  UpdateProject(c, a, p) \/ ArchiveProject(c, a, p)
           PROVE  Entered
      BY <2>10 DEF UpdateProject, ArchiveProject, PatchProject
    <2>11. ASSUME NEW a \in Users, NEW u \in Users, NEW p \in Projects, NEW role \in Roles,
                  \/ RemoveProjectMember(c, a, p, u) \/ AddProjectMember(c, a, p, u, role)
                  \/ PatchProjectMemberRole(c, a, p, u, role)
           PROVE  Entered
      BY <2>11 DEF RemoveProjectMember, AddProjectMember, PatchProjectMemberRole
    <2> HIDE DEF Entered
    <2>12. Entered
      BY <1>2, <2>4, <2>5, <2>6, <2>7, <2>8, <2>9, <2>10, <2>11, RolesAssumption DEF Handler
    <2> QED BY <2>3, <2>12 DEF Entered
  <1>3. ASSUME NEW c \in Clients, Refuse(c) PROVE Enter(c, "refused", Blank)
    BY <1>3 DEF Refuse, Enter
  <1>4. CASE \E c \in Clients : Handler(c)
    BY <1>1, <1>2, <1>4
  <1>5. CASE \E c \in Clients : Hashed(c) \/ Reject(c)
    <2> PICK c \in Clients : Hashed(c) \/ Reject(c)
      BY <1>5
    <2>1. Refuse(c) \/ Enter(c, "ready", Reloaded(request[c]))
      BY DEF Hashed, Reject
    <2> QED BY <1>1, <1>3, <2>1
  <1>6. CASE UNCHANGED vars
    BY <1>6 DEF vars, rows, Accepted
  <1>7. CASE \/ \E c \in Clients : Commit(c) \/ CommitArchiveTeam(c)
             \/ \E u \in Users, h \in Hashes : ResetSuperAdminPassword(u, h)
    BY <1>7
  <1> QED BY <1>4, <1>5, <1>6, <1>7 DEF Next

\* A commit accepts one request.
LEMMA OneIsAccepted ==
    ASSUME CollaborationInvariant, NEW c \in Clients, Commit(c) \/ CommitArchiveTeam(c)
    PROVE  \A d \in Clients : Accepted(d) <=> d = c
  <1>1. step[c] = "ready" /\ step' = [step EXCEPT ![c] = "idle"]
    BY DEF Commit, CommitArchiveTeam, End
  <1>2. \A d \in Clients : step'[d] = IF d = c THEN "idle" ELSE step[d]
    BY <1>1 DEF CollaborationInvariant, TypeOK
  <1> QED BY <1>1, <1>2 DEF Accepted

LEMMA ResetChanges ==
    ASSUME CollaborationInvariant, NEW u \in Users, NEW h \in Hashes,
           ResetSuperAdminPassword(u, h)
    PROVE  /\ IsSuper(u) /\ UNCHANGED <<team, project, member, step>>
           /\ \A v \in Users : v # u => user'[v] = user[v]
           /\ \A c \in Clients : ~Accepted(c)
  <1>1. UNCHANGED <<team, project, member, step>> /\ IsSuper(u)
    BY DEF ResetSuperAdminPassword
  <1>2. \A v \in Users : v # u => user'[v] = user[v]
    BY DEF ResetSuperAdminPassword, CollaborationInvariant, TypeOK
  <1> QED BY <1>1, <1>2 DEF Accepted

\* An account becomes a super administrator's by the first registration or by
\* one who is a super administrator at the commit.
LEMMA CommitAppoints ==
    ASSUME CollaborationInvariant, NEW c \in Clients, Commit(c), NEW u \in Users,
           ~IsSuper(u), IsSuper(u)'
    PROVE  \/ NoUsers
           \/ request[c].guard.actor # None /\ IsSuper(request[c].guard.actor)
  <1> DEFINE r == request[c]
             w == UserPut(r)
  <1>1. /\ w # None => user[w.key] = w.from
        /\ user'[u] = IF w # None /\ w.key = u THEN w.to ELSE user[u]
    BY CommitWrites
  <1>2. w # None /\ w.key = u /\ user[u] = w.from /\ user'[u] = w.to
    BY <1>1 DEF IsSuper, IsActive
  <1>3. /\ w = r.put.user \/ r.kind \in {"register", "seed"}
        /\ r.kind \in {"register", "seed"} => (w.to.super => NoUsers)
    BY UserPutFacts
  <1>4. Formed(r) /\ GuardHolds(r)
    BY DEF CollaborationInvariant, RequestsAreFormed, Commit
  <1>5. CASE r.kind \in {"register", "seed"}
    BY <1>2, <1>3, <1>5 DEF IsSuper
  <1>6. CASE r.kind \notin {"register", "seed"}
    <2>1. AccountWrite(r) /\ w = r.put.user
      BY <1>2, <1>3, <1>4, <1>6 DEF Formed
    <2>2. CASE r.kind \in {"createUser", "patchUser"}
      BY <1>4, <2>1, <2>2 DEF AccountWrite, GuardHolds, Permitted
    <2>3. CASE r.kind = "changePassword"
      BY <1>2, <2>1, <2>3 DEF AccountWrite, IsSuper, IsActive
    <2> QED BY <1>6, <2>1, <2>2, <2>3 DEF AccountWrite
  <1> QED BY <1>5, <1>6

\* Only the first user and those whom a super administrator appoints become
\* super administrators, whatever the requests that were loaded meanwhile.
THEOREM OnlyAppointed == Spec => SuperAdminsAreAppointed
  <1> DEFINE Body == \A u \in Users : ~IsSuper(u) /\ IsSuper(u)' =>
                        \/ NoUsers
                        \/ \E c \in Clients : Accepted(c) /\ request[c].guard.actor # None
                                                 /\ IsSuper(request[c].guard.actor)
  <1>1. CollaborationInvariant /\ [Next]_vars => [Body]_vars
    <2> SUFFICES ASSUME CollaborationInvariant, [Next]_vars, NEW u \in Users,
                        ~IsSuper(u), IsSuper(u)'
                 PROVE  \/ NoUsers
                        \/ \E c \in Clients : Accepted(c) /\ request[c].guard.actor # None
                                                 /\ IsSuper(request[c].guard.actor)
      OBVIOUS
    <2>1. CASE UNCHANGED user
      BY <2>1 DEF IsSuper, IsActive
    <2>2. CASE \E c \in Clients : Commit(c)
      BY <2>2, CommitAppoints, OneIsAccepted
    <2>3. CASE \E c \in Clients : CommitArchiveTeam(c)
      BY <2>1, <2>3 DEF CommitArchiveTeam
    <2>4. CASE \E v \in Users, h \in Hashes : ResetSuperAdminPassword(v, h)
      BY <2>4, ResetChanges DEF IsSuper, IsActive
    <2> QED BY <2>1, <2>2, <2>3, <2>4, OnlyTransactionsWrite DEF rows
  <1> HIDE DEF Body
  <1>2. Spec => [][Body]_vars
    BY <1>1, Invariant, PTL DEF Spec
  <1> QED BY <1>2, PTL DEF SuperAdminsAreAppointed, Body

\* A commit that changes a project or a membership has the rights it needs.
LEMMA CommitIsAuthorised ==
    ASSUME CollaborationInvariant, NEW c \in Clients, Commit(c), NEW p \in Projects,
           \/ project'[p] # project[p]
           \/ \E u \in Users : member'[<<p, u>>] # member[<<p, u>>]
    PROVE  /\ request[c].guard.actor # None
           /\ IF project[p] = None THEN IsSuper(request[c].guard.actor)
                                   ELSE /\ Manages(request[c].guard.actor, p)
                                        /\ project[p].active
  <1> DEFINE r == request[c]
             w == r.put.project
             x == r.put.member
  <1>1. Formed(r) /\ GuardHolds(r)
    BY DEF CollaborationInvariant, RequestsAreFormed, Commit
  <1>2. /\ w # None => project[w.key] = w.from
        /\ project'[p] = IF w # None /\ w.key = p THEN w.to ELSE project[p]
        /\ \A m \in Members : member'[m] = IF x # None /\ x.key = m THEN x.to ELSE member[m]
    BY CommitWrites
  <1>3. \/ w # None /\ w.key = p
        \/ x # None /\ x.key[1] = p
    <2>1. CASE project'[p] # project[p]
      BY <1>2, <2>1
    <2>2. ASSUME NEW u \in Users, member'[<<p, u>>] # member[<<p, u>>]
          PROVE  x # None /\ x.key[1] = p
      <3>1. <<p, u>> \in Members /\ <<p, u>>[1] = p
        BY DEF Members
      <3> QED BY <1>2, <2>2, <3>1
    <2> QED BY <2>1, <2>2
  <1>4. r.guard.need = "super" => IsSuper(r.guard.actor)
    BY <1>1 DEF GuardHolds, Permitted
  <1>5. r.guard.need = "admin" /\ r.guard.inProject = p =>
           Manages(r.guard.actor, p) /\ ActiveProject(p)
    BY <1>1, NoneAssumption DEF GuardHolds, Permitted
  <1>6. CASE w # None /\ w.key = p
    BY <1>1, <1>2, <1>4, <1>5, <1>6 DEF Formed, ProjectWrite, ActiveProject
  <1>7. CASE x # None /\ x.key[1] = p
    <2>1. MemberWrite(r) /\ r.guard.actor # None
      BY <1>1, <1>7 DEF Formed
    <2>2. CASE r.guard.need = "super" /\ w # None /\ w.from = None /\ w.key = p
      BY <1>2, <1>4, <2>1, <2>2
    <2>3. CASE r.guard.need = "admin" /\ r.guard.inProject = p
      BY <1>5, <2>1, <2>3 DEF ActiveProject
    <2> QED BY <1>7, <2>1, <2>2, <2>3 DEF MemberWrite
  <1> QED BY <1>3, <1>6, <1>7

\* Projects and memberships change only by those who manage them at the commit.
THEOREM AlwaysAuthorised == Spec => ProjectChangesAuthorised
  <1> DEFINE Changes(p) == \/ project'[p] # project[p]
                           \/ \E u \in Users : member'[<<p, u>>] # member[<<p, u>>]
             Authorised(p) == \E c \in Clients :
                /\ Accepted(c) /\ request[c].guard.actor # None
                /\ IF project[p] = None THEN IsSuper(request[c].guard.actor)
                                        ELSE /\ Manages(request[c].guard.actor, p)
                                             /\ project[p].active
             Body == \A p \in Projects : Changes(p) => Authorised(p)
  <1>1. CollaborationInvariant /\ [Next]_vars => [Body]_vars
    <2> SUFFICES ASSUME CollaborationInvariant, [Next]_vars, NEW p \in Projects, Changes(p)
                 PROVE  Authorised(p)
      OBVIOUS
    <2>1. ~UNCHANGED <<project, member>>
      OBVIOUS
    <2>2. CASE \E c \in Clients : Commit(c)
      BY <2>2, CommitIsAuthorised, OneIsAccepted
    <2>3. CASE \E c \in Clients : CommitArchiveTeam(c)
      BY <2>1, <2>3 DEF CommitArchiveTeam
    <2>4. CASE \E v \in Users, h \in Hashes : ResetSuperAdminPassword(v, h)
      BY <2>1, <2>4 DEF ResetSuperAdminPassword
    <2> QED BY <2>1, <2>2, <2>3, <2>4, OnlyTransactionsWrite DEF rows
  <1> HIDE DEF Body
  <1>2. Spec => [][Body]_vars
    BY <1>1, Invariant, PTL DEF Spec
  <1> QED BY <1>2, PTL DEF ProjectChangesAuthorised, Body

\* A commit replaces the hash of an account only with its holder's proof.
LEMMA CommitKeepsPassword ==
    ASSUME CollaborationInvariant, NEW c \in Clients, Commit(c), NEW u \in Users,
           user[u] # None, user'[u] # None, user'[u].hash # user[u].hash
    PROVE  /\ request[c].kind = "changePassword"
           /\ request[c].guard.actor = u
           /\ request[c].guard.proven = user[u].hash
  <1> DEFINE r == request[c]
             w == UserPut(r)
  <1>1. w # None /\ w.key = u /\ user[u] = w.from /\ user'[u] = w.to
    BY CommitWrites
  <1>2. w = r.put.user
    BY <1>1, UserPutFacts
  <1>3. AccountWrite(r) /\ GuardHolds(r)
    BY <1>1, <1>2 DEF CollaborationInvariant, RequestsAreFormed, Formed, Commit
  <1> HIDE DEF w
  <1>4. r.kind = "changePassword" /\ r.guard.actor = r.put.user.key /\ r.guard.proven # None
    BY <1>1, <1>2, <1>3 DEF AccountWrite
  <1>5. user[r.guard.actor].hash = r.guard.proven
    BY <1>3, <1>4 DEF GuardHolds, PasswordHolds
  <1> QED BY <1>1, <1>2, <1>4, <1>5

\* No edit of an account brings an earlier password back.
THEOREM PasswordsStay == Spec => PasswordsAreNotUndone
  <1> DEFINE Justified(u) ==
                \/ IsSuper(u) /\ UNCHANGED step
                \/ \E c \in Clients : /\ Accepted(c)
                                      /\ request[c].kind = "changePassword"
                                      /\ request[c].guard.actor = u
                                      /\ request[c].guard.proven = user[u].hash
             Body == \A u \in Users :
                user[u] # None /\ user'[u] # None /\ user'[u].hash # user[u].hash => Justified(u)
  <1>1. CollaborationInvariant /\ [Next]_vars => [Body]_vars
    <2> SUFFICES ASSUME CollaborationInvariant, [Next]_vars, NEW u \in Users,
                        user[u] # None, user'[u] # None, user'[u].hash # user[u].hash
                 PROVE  Justified(u)
      OBVIOUS
    <2>1. ~UNCHANGED user
      OBVIOUS
    <2>2. CASE \E c \in Clients : Commit(c)
      BY <2>2, CommitKeepsPassword, OneIsAccepted
    <2>3. CASE \E c \in Clients : CommitArchiveTeam(c)
      BY <2>1, <2>3 DEF CommitArchiveTeam
    <2>4. CASE \E v \in Users, h \in Hashes : ResetSuperAdminPassword(v, h)
      BY <2>4, ResetChanges
    <2> QED BY <2>1, <2>2, <2>3, <2>4, OnlyTransactionsWrite DEF rows
  <1> HIDE DEF Body
  <1>2. Spec => [][Body]_vars
    BY <1>1, Invariant, PTL DEF Spec
  <1> QED BY <1>2, PTL DEF PasswordsAreNotUndone, Body

\* A login is recorded with the password that was verified, or not at all.
THEOREM LoginsUseCurrentPasswords == Spec => LoginsAreCurrent
  <1> DEFINE Body == \A c \in Clients :
                Accepted(c) /\ request[c].kind = "login" =>
                   LET u == request[c].guard.actor IN
                   IsActive(u) /\ user[u].hash = request[c].guard.proven
  <1>1. CollaborationInvariant /\ [Next]_vars => [Body]_vars
    <2> SUFFICES ASSUME CollaborationInvariant, [Next]_vars, NEW c \in Clients,
                        Accepted(c), request[c].kind = "login"
                 PROVE  /\ IsActive(request[c].guard.actor)
                        /\ user[request[c].guard.actor].hash = request[c].guard.proven
      OBVIOUS
    <2>1. CASE Commit(c)
      <3>1. GuardHolds(request[c]) /\ Formed(request[c])
        BY <2>1 DEF Commit, CollaborationInvariant, RequestsAreFormed
      <3>2. request[c].guard.need = "authenticated" /\ request[c].guard.proven # None
        BY <3>1 DEF Formed
      <3> QED BY <3>1, <3>2 DEF GuardHolds, Permitted, PasswordHolds
    <2>2. ~CommitArchiveTeam(c)
      BY DEF CommitArchiveTeam
    <2>3. Commit(c) \/ CommitArchiveTeam(c)
      BY OnlyTransactionsWrite, OneIsAccepted, ResetChanges
    <2> QED BY <2>1, <2>2, <2>3
  <1> HIDE DEF Body
  <1>2. Spec => [][Body]_vars
    BY <1>1, Invariant, PTL DEF Spec
  <1> QED BY <1>2, PTL DEF LoginsAreCurrent, Body

\* An archived team or project stays archived.
LEMMA CommitKeepsArchived ==
    ASSUME CollaborationInvariant, NEW c \in Clients, Commit(c)
    PROVE  /\ \A t \in Teams : team[t] # None /\ ~team[t].live => ~LiveTeam(t)'
           /\ \A p \in Projects :
                 project[p] # None /\ ~project[p].active => ~ActiveProject(p)'
  <1> DEFINE r == request[c]
             w == r.put.project
             x == r.put.team
  <1>1. Formed(r) /\ TeamUnchanged(r) /\ team' = After(team, x)
    BY DEF CollaborationInvariant, RequestsAreFormed, Commit
  <1>2. ASSUME NEW t \in Teams, team[t] # None, ~team[t].live PROVE ~LiveTeam(t)'
    <2>1. ~(x # None /\ x.key = t)
      BY <1>1, <1>2 DEF TeamUnchanged, Unchanged
    <2>2. team'[t] = team[t]
      BY <1>1, <2>1 DEF After, CollaborationInvariant, TypeOK
    <2> QED BY <1>2, <2>2 DEF LiveTeam
  <1>3. ASSUME NEW p \in Projects, project[p] # None, ~project[p].active
        PROVE  ~ActiveProject(p)'
    <2>1. /\ w # None => project[w.key] = w.from
          /\ project'[p] = IF w # None /\ w.key = p THEN w.to ELSE project[p]
      BY CommitWrites
    <2>2. CASE w # None /\ w.key = p
      <3>1. ProjectWrite(r) /\ w.from = project[p]
        BY <1>1, <2>1, <2>2 DEF Formed
      <3>2. w.to.active => w.from.active
        BY <1>3, <3>1 DEF ProjectWrite
      <3> QED BY <1>3, <2>1, <2>2, <3>1, <3>2 DEF ActiveProject
    <2>3. CASE ~(w # None /\ w.key = p)
      BY <1>3, <2>1, <2>3 DEF ActiveProject
    <2> QED BY <2>2, <2>3
  <1> QED BY <1>2, <1>3

\* An edit that was loaded before an archival does not undo it.
THEOREM ArchivedForGood == Spec => ArchivedIsFinal
  <1> DEFINE Body == /\ \A t \in Teams : team[t] # None /\ ~team[t].live => ~LiveTeam(t)'
                     /\ \A p \in Projects :
                           project[p] # None /\ ~project[p].active => ~ActiveProject(p)'
  <1>1. CollaborationInvariant /\ [Next]_vars => [Body]_vars
    <2> SUFFICES ASSUME CollaborationInvariant, [Next]_vars PROVE Body
      OBVIOUS
    <2>1. CASE UNCHANGED <<team, project>>
      BY <2>1 DEF LiveTeam, ActiveProject
    <2>2. CASE \E c \in Clients : Commit(c)
      BY <2>2, CommitKeepsArchived
    <2>3. CASE \E c \in Clients : CommitArchiveTeam(c)
      <3> PICK c \in Clients : CommitArchiveTeam(c)
        BY <2>3
      <3>1. UNCHANGED project /\ team' = [team EXCEPT ![request[c].guard.inTeam] =
                                 TeamAt(FALSE, team[request[c].guard.inTeam].stamp)]
        BY DEF CommitArchiveTeam
      <3>2. \A t \in Teams : team'[t] = team[t] \/ ~team'[t].live
        BY <3>1 DEF CollaborationInvariant, TypeOK, TeamAt
      <3> QED BY <3>1, <3>2 DEF LiveTeam, ActiveProject
    <2>4. CASE \E v \in Users, h \in Hashes : ResetSuperAdminPassword(v, h)
      BY <2>1, <2>4, ResetChanges
    <2> QED BY <2>1, <2>2, <2>3, <2>4, OnlyTransactionsWrite DEF rows
  <1> HIDE DEF Body
  <1>2. Spec => [][Body]_vars
    BY <1>1, Invariant, PTL DEF Spec
  <1> QED BY <1>2, PTL DEF ArchivedIsFinal, Body

=============================================================================
