------------------------------ MODULE Workspace -------------------------------
(***************************************************************************)
(* The rows that shares, tokens and conversations depend on: who is active *)
(* and has which role in the project, what of it is archived, what each    *)
(* branch has published, and the clock.  DocumentWorkflow and              *)
(* Collaboration model the requests that change these rows; here each      *)
(* change is one event that may fall between any two steps of a request.   *)
(*                                                                         *)
(* There is one project with one document; a version is known by its       *)
(* branch and its number.                                                  *)
(***************************************************************************)
EXTENDS Naturals

CONSTANTS
    Users,
    Supers,      \* users who are super administrators
    Branches,    \* branches of the document
    Clients,     \* requests that run at the same time
    Workloads,   \* which requests and events a behaviour is made of
    NewRoles,    \* roles that memberships are changed to, 0 to end one
    None,        \* no row, no value
    MaxVersions, \* bound: versions of a branch
    MaxTime,     \* bound: the clock
    MaxEvents    \* bound: events of a behaviour

ASSUME WorkspaceAssumption ==
    /\ Supers \subseteq Users /\ NewRoles \subseteq 0 .. 3
    /\ MaxVersions \in Nat \ {0} /\ MaxTime \in Nat /\ MaxEvents \in Nat

VARIABLES
    active,      \* users whose status is active
    role,        \* project_members: 0 for no active membership
    archived,    \* "project", "document" and branches
    published,   \* the number of versions of each branch
    now,         \* time
    events,      \* events so far
    workload,    \* the kinds of requests and events of this behaviour
    call         \* where each client's request is

rows == <<active, role, archived, published, now, events>>

Reader == 1
Writer == 2
Admin == 3
Places == {"project", "document"} \cup Branches
Times == 0 .. MaxTime
Numbers == 1 .. MaxVersions

Idle == [kind |-> "none", step |-> "idle"]

WorkspaceTypeOK ==
    /\ active \subseteq Users
    /\ role \in [Users -> 0 .. Admin]
    /\ archived \subseteq Places
    /\ published \in [Branches -> 0 .. MaxVersions]
    /\ now \in Times
    /\ events \in 0 .. MaxEvents
    /\ workload \in Workloads
    /\ DOMAIN call = Clients

\* Everyone is active and administers the project, which has published once;
\* super administrators take part where the workload says so.
WorkspaceInit ==
    /\ workload \in Workloads
    /\ active = {u \in Users : u \in Supers => "supers" \in workload}
    /\ role = [u \in Users |-> Admin]
    /\ archived = {}
    /\ published = [b \in Branches |-> 1]
    /\ now = 0
    /\ events = 0
    /\ call = [c \in Clients |-> Idle]

-----------------------------------------------------------------------------
(* Rights and parents                                                      *)

IsActive(u) == u \in active
HasRole(u, least) == IsActive(u) /\ (u \in Supers \/ role[u] >= least)
CanRead(u) == HasRole(u, Reader)
CanDraft(u) == HasRole(u, Writer)
CanPublish(u) == HasRole(u, Admin)
IsSuper(u) == IsActive(u) /\ u \in Supers

LiveDocument == archived \cap {"project", "document"} = {}
Live(b) == LiveDocument /\ b \notin archived

\* The mutation guard of a transaction, but for its parts on tokens and shares.
Needs == {"authenticated", "reader", "writer", "admin", "super"}
Permitted(u, need) ==
    CASE need = "authenticated" -> IsActive(u)
      [] need = "reader" -> CanRead(u)
      [] need = "writer" -> CanDraft(u)
      [] need = "admin" -> CanPublish(u)
      [] need = "super" -> IsSuper(u)

-----------------------------------------------------------------------------
(* Events                                                                  *)

Event(kind) ==
    /\ kind \in workload
    /\ events < MaxEvents
    /\ events' = events + 1
    /\ UNCHANGED <<workload, call>>

\* A super administrator deactivates an account, or activates it again.
SwitchAccount(u) ==
    /\ Event("accounts")
    /\ active' = IF u \in active THEN active \ {u} ELSE active \cup {u}
    /\ UNCHANGED <<role, archived, published, now>>

\* A project administrator changes a role or ends a membership.
ChangeRole(u, r) ==
    /\ Event("roles")
    /\ role[u] # r
    /\ role' = [role EXCEPT ![u] = r]
    /\ UNCHANGED <<active, archived, published, now>>

\* Nothing that is archived becomes active again.
Archive(p) ==
    /\ Event("archive")
    /\ p \notin archived
    /\ archived' = archived \cup {p}
    /\ UNCHANGED <<active, role, published, now>>

Publish(b) ==
    /\ Event("publish")
    /\ Live(b)
    /\ published[b] < MaxVersions
    /\ published' = [published EXCEPT ![b] = @ + 1]
    /\ UNCHANGED <<active, role, archived, now>>

Tick ==
    /\ Event("time")
    /\ now < MaxTime
    /\ now' = now + 1
    /\ UNCHANGED <<active, role, archived, published>>

WorkspaceEvent ==
    \/ \E u \in Users : SwitchAccount(u) \/ \E r \in NewRoles : ChangeRole(u, r)
    \/ \E p \in Places : Archive(p)
    \/ \E b \in Branches : Publish(b)
    \/ Tick

-----------------------------------------------------------------------------
(* Requests                                                                *)

\* A client that waits for nothing makes another request.
Free(c, kind) == kind \in workload /\ call[c] = Idle
At(c, kinds, s) == call[c].kind \in kinds /\ call[c].step = s

Enter(c, r) == call' = [call EXCEPT ![c] = r]
Go(c, s) == call' = [call EXCEPT ![c].step = s]
Leave(c) == call' = [call EXCEPT ![c] = Idle]

=============================================================================
