-------------------------- MODULE DocumentWorkflow --------------------------
(***************************************************************************)
(* Drafts, review and publication of one document, as several Vdoc         *)
(* processes run them against one PostgreSQL database and one object       *)
(* store.                                                                  *)
(*                                                                         *)
(* A process (services/vdoc.Store) serves one request at a time under its  *)
(* mutex.  A request first reloads the committed rows (refreshLocked) and  *)
(* checks everything against them, then uploads objects under keys no      *)
(* other attempt uses, then writes its rows in one transaction.  The       *)
(* transaction re-validates the request's MutationGuard and compares       *)
(* updated_at of the rows it replaces, because other processes commit in   *)
(* the window between the reload and the transaction.  When the            *)
(* transaction fails, the attempt's objects are deleted, unless the        *)
(* outcome of the commit is unknown.                                       *)
(*                                                                         *)
(* StoreCache.tla shows why the rows a request checks after refreshLocked  *)
(* are the committed ones; here a request reads them directly.             *)
(***************************************************************************)
EXTENDS Integers, Sequences, FiniteSets

CONSTANTS
    Instances,      \* Vdoc processes
    Actors,         \* users of the project
    Roles,          \* what project membership may give an actor
    Branches,       \* branches of the document
    DefaultBranch,  \* the branch the document was created with as default
    DraftIds,       \* ids GenerateID can return for a draft
    Names,          \* version names
    Contents,       \* normalized contents (their hashes)
    None,           \* absent row, absent request
    Skew,           \* how far a process's clock may lag, in publications
    Faults,         \* faults the environment may inject
    MaxAttempts,    \* bound: uploads begun
    MaxStamp,       \* bound: writes of one draft row
    MaxRounds,      \* bound: submissions of one draft
    MaxDocStamp     \* bound: writes of the document row

FaultKinds == {"put", "delete", "rollback", "unknown", "crash"}

ASSUME RolesAssumption == Roles \subseteq {"none", "writer", "admin"}
ASSUME DefaultBranchAssumption == DefaultBranch \in Branches
ASSUME SkewAssumption == Skew \in Nat
ASSUME FaultsAssumption == Faults \subseteq FaultKinds

VARIABLES
    role,         \* project_members joined with users: what an actor may do
    document,     \* the document row
    branch,       \* status of each branch row
    draft,        \* draft rows
    history,      \* version rows of each branch in the order they committed
    ledger,       \* keys recorded in vdoc_schema_objects
    objects,      \* keys present in the object store
    seen,         \* the snapshot of each draft a client last loaded
    step,         \* where each process's current request is
    work,         \* each process's current request
    nextAttempt   \* next unused upload path

database == <<role, document, branch, draft, history, ledger>>
process == <<step, work, nextAttempt>>
vars == <<role, document, branch, draft, history, ledger,
          objects, seen, step, work, nextAttempt>>

-----------------------------------------------------------------------------
(* Objects: an attempt writes below a random path of its own; attempt n    *)
(* stands for that path.                                                   *)

Key == Nat \X {"raw", "normalized", "diff"}

DraftKeys(attempt) == {<<attempt, "raw">>, <<attempt, "normalized">>}

VersionKeys(version) ==
    DraftKeys(version.id) \cup
        (IF version.prev = 0 THEN {} ELSE {<<version.id, "diff">>})

-----------------------------------------------------------------------------
(* Rows                                                                    *)

Status == {"draft", "submitted", "changes-requested", "rejected", "published"}

\* stamp is updated_at, round is submitted_at, attempt the path of the content.
DraftRow == [status : Status, branch : Branches, name : Names,
             content : Contents, stamp : Nat \ {0}, round : Nat,
             attempt : Nat]

\* What a client holds after loading a draft: the fields of Revision and
\* ReviewRevision, the baseline being the latest version of the branch.
Snapshot == [status : Status, name : Names, content : Contents,
             round : Nat, base : Nat]

\* A version is identified by the attempt that uploaded it.  base is
\* ExpectedBaseVersionID, prev the version its stored diff starts from, path
\* the document row its relative path was taken from, view what the reviewer
\* had loaded.
Version == [id : Nat, draft : DraftIds, name : Names, content : Contents,
            at : Int, base : Nat, prev : Nat, path : Nat, by : Actors,
            view : Snapshot]

\* version is None unless the request publishes, loaded the snapshot an edit
\* or a review refers to.  scope holds the branches of the MutationGuard,
\* stamp the updated_at it expects (0: a new row).
Request == [actor : Actors, need : {"writer", "admin"},
            scope : SUBSET Branches, draft : DraftIds, row : DraftRow,
            stamp : Nat, loaded : Snapshot \cup {None}, keys : SUBSET Key,
            version : Version \cup {None}]

ASSUME NoneAssumption ==
    None \notin DraftRow \cup Snapshot \cup Version \cup Request

TypeOK ==
    /\ role \in [Actors -> Roles]
    /\ document \in [active : BOOLEAN, stamp : Nat]
    /\ branch \in [Branches -> {"active", "archived"}]
    /\ draft \in [DraftIds -> DraftRow \cup {None}]
    /\ history \in [Branches -> Seq(Version)]
    /\ ledger \subseteq Key
    /\ objects \subseteq Key
    /\ seen \in [DraftIds -> Snapshot \cup {None}]
    /\ step \in [Instances -> {"idle", "upload", "commit", "cleanup"}]
    /\ work \in [Instances -> Request \cup {None}]
    /\ nextAttempt \in Nat \ {0}

Init ==
    /\ role \in [Actors -> Roles]
    /\ document = [active |-> TRUE, stamp |-> 1]
    /\ branch = [b \in Branches |-> "active"]
    /\ draft = [d \in DraftIds |-> None]
    /\ history = [b \in Branches |-> <<>>]
    /\ ledger = {}
    /\ objects = {}
    /\ seen = [d \in DraftIds |-> None]
    /\ step = [i \in Instances |-> "idle"]
    /\ work = [i \in Instances |-> None]
    /\ nextAttempt = 1

-----------------------------------------------------------------------------
(* The latest version of a branch is the one published last by the         *)
(* publishing process's clock, ties going to the larger id.                *)

Before(v, w) == v.at < w.at \/ (v.at = w.at /\ v.id < w.id)

Newest(versions) ==
    CHOOSE v \in versions : \A w \in versions : w = v \/ Before(w, v)

VersionsOf(b) == {history[b][k] : k \in DOMAIN history[b]}

LatestId(b) == IF history[b] = <<>> THEN 0 ELSE Newest(VersionsOf(b)).id

\* The id of the version before a new one stamped at.
PreviousId(b, at, id) ==
    LET older == {v \in VersionsOf(b) : v.at < at \/ (v.at = at /\ v.id < id)}
    IN  IF older = {} THEN 0 ELSE Newest(older).id

ChangedFromLatest(b, content) ==
    history[b] # <<>> => Newest(VersionsOf(b)).content # content

NameAvailable(b, name) == \A v \in VersionsOf(b) : v.name # name

\* time.Now() of the publishing process, in publications of the branch.
ClockReadings(b) == {Len(history[b]) + 1 - lag : lag \in 0..Skew}

CanDraft(a) == role[a] \in {"writer", "admin"}
CanPublish(a) == role[a] = "admin"

ContextActive(b) == document.active /\ branch[b] = "active"

WriterCanChange(d) == draft[d].status \in {"draft", "changes-requested"}

SnapshotOf(d) ==
    [status |-> draft[d].status, name |-> draft[d].name,
     content |-> draft[d].content, round |-> draft[d].round,
     base |-> LatestId(draft[d].branch)]

\* expected_revision of an edit: Revision leaves rounds and baselines out.
RevisionUnchanged(d) ==
    /\ seen[d] # None
    /\ seen[d].status = draft[d].status
    /\ seen[d].name = draft[d].name
    /\ seen[d].content = draft[d].content

\* Variant of ReviewUnchanged that leaves submitted_at out of the revision.
ReviewUnchangedInAnyRound(d) ==
    /\ seen[d] # None
    /\ [seen[d] EXCEPT !.round = 0] = [SnapshotOf(d) EXCEPT !.round = 0]

\* expected_review_revision of a review.
ReviewUnchanged(d) == seen[d] = SnapshotOf(d)

-----------------------------------------------------------------------------
(* Requests: reload, check, and prepare the rows the transaction writes.   *)

Begin(i, request) ==
    /\ step[i] = "idle"
    /\ work' = [work EXCEPT ![i] = request]
    /\ step' = [step EXCEPT ![i] = IF request.keys = {} THEN "commit"
                                                        ELSE "upload"]
    /\ nextAttempt' = IF request.keys = {} THEN nextAttempt ELSE nextAttempt + 1
    /\ UNCHANGED <<role, document, branch, draft, history, ledger, objects, seen>>

\* A request that writes draft row `row' over the row loaded now.
Rewrite(a, need, d, row, loaded, keys) ==
    [actor |-> a, need |-> need, scope |-> {}, draft |-> d, row |-> row,
     stamp |-> draft[d].stamp, loaded |-> loaded, keys |-> keys,
     version |-> None]

FreshDraftId(d) ==
    draft[d] = None /\ \A i \in Instances : work[i] # None => work[i].draft # d

NewDraft(i, a, need, scope, d, b, name, content) ==
    /\ FreshDraftId(d)
    /\ nextAttempt <= MaxAttempts
    /\ ChangedFromLatest(b, content)
    /\ NameAvailable(b, name)
    /\ Begin(i, [actor |-> a, need |-> need, scope |-> scope, draft |-> d,
                 row |-> [status |-> "draft", branch |-> b, name |-> name,
                          content |-> content, stamp |-> 1, round |-> 0,
                          attempt |-> nextAttempt],
                 stamp |-> 0, loaded |-> None,
                 keys |-> DraftKeys(nextAttempt), version |-> None])

CreateDraft(i, a, d, b, name, content) ==
    /\ CanDraft(a)
    /\ ContextActive(b)
    /\ NewDraft(i, a, "writer", {b}, d, b, name, content)

PromoteDraft(i, a, d, from, to, name) ==
    /\ CanPublish(a)
    /\ from # to
    /\ ContextActive(from) /\ ContextActive(to)
    /\ history[from] # <<>>
    /\ NewDraft(i, a, "admin", {from, to}, d, to, name,
                Newest(VersionsOf(from)).content)

\* Content objects are uploaded again unless the edit changes nothing.
UpdateDraft(i, a, d, name, content) ==
    /\ CanDraft(a)
    /\ draft[d] # None
    /\ draft[d].stamp < MaxStamp
    /\ ContextActive(draft[d].branch)
    /\ WriterCanChange(d)
    /\ RevisionUnchanged(d)
    /\ NameAvailable(draft[d].branch, name)
    /\ ChangedFromLatest(draft[d].branch, content)
    /\ LET edited == [draft[d] EXCEPT !.status = "draft", !.name = name,
                                      !.content = content, !.stamp = @ + 1]
           unchanged == /\ draft[d].status = "draft"
                        /\ draft[d].name = name
                        /\ draft[d].content = content
       IN  \/ /\ unchanged
              /\ Begin(i, Rewrite(a, "writer", d, edited, seen[d], {}))
           \/ /\ ~unchanged
              /\ nextAttempt <= MaxAttempts
              /\ Begin(i, Rewrite(a, "writer", d,
                                  [edited EXCEPT !.attempt = nextAttempt],
                                  seen[d], DraftKeys(nextAttempt)))

SubmitDraft(i, a, d) ==
    /\ CanDraft(a)
    /\ draft[d] # None
    /\ draft[d].stamp < MaxStamp /\ draft[d].round < MaxRounds
    /\ ContextActive(draft[d].branch)
    /\ WriterCanChange(d)
    /\ NameAvailable(draft[d].branch, draft[d].name)
    /\ Begin(i, Rewrite(a, "writer", d,
                        [draft[d] EXCEPT !.status = "submitted",
                                         !.round = @ + 1, !.stamp = @ + 1],
                        None, {}))

Reviewable(a, d) ==
    /\ CanPublish(a)
    /\ draft[d] # None
    /\ draft[d].stamp < MaxStamp
    /\ ContextActive(draft[d].branch)
    /\ ReviewUnchanged(d)
    /\ draft[d].status = "submitted"

ReturnDraft(i, a, d, verdict) ==
    /\ Reviewable(a, d)
    /\ Begin(i, Rewrite(a, "admin", d,
                        [draft[d] EXCEPT !.status = verdict, !.stamp = @ + 1],
                        seen[d], {}))

ApproveDraft(i, a, d) ==
    /\ Reviewable(a, d)
    /\ nextAttempt <= MaxAttempts
    /\ LET b == draft[d].branch
       IN  /\ NameAvailable(b, draft[d].name)
           /\ ChangedFromLatest(b, draft[d].content)
           /\ \E at \in ClockReadings(b) :
                LET version ==
                        [id |-> nextAttempt, draft |-> d,
                         name |-> draft[d].name, content |-> draft[d].content,
                         at |-> at, base |-> LatestId(b),
                         prev |-> PreviousId(b, at, nextAttempt),
                         path |-> document.stamp, by |-> a, view |-> seen[d]]
                    published == [draft[d] EXCEPT !.status = "published",
                                                  !.stamp = @ + 1]
                IN  Begin(i, [Rewrite(a, "admin", d, published, seen[d],
                                      VersionKeys(version))
                              EXCEPT !.scope = {b}, !.version = version])

-----------------------------------------------------------------------------
(* Uploads                                                                 *)

Advance(i, next) == step' = [step EXCEPT ![i] = next] /\ UNCHANGED work

Finish(i) ==
    /\ step' = [step EXCEPT ![i] = "idle"]
    /\ work' = [work EXCEPT ![i] = None]

PutObjects(i) ==
    /\ step[i] = "upload"
    /\ objects' = objects \cup work[i].keys
    /\ Advance(i, "commit")
    /\ UNCHANGED <<database, seen, nextAttempt>>

\* A failed PutObject may still have written its object.
PutFails(i) ==
    /\ "put" \in Faults
    /\ step[i] = "upload"
    /\ \E written \in SUBSET work[i].keys : objects' = objects \cup written
    /\ Advance(i, "cleanup")
    /\ UNCHANGED <<database, seen, nextAttempt>>

\* cleanupNewObjectRefs: each delete is tried once and may fail.
Cleanup(i) ==
    /\ step[i] = "cleanup"
    /\ \E deleted \in SUBSET work[i].keys :
          /\ "delete" \notin Faults => deleted = work[i].keys
          /\ objects' = objects \ deleted
    /\ Finish(i)
    /\ UNCHANGED <<database, seen, nextAttempt>>

-----------------------------------------------------------------------------
(* The transaction                                                         *)

\* Variant of GuardHolds that trusts the document row read at the reload.
GuardHoldsOnAnyDocument(request) ==
    /\ request.need = "admin" => CanPublish(request.actor)
    /\ request.need = "writer" => CanDraft(request.actor)
    /\ \A b \in request.scope : branch[b] = "active"

\* LockMutationContext and ValidateMutationContext on the locked rows.
GuardHolds(request) ==
    /\ request.need = "admin" => CanPublish(request.actor)
    /\ request.need = "writer" => CanDraft(request.actor)
    /\ document.active
    /\ \A b \in request.scope : branch[b] = "active"
    /\ request.version # None => document.stamp = request.version.path

\* Variant of RowUnchanged that updates by id without comparing updated_at.
RowExists(request) ==
    (draft[request.draft] = None) <=> (request.stamp = 0)

\* upsertByIDIfUnchanged, and the draft comparison of PublishState.
RowUnchanged(request) ==
    IF request.stamp = 0
      THEN draft[request.draft] = None
      ELSE /\ draft[request.draft] # None
           /\ draft[request.draft].stamp = request.stamp

\* Variant of VersionAcceptable without the comparison of the baseline.
VersionAcceptableOnAnyBase(request) ==
    LET b == request.row.branch
    IN  /\ draft[request.draft].status = "submitted"
        /\ ChangedFromLatest(b, request.version.content)
        /\ NameAvailable(b, request.version.name)

\* Variant of VersionAcceptable that re-checks the draft only.
VersionAcceptableByDraft(request) ==
    draft[request.draft].status = "submitted"

\* What PublishState checks under the branch lock besides the draft row.
VersionAcceptable(request) ==
    LET b == request.row.branch
    IN  /\ draft[request.draft].status = "submitted"
        /\ LatestId(b) = request.version.base
        /\ ChangedFromLatest(b, request.version.content)
        /\ NameAvailable(b, request.version.name)

Acceptable(request) ==
    /\ GuardHolds(request)
    /\ RowUnchanged(request)
    /\ request.version # None => VersionAcceptable(request)

\* Variant of WrittenRow that stores the verdict in place of the status.
WrittenRowApproved(request) ==
    IF request.version = None THEN request.row
    ELSE [draft[request.draft] EXCEPT !.status = "approved",
                                      !.stamp = request.row.stamp]

\* markDraftPublished writes the status only; an upsert writes the whole row.
WrittenRow(request) ==
    IF request.version = None THEN request.row
    ELSE [draft[request.draft] EXCEPT !.status = "published",
                                      !.stamp = request.row.stamp]

Write(request) ==
    /\ draft' = [draft EXCEPT ![request.draft] = WrittenRow(request)]
    /\ ledger' = ledger \cup request.keys
    /\ history' = IF request.version = None THEN history
                  ELSE [history EXCEPT ![request.row.branch] =
                            Append(@, request.version)]
    /\ UNCHANGED <<role, document, branch>>

Commit(i) ==
    /\ step[i] = "commit"
    /\ Acceptable(work[i])
    /\ Write(work[i])
    /\ Finish(i)
    /\ UNCHANGED <<objects, seen, nextAttempt>>

\* Variant of Rollback that leaves the attempt's objects behind.
RollbackWithoutCleanup(i) ==
    /\ step[i] = "commit"
    /\ ~Acceptable(work[i]) \/ "rollback" \in Faults
    /\ Finish(i)
    /\ UNCHANGED <<database, objects, seen, nextAttempt>>

\* The transaction refuses the request or PostgreSQL rolls it back.
Rollback(i) ==
    /\ step[i] = "commit"
    /\ ~Acceptable(work[i]) \/ "rollback" \in Faults
    /\ Advance(i, "cleanup")
    /\ UNCHANGED <<database, objects, seen, nextAttempt>>

\* Variant of CommitUnknown that treats the error as a rollback.
CommitUnknownCleansUp(i) ==
    /\ "unknown" \in Faults
    /\ step[i] = "commit"
    /\ Acceptable(work[i])
    /\ Write(work[i]) \/ UNCHANGED database
    /\ Advance(i, "cleanup")
    /\ UNCHANGED <<objects, seen, nextAttempt>>

\* ErrCommitOutcomeUnknown: the request fails, the rows may be committed, and
\* the attempt's objects are kept.
CommitUnknown(i) ==
    /\ "unknown" \in Faults
    /\ step[i] = "commit"
    /\ Acceptable(work[i])
    /\ Write(work[i]) \/ UNCHANGED database
    /\ Finish(i)
    /\ UNCHANGED <<objects, seen, nextAttempt>>

\* A process that stops while it uploads may have stored some of its objects.
Crash(i) ==
    /\ "crash" \in Faults
    /\ step[i] # "idle"
    /\ \E written \in SUBSET work[i].keys :
          /\ step[i] # "upload" => written = {}
          /\ objects' = objects \cup written
    /\ Finish(i)
    /\ UNCHANGED <<database, seen, nextAttempt>>

-----------------------------------------------------------------------------
(* Reads, and the writes other handlers make.  Each of these writes is one *)
(* transaction on one row that re-checks its guard and its row, and has no *)
(* upload: it is the state it commits in that decides it.                  *)

\* No request can use a snapshot of a closed draft, so none is kept.
LoadDraft(d) ==
    /\ draft[d] # None
    /\ draft[d].status \notin {"rejected", "published"}
    /\ seen' = [seen EXCEPT ![d] = SnapshotOf(d)]
    /\ UNCHANGED <<database, objects, process>>

ChangeRole(a, r) ==
    /\ role' = [role EXCEPT ![a] = r]
    /\ UNCHANGED <<document, branch, draft, history, ledger,
                   objects, seen, process>>

ArchiveBranch(a, b) ==
    /\ CanPublish(a)
    /\ ContextActive(b)
    /\ b # DefaultBranch
    /\ branch' = [branch EXCEPT ![b] = "archived"]
    /\ UNCHANGED <<role, document, draft, history, ledger,
                   objects, seen, process>>

UpdateDocument(a) ==
    /\ CanPublish(a)
    /\ document.active
    /\ document.stamp < MaxDocStamp
    /\ document' = [document EXCEPT !.stamp = @ + 1]
    /\ UNCHANGED <<role, branch, draft, history, ledger,
                   objects, seen, process>>

ArchiveDocument(a) ==
    /\ CanPublish(a)
    /\ document.active
    /\ document.stamp < MaxDocStamp
    /\ document' = [active |-> FALSE, stamp |-> document.stamp + 1]
    /\ UNCHANGED <<role, branch, draft, history, ledger,
                   objects, seen, process>>

-----------------------------------------------------------------------------

DraftRequest(i) ==
    \E a \in Actors, d \in DraftIds :
        \/ \E b \in Branches, name \in Names, content \in Contents :
              CreateDraft(i, a, d, b, name, content)
        \/ \E from, to \in Branches, name \in Names :
              PromoteDraft(i, a, d, from, to, name)
        \/ \E name \in Names, content \in Contents :
              UpdateDraft(i, a, d, name, content)
        \/ SubmitDraft(i, a, d)
        \/ \E verdict \in {"changes-requested", "rejected"} :
              ReturnDraft(i, a, d, verdict)
        \/ ApproveDraft(i, a, d)

Progress(i) ==
    \/ PutObjects(i)
    \/ PutFails(i)
    \/ Commit(i)
    \/ Rollback(i)
    \/ CommitUnknown(i)
    \/ Cleanup(i)
    \/ Crash(i)

OtherHandlers ==
    \/ \E d \in DraftIds : LoadDraft(d)
    \/ \E a \in Actors, r \in Roles : ChangeRole(a, r)
    \/ \E a \in Actors, b \in Branches : ArchiveBranch(a, b)
    \/ \E a \in Actors : UpdateDocument(a) \/ ArchiveDocument(a)

Next ==
    \/ \E i \in Instances : DraftRequest(i) \/ Progress(i)
    \/ OtherHandlers

Spec == Init /\ [][Next]_vars

-----------------------------------------------------------------------------
(* Properties                                                              *)

\* Every draft row and version row names objects that are in the object store
\* and in the object ledger: no failed, ambiguous or crashed attempt takes
\* away content that a committed row still reads (cleanupNewObjectRefs).
StoredContentPresent ==
    LET kept == objects \cap ledger
    IN  /\ \A d \in DraftIds :
              draft[d] # None => DraftKeys(draft[d].attempt) \subseteq kept
        /\ \A b \in Branches : \A v \in VersionsOf(b) :
              VersionKeys(v) \subseteq kept

KeysOf(i) == IF work[i] = None THEN {} ELSE work[i].keys

\* A running attempt's keys are its own: below allocated paths, shared with no
\* other running attempt and not yet in the ledger.
AttemptKeysPrivate ==
    /\ \A i \in Instances : (step[i] = "idle") <=> (work[i] = None)
    /\ \A key \in ledger : key[1] < nextAttempt
    /\ \A i \in Instances : \A key \in KeysOf(i) :
          key[1] < nextAttempt /\ key \notin ledger
    /\ \A i, j \in Instances : i # j => KeysOf(i) \cap KeysOf(j) = {}

\* Recorded objects are stored, and so are those of an attempt that may commit.
UploadsPrecedeCommit ==
    /\ ledger \subseteq objects
    /\ \A i \in Instances : step[i] = "commit" => work[i].keys \subseteq objects

\* Rows name recorded keys; requests name recorded keys or their own.
ReferencesRecorded ==
    /\ \A d \in DraftIds :
          draft[d] # None => DraftKeys(draft[d].attempt) \subseteq ledger
    /\ \A b \in Branches : \A v \in VersionsOf(b) : VersionKeys(v) \subseteq ledger
    /\ \A i \in Instances : work[i] # None =>
          /\ DraftKeys(work[i].row.attempt) \subseteq ledger \cup work[i].keys
          /\ work[i].version # None =>
                /\ VersionKeys(work[i].version) \subseteq work[i].keys
                /\ work[i].need = "admin" /\ work[i].version.by = work[i].actor
                /\ work[i].row.branch \in work[i].scope
                /\ work[i].stamp # 0

\* Any versions of a branch have a newest one.
VersionsOrdered ==
    \A b \in Branches : \A versions \in SUBSET VersionsOf(b) :
        versions # {} =>
            \E v \in versions : \A w \in versions : w = v \/ Before(w, v)

\* What keeps stored content present, and holds inductively: an attempt writes
\* and deletes only keys of its own, records them only once they are stored,
\* and rows refer to recorded keys.
ContentInvariant ==
    /\ TypeOK
    /\ AttemptKeysPrivate
    /\ UploadsPrecedeCommit
    /\ ReferencesRecorded
    /\ VersionsOrdered

\* With deletes that work and processes that survive, an attempt that failed
\* leaves nothing behind: every stored object is recorded in the ledger or
\* belongs to a request that is still running.
NoStrayObjects ==
    \A key \in objects :
        \/ key \in ledger
        \/ \E i \in Instances : work[i] # None /\ key \in work[i].keys

\* A version holds what its reviewer approved: the name and content the
\* reviewer loaded, in the submission round the reviewer loaded, compared
\* with the baseline the reviewer saw; and the draft row keeps saying so.
VersionIsWhatWasReviewed ==
    \A b \in Branches : \A v \in VersionsOf(b) :
        /\ v.view.status = "submitted"
        /\ v.view.name = v.name /\ v.view.content = v.content
        /\ v.view.base = v.base
        /\ draft[v.draft] # None
        /\ draft[v.draft].status = "published"
        /\ draft[v.draft].name = v.name /\ draft[v.draft].content = v.content
        /\ draft[v.draft].round = v.view.round

\* While clocks agree, the versions of a branch form one line: each was
\* reviewed against, and its stored diff starts from, the version committed
\* just before it, and the latest version by published_at is the last one.
HistoryIsALine ==
    \A b \in Branches :
        /\ \A k \in DOMAIN history[b] :
              LET before == IF k = 1 THEN 0 ELSE history[b][k - 1].id
              IN  history[b][k].base = before /\ history[b][k].prev = before
        /\ history[b] # <<>> => LatestId(b) = history[b][Len(history[b])].id

\* Publications are authorised where they commit: the publisher is an admin
\* of the project, the document and the branch are active, and the version
\* takes its path from the document row of that very state.
PublicationIsAuthorised ==
    [][ \A b \in Branches :
          history'[b] # history[b] =>
              LET v == history'[b][Len(history'[b])]
              IN  /\ CanPublish(v.by)
                  /\ ContextActive(b)
                  /\ v.path = document.stamp ]_vars

\* No change is lost: a committed edit or verdict replaces exactly the
\* revision its author had loaded, and a verdict falls on the submission
\* round its author had loaded.
ChangesFallOnWhatWasLoaded ==
    [][ \A d \in DraftIds, i \in Instances :
          (/\ draft[d] # None /\ draft'[d] # draft[d]
           /\ step[i] = "commit" /\ step'[i] = "idle"
           /\ work[i].draft = d /\ work[i].loaded # None) =>
              LET loaded == work[i].loaded
              IN  /\ loaded.status = draft[d].status
                  /\ loaded.name = draft[d].name
                  /\ loaded.content = draft[d].content
                  /\ loaded.status = "submitted" =>
                        loaded.round = draft[d].round ]_vars

\* A submitted draft is changed by reviewers only, and rejected and published
\* drafts are never changed again, by whatever request was prepared earlier.
ReviewClosesDrafts ==
    [][ \A d \in DraftIds :
          (draft[d] # None /\ draft'[d] # draft[d]) =>
              /\ draft[d].status \notin {"rejected", "published"}
              /\ draft[d].status = "submitted" =>
                    /\ draft'[d].status \in
                          {"changes-requested", "rejected", "published"}
                    /\ draft'[d].name = draft[d].name
                    /\ draft'[d].content = draft[d].content ]_vars

\* The published versions are a VersionHistory.
Entries(b) ==
    [k \in DOMAIN history[b] |->
        [draft |-> history[b][k].draft, name |-> history[b][k].name,
         content |-> history[b][k].content]]

PublishedHistory == [b \in Branches |-> Entries(b)]

Promise == INSTANCE VersionHistory WITH published <- PublishedHistory

\* Publishing on many processes implements the one history readers are
\* promised: names once per branch, drafts published once, no repeated content.
ImplementsHistory == Promise!Spec

\* What domain/vdoc/mutation.go says of MutationGuard: the transaction checks
\* again the resource scope the service layer checked.  Edits, submissions
\* and verdicts check that the draft's branch is active when they start.
ArchivedBranchKeepsDrafts ==
    [][ \A d \in DraftIds :
          (draft[d] # None /\ branch[draft[d].branch] = "archived") =>
              draft'[d] = draft[d] ]_vars

=============================================================================
