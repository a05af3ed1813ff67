----------------------- MODULE DocumentWorkflowProofs -----------------------
(***************************************************************************)
(* For any number of processes, actors, branches, drafts, names and        *)
(* contents, any clock skew and any faults: the rows of DocumentWorkflow   *)
(* keep their types, every committed row finds its content in the object   *)
(* store, and publications are authorised in the state they commit in; a   *)
(* version is what its reviewer loaded, edits and verdicts fall on what    *)
(* their authors loaded, and review closes drafts.  Where clocks agree,    *)
(* the versions of a branch form a line, and DocumentWorkflow implements   *)
(* VersionHistory.                                                         *)
(***************************************************************************)
EXTENDS DocumentWorkflow, TLAPS

-----------------------------------------------------------------------------
(* Helpers                                                                 *)

LEMMA DraftKeysTyped ==
    ASSUME NEW attempt \in Nat
    PROVE  DraftKeys(attempt) \subseteq Key
  BY DEF DraftKeys, Key

LEMMA VersionKeysTyped ==
    ASSUME NEW version \in Version
    PROVE  VersionKeys(version) \subseteq Key
  BY DEF VersionKeys, DraftKeys, Key, Version

LEMMA VersionsTyped ==
    ASSUME TypeOK, NEW b \in Branches
    PROVE  VersionsOf(b) \subseteq Version
  BY DEF TypeOK, VersionsOf

\* The newest of a non-empty set of versions is one of them.
LEMMA NewestMember ==
    ASSUME VersionsOrdered, NEW b \in Branches,
           NEW versions \in SUBSET VersionsOf(b), versions # {}
    PROVE  Newest(versions) \in versions
  BY DEF VersionsOrdered, Newest

LEMMA LatestTyped ==
    ASSUME TypeOK, VersionsOrdered, NEW b \in Branches
    PROVE  /\ history[b] # <<>> => Newest(VersionsOf(b)) \in Version
           /\ LatestId(b) \in Nat
  <1>1. ASSUME history[b] # <<>>
        PROVE  Newest(VersionsOf(b)) \in Version
    <2>1. VersionsOf(b) # {}
      <3>1. history[b] \in Seq(Version)
        BY DEF TypeOK
      <3>2. 1 \in DOMAIN history[b]
        BY <1>1, <3>1
      <3> QED BY <3>2 DEF VersionsOf
    <2>2. Newest(VersionsOf(b)) \in VersionsOf(b)
      BY <2>1, NewestMember
    <2> QED BY <2>2, VersionsTyped
  <1>2. LatestId(b) \in Nat
    BY <1>1 DEF LatestId, Version
  <1> QED BY <1>1, <1>2

LEMMA PreviousTyped ==
    ASSUME TypeOK, VersionsOrdered, NEW b \in Branches, NEW at, NEW id
    PROVE  PreviousId(b, at, id) \in Nat
  <1> DEFINE older == {v \in VersionsOf(b) :
                          v.at < at \/ (v.at = at /\ v.id < id)}
  <1>1. ASSUME older # {}
        PROVE  Newest(older).id \in Nat
    <2>1. Newest(older) \in older
      BY <1>1, NewestMember
    <2> QED BY <2>1, VersionsTyped DEF Version
  <1> QED BY <1>1 DEF PreviousId

LEMMA SnapshotTyped ==
    ASSUME TypeOK, VersionsOrdered, NEW d \in DraftIds, draft[d] # None
    PROVE  SnapshotOf(d) \in Snapshot
  <1>1. draft[d] \in DraftRow
    BY DEF TypeOK
  <1>2. LatestId(draft[d].branch) \in Nat
    BY <1>1, LatestTyped DEF DraftRow
  <1> QED BY <1>1, <1>2 DEF SnapshotOf, Snapshot, DraftRow

-----------------------------------------------------------------------------
(* Requests                                                                *)

\* Preparing a request: process i turns from idle, nothing else but its
\* request and the attempt counter changes.
Starts(i) ==
    /\ step[i] = "idle"
    /\ UNCHANGED <<role, document, branch, draft, history, ledger, objects, seen>>
    /\ \A j \in Instances \ {i} : work'[j] = work[j]

LEMMA BeginStarts ==
    ASSUME TypeOK, NEW i \in Instances, NEW request, Begin(i, request)
    PROVE  Starts(i)
  BY DEF Begin, TypeOK, Starts

LEMMA DraftRequestStarts ==
    ASSUME TypeOK, NEW i \in Instances, DraftRequest(i)
    PROVE  Starts(i)
  <1>1. ASSUME NEW a \in Actors, NEW d \in DraftIds, NEW b \in Branches,
               NEW name \in Names, NEW content \in Contents,
               CreateDraft(i, a, d, b, name, content)
        PROVE  Starts(i)
    BY <1>1, BeginStarts DEF CreateDraft, NewDraft
  <1>2. ASSUME NEW a \in Actors, NEW d \in DraftIds, NEW from \in Branches,
               NEW to \in Branches, NEW name \in Names,
               PromoteDraft(i, a, d, from, to, name)
        PROVE  Starts(i)
    BY <1>2, BeginStarts DEF PromoteDraft, NewDraft
  <1>3. ASSUME NEW a \in Actors, NEW d \in DraftIds, NEW name \in Names,
               NEW content \in Contents, UpdateDraft(i, a, d, name, content)
        PROVE  Starts(i)
    BY <1>3, BeginStarts DEF UpdateDraft
  <1>4. ASSUME NEW a \in Actors, NEW d \in DraftIds, SubmitDraft(i, a, d)
        PROVE  Starts(i)
    BY <1>4, BeginStarts DEF SubmitDraft
  <1>5. ASSUME NEW a \in Actors, NEW d \in DraftIds,
               NEW verdict \in {"changes-requested", "rejected"},
               ReturnDraft(i, a, d, verdict)
        PROVE  Starts(i)
    BY <1>5, BeginStarts DEF ReturnDraft
  <1>6. ASSUME NEW a \in Actors, NEW d \in DraftIds, ApproveDraft(i, a, d)
        PROVE  Starts(i)
    BY <1>6, BeginStarts DEF ApproveDraft
  <1> QED BY <1>1, <1>2, <1>3, <1>4, <1>5, <1>6 DEF DraftRequest

\* What a handler may prepare.
Prepared(request) ==
    /\ request \in Request
    /\ \A key \in request.keys : key[1] = nextAttempt
    /\ DraftKeys(request.row.attempt) \subseteq ledger \cup request.keys
    /\ request.version # None =>
          /\ VersionKeys(request.version) \subseteq request.keys
          /\ request.need = "admin" /\ request.version.by = request.actor
          /\ request.row.branch \in request.scope
          /\ request.stamp # 0

LEMMA BeginPreserves ==
    ASSUME ContentInvariant, NEW i \in Instances, NEW request,
           Prepared(request), Begin(i, request)
    PROVE  ContentInvariant'
  <1> USE DEF ContentInvariant
  <1>1. request # None /\ request \in Request
    BY NoneAssumption DEF Prepared
  <1>2. /\ step[i] = "idle"
        /\ step' = [step EXCEPT ![i] = IF request.keys = {} THEN "commit"
                                                            ELSE "upload"]
        /\ work' = [work EXCEPT ![i] = request]
        /\ nextAttempt' = IF request.keys = {} THEN nextAttempt
                                               ELSE nextAttempt + 1
        /\ UNCHANGED <<role, document, branch, draft, history, ledger,
                       objects, seen>>
    BY DEF Begin
  <1>3. nextAttempt' \in Nat \ {0} /\ nextAttempt <= nextAttempt'
    BY <1>2 DEF TypeOK
  <1>4. TypeOK'
    BY <1>1, <1>2, <1>3 DEF TypeOK
  <1>5. /\ work'[i] = request
        /\ \A j \in Instances \ {i} : work'[j] = work[j] /\ step'[j] = step[j]
    BY <1>2 DEF TypeOK
  <1>6. AttemptKeysPrivate'
    <2>1. request.keys \subseteq Key
      BY <1>1 DEF Request
    <2>2. \A key \in request.keys :
            key[1] < nextAttempt' /\ key \notin ledger
      BY <1>2, <2>1 DEF Prepared, AttemptKeysPrivate, TypeOK, Key
    <2>3. \A j \in Instances \ {i} : request.keys \cap KeysOf(j) = {}
      BY <2>1 DEF Prepared, AttemptKeysPrivate, TypeOK, Key
    <2>4. KeysOf(i)' = request.keys /\ \A j \in Instances \ {i} : KeysOf(j)' = KeysOf(j)
      BY <1>1, <1>5 DEF KeysOf
    <2>5. \A j \in Instances : (step'[j] = "idle") <=> (work'[j] = None)
      BY <1>1, <1>2, <1>5 DEF AttemptKeysPrivate, TypeOK
    <2>6. \A key \in ledger : key[1] < nextAttempt'
      BY <1>2, <1>3 DEF AttemptKeysPrivate, TypeOK, Key
    <2>7. \A j \in Instances : \A key \in KeysOf(j)' :
            key[1] < nextAttempt' /\ key \notin ledger
      <3>1. \A j \in Instances : KeysOf(j) \subseteq Key
        BY DEF KeysOf, TypeOK, Request
      <3> QED BY <2>2, <2>4, <1>3, <3>1, SMTT(20) DEF AttemptKeysPrivate, TypeOK, Key
    <2>8. \A j, k \in Instances : j # k => KeysOf(j)' \cap KeysOf(k)' = {}
      BY <2>3, <2>4 DEF AttemptKeysPrivate
    <2> QED BY <1>2, <2>5, <2>6, <2>7, <2>8 DEF AttemptKeysPrivate
  <1>7. UploadsPrecedeCommit'
    BY <1>2, <1>5 DEF UploadsPrecedeCommit, TypeOK
  <1>8. VersionsOrdered'
    BY <1>2 DEF VersionsOrdered, VersionsOf
  <1>9. ReferencesRecorded'
    <2>1. \A j \in Instances : work'[j] # None =>
            /\ DraftKeys(work'[j].row.attempt) \subseteq ledger \cup work'[j].keys
            /\ work'[j].version # None =>
                  /\ VersionKeys(work'[j].version) \subseteq work'[j].keys
                  /\ work'[j].need = "admin"
                  /\ work'[j].version.by = work'[j].actor
                  /\ work'[j].row.branch \in work'[j].scope
                  /\ work'[j].stamp # 0
      BY <1>5 DEF Prepared, ReferencesRecorded
    <2> QED BY <1>2, <2>1 DEF ReferencesRecorded, VersionsOf
  <1> QED BY <1>4, <1>6, <1>7, <1>8, <1>9

\* A new draft row, whatever branch and content it takes.
LEMMA NewDraftPreserves ==
    ASSUME ContentInvariant, NEW i \in Instances, NEW a \in Actors,
           NEW need \in {"writer", "admin"}, NEW scope \in SUBSET Branches,
           NEW d \in DraftIds, NEW b \in Branches, NEW name \in Names,
           NEW content \in Contents,
           NewDraft(i, a, need, scope, d, b, name, content)
    PROVE  ContentInvariant'
  <1> DEFINE request ==
        [actor |-> a, need |-> need, scope |-> scope, draft |-> d,
         row |-> [status |-> "draft", branch |-> b, name |-> name,
                  content |-> content, stamp |-> 1, round |-> 0,
                  attempt |-> nextAttempt],
         stamp |-> 0, loaded |-> None,
         keys |-> DraftKeys(nextAttempt), version |-> None]
  <1>1. nextAttempt \in Nat
    BY DEF ContentInvariant, TypeOK
  <1>2. request \in Request
    BY <1>1, DraftKeysTyped DEF Request, DraftRow, Status
  <1>3. Prepared(request)
    BY <1>2 DEF Prepared, DraftKeys
  <1>4. Begin(i, request)
    BY DEF NewDraft
  <1> QED BY <1>3, <1>4, BeginPreserves

LEMMA RowRewritten ==
    ASSUME NEW row \in DraftRow, NEW status \in Status, NEW stamp \in Nat \ {0}
    PROVE  LET rewritten == [row EXCEPT !.status = status, !.stamp = stamp]
           IN  /\ rewritten \in DraftRow /\ rewritten.attempt = row.attempt
               /\ rewritten.branch = row.branch
  BY DEF DraftRow

LEMMA RowSubmitted ==
    ASSUME NEW row \in DraftRow
    PROVE  LET submitted == [row EXCEPT !.status = "submitted",
                                        !.round = @ + 1, !.stamp = @ + 1]
           IN  submitted \in DraftRow /\ submitted.attempt = row.attempt
  <1> DEFINE stamp == row.stamp + 1
             round == row.round + 1
  <1>1. stamp \in Nat \ {0} /\ round \in Nat
    BY DEF DraftRow
  <1> HIDE DEF stamp, round
  <1>2. LET submitted == [row EXCEPT !.status = "submitted",
                                     !.round = round, !.stamp = stamp]
        IN  submitted \in DraftRow /\ submitted.attempt = row.attempt
    BY <1>1 DEF DraftRow, Status
  <1> QED BY <1>2 DEF stamp, round

LEMMA RowEdited ==
    ASSUME NEW row \in DraftRow, NEW name \in Names, NEW content \in Contents
    PROVE  LET edited == [row EXCEPT !.status = "draft", !.name = name,
                                     !.content = content, !.stamp = @ + 1]
           IN  edited \in DraftRow /\ edited.attempt = row.attempt
  <1> DEFINE stamp == row.stamp + 1
  <1>1. stamp \in Nat \ {0}
    BY DEF DraftRow
  <1> HIDE DEF stamp
  <1>2. LET edited == [row EXCEPT !.status = "draft", !.name = name,
                                  !.content = content, !.stamp = stamp]
        IN  edited \in DraftRow /\ edited.attempt = row.attempt
    BY <1>1 DEF DraftRow, Status
  <1> QED BY <1>2 DEF stamp

LEMMA RowMoved ==
    ASSUME NEW row \in DraftRow, NEW attempt \in Nat
    PROVE  LET moved == [row EXCEPT !.attempt = attempt]
           IN  moved \in DraftRow /\ moved.attempt = attempt
  BY DEF DraftRow

\* A rewritten draft row that keeps the stored content.
LEMMA RewritePreserves ==
    ASSUME ContentInvariant, NEW i \in Instances, NEW a \in Actors,
           NEW need \in {"writer", "admin"}, NEW d \in DraftIds,
           draft[d] # None, NEW row \in DraftRow,
           row.attempt = draft[d].attempt, NEW loaded \in Snapshot \cup {None},
           Begin(i, Rewrite(a, need, d, row, loaded, {}))
    PROVE  ContentInvariant'
  <1>1. draft[d] \in DraftRow
    BY DEF ContentInvariant, TypeOK
  <1>2. Rewrite(a, need, d, row, loaded, {}) \in Request
    BY <1>1 DEF Rewrite, Request, DraftRow
  <1>3. Prepared(Rewrite(a, need, d, row, loaded, {}))
    BY <1>2 DEF Prepared, Rewrite, ContentInvariant, ReferencesRecorded
  <1> QED BY <1>3, BeginPreserves

LEMMA CreateDraftPreserves ==
    ASSUME ContentInvariant, NEW i \in Instances, NEW a \in Actors,
           NEW d \in DraftIds, NEW b \in Branches, NEW name \in Names,
           NEW content \in Contents, CreateDraft(i, a, d, b, name, content)
    PROVE  ContentInvariant'
  BY NewDraftPreserves DEF CreateDraft

LEMMA PromoteDraftPreserves ==
    ASSUME ContentInvariant, NEW i \in Instances, NEW a \in Actors,
           NEW d \in DraftIds, NEW from \in Branches, NEW to \in Branches,
           NEW name \in Names, PromoteDraft(i, a, d, from, to, name)
    PROVE  ContentInvariant'
  <1>1. Newest(VersionsOf(from)).content \in Contents
    BY LatestTyped DEF ContentInvariant, PromoteDraft, Version
  <1>2. NewDraft(i, a, "admin", {from, to}, d, to, name,
                 Newest(VersionsOf(from)).content)
    BY DEF PromoteDraft
  <1> QED BY <1>1, <1>2, NewDraftPreserves

LEMMA UpdateDraftPreserves ==
    ASSUME ContentInvariant, NEW i \in Instances, NEW a \in Actors,
           NEW d \in DraftIds, NEW name \in Names, NEW content \in Contents,
           UpdateDraft(i, a, d, name, content)
    PROVE  ContentInvariant'
  <1> DEFINE edited == [draft[d] EXCEPT !.status = "draft", !.name = name,
                                        !.content = content, !.stamp = @ + 1]
             moved == [edited EXCEPT !.attempt = nextAttempt]
  <1>1. draft[d] # None /\ draft[d] \in DraftRow
    BY DEF UpdateDraft, ContentInvariant, TypeOK
  <1>2. nextAttempt \in Nat /\ seen[d] \in Snapshot \cup {None}
    BY DEF ContentInvariant, TypeOK
  <1>3. edited \in DraftRow /\ edited.attempt = draft[d].attempt
    BY <1>1, RowEdited
  <1>4. moved \in DraftRow /\ moved.attempt = nextAttempt
    <2> HIDE DEF edited
    <2> QED BY <1>2, <1>3, RowMoved
  <1>5. CASE Begin(i, Rewrite(a, "writer", d, edited, seen[d], {}))
    BY <1>1, <1>2, <1>3, <1>5, RewritePreserves
  <1>6. CASE Begin(i, Rewrite(a, "writer", d, moved, seen[d],
                              DraftKeys(nextAttempt)))
    <2>1. Rewrite(a, "writer", d, moved, seen[d], DraftKeys(nextAttempt))
            \in Request
      <3> HIDE DEF moved
      <3> QED BY <1>1, <1>2, <1>4, DraftKeysTyped DEF Rewrite, Request, DraftRow
    <2>2. Prepared(Rewrite(a, "writer", d, moved, seen[d],
                           DraftKeys(nextAttempt)))
      <3> HIDE DEF moved
      <3> QED BY <2>1, <1>4 DEF Prepared, Rewrite, DraftKeys
    <2> QED BY <1>6, <2>2, BeginPreserves
  <1> QED BY <1>5, <1>6 DEF UpdateDraft

LEMMA SubmitDraftPreserves ==
    ASSUME ContentInvariant, NEW i \in Instances, NEW a \in Actors,
           NEW d \in DraftIds, SubmitDraft(i, a, d)
    PROVE  ContentInvariant'
  <1> DEFINE row == [draft[d] EXCEPT !.status = "submitted",
                                     !.round = @ + 1, !.stamp = @ + 1]
  <1>1. draft[d] # None /\ draft[d] \in DraftRow
    BY DEF SubmitDraft, ContentInvariant, TypeOK
  <1>2. row \in DraftRow /\ row.attempt = draft[d].attempt
    BY <1>1, RowSubmitted
  <1>3. Begin(i, Rewrite(a, "writer", d, row, None, {}))
    BY DEF SubmitDraft
  <1> QED BY <1>1, <1>2, <1>3, RewritePreserves

LEMMA ReturnDraftPreserves ==
    ASSUME ContentInvariant, NEW i \in Instances, NEW a \in Actors,
           NEW d \in DraftIds, NEW verdict \in {"changes-requested", "rejected"},
           ReturnDraft(i, a, d, verdict)
    PROVE  ContentInvariant'
  <1> DEFINE row == [draft[d] EXCEPT !.status = verdict, !.stamp = @ + 1]
  <1>1. draft[d] # None /\ draft[d] \in DraftRow
    BY DEF ReturnDraft, Reviewable, ContentInvariant, TypeOK
  <1>2. row \in DraftRow /\ row.attempt = draft[d].attempt
    <2>1. draft[d].stamp + 1 \in Nat \ {0} /\ verdict \in Status
      BY <1>1 DEF DraftRow, Status
    <2> QED BY <1>1, <2>1, RowRewritten
  <1>3. seen[d] \in Snapshot \cup {None}
    BY DEF ContentInvariant, TypeOK
  <1>4. Begin(i, Rewrite(a, "admin", d, row, seen[d], {}))
    BY DEF ReturnDraft
  <1> QED BY <1>1, <1>2, <1>3, <1>4, RewritePreserves

LEMMA ApproveDraftPreserves ==
    ASSUME ContentInvariant, NEW i \in Instances, NEW a \in Actors,
           NEW d \in DraftIds, ApproveDraft(i, a, d)
    PROVE  ContentInvariant'
  <1> DEFINE b == draft[d].branch
  <1>1. draft[d] # None /\ draft[d] \in DraftRow /\ b \in Branches
    BY DEF ApproveDraft, Reviewable, ContentInvariant, TypeOK, DraftRow
  <1>2. seen[d] \in Snapshot
    <2>1. seen[d] = SnapshotOf(d)
      BY DEF ApproveDraft, Reviewable, ReviewUnchanged
    <2> QED BY <1>1, <2>1, SnapshotTyped DEF ContentInvariant
  <1> DEFINE version(at) ==
               [id |-> nextAttempt, draft |-> d, name |-> draft[d].name,
                content |-> draft[d].content, at |-> at, base |-> LatestId(b),
                prev |-> PreviousId(b, at, nextAttempt),
                path |-> document.stamp, by |-> a, view |-> seen[d]]
             published == [draft[d] EXCEPT !.status = "published",
                                           !.stamp = @ + 1]
             request(at) ==
               [Rewrite(a, "admin", d, published, seen[d],
                        VersionKeys(version(at)))
                EXCEPT !.scope = {b}, !.version = version(at)]
  <1>3. PICK at \in ClockReadings(b) : Begin(i, request(at))
    BY DEF ApproveDraft
  <1>4. at \in Int
    <2>1. history[b] \in Seq(Version)
      BY <1>1 DEF ContentInvariant, TypeOK
    <2>2. Len(history[b]) \in Nat
      BY <2>1
    <2> QED BY <2>2, SkewAssumption DEF ClockReadings
  <1>5. version(at) \in Version
    <2>1. LatestId(b) \in Nat /\ PreviousId(b, at, nextAttempt) \in Nat
      BY <1>1, LatestTyped, PreviousTyped DEF ContentInvariant
    <2>2. nextAttempt \in Nat /\ document.stamp \in Nat
      BY DEF ContentInvariant, TypeOK
    <2> QED BY <1>1, <1>2, <1>4, <2>1, <2>2 DEF Version, DraftRow
  <1>6. /\ published \in DraftRow /\ published.attempt = draft[d].attempt
        /\ published.branch = b
    <2>1. draft[d].stamp + 1 \in Nat \ {0} /\ "published" \in Status
      BY <1>1 DEF DraftRow, Status
    <2> QED BY <1>1, <2>1, RowRewritten
  <1>7. request(at) \in Request
    <2>1. VersionKeys(version(at)) \subseteq Key
      BY <1>5, VersionKeysTyped
    <2> HIDE DEF published, version
    <2> QED BY <1>1, <1>2, <1>5, <1>6, <2>1 DEF Rewrite, Request, DraftRow
  <1>8. Prepared(request(at))
    <2>1. \A key \in VersionKeys(version(at)) : key[1] = nextAttempt
      BY DEF VersionKeys, DraftKeys
    <2>2. DraftKeys(draft[d].attempt) \subseteq ledger
      BY <1>1 DEF ContentInvariant, ReferencesRecorded
    <2>3. version(at).by = a /\ draft[d].stamp # 0
      BY <1>1 DEF DraftRow
    <2> HIDE DEF published, version
    <2> QED BY <1>6, <1>7, <2>1, <2>2, <2>3 DEF Prepared, Rewrite
  <1> QED BY <1>3, <1>8, BeginPreserves

-----------------------------------------------------------------------------
(* Uploads and transactions                                                *)

LEMMA FinishEffect ==
    ASSUME TypeOK, NEW i \in Instances, Finish(i)
    PROVE  /\ step' \in [Instances -> {"idle", "upload", "commit", "cleanup"}]
           /\ work' \in [Instances -> Request \cup {None}]
           /\ step'[i] = "idle" /\ work'[i] = None /\ KeysOf(i)' = {}
           /\ \A j \in Instances \ {i} :
                 /\ step'[j] = step[j] /\ work'[j] = work[j]
                 /\ KeysOf(j)' = KeysOf(j)
  BY DEF Finish, TypeOK, KeysOf

LEMMA AdvanceEffect ==
    ASSUME TypeOK, NEW i \in Instances,
           NEW next \in {"idle", "upload", "commit", "cleanup"}, Advance(i, next)
    PROVE  /\ step' \in [Instances -> {"idle", "upload", "commit", "cleanup"}]
           /\ step'[i] = next /\ work' = work
           /\ \A j \in Instances \ {i} : step'[j] = step[j]
           /\ \A j \in Instances : KeysOf(j)' = KeysOf(j)
  BY DEF Advance, TypeOK, KeysOf

LEMMA OrderUnchanged ==
    ASSUME VersionsOrdered, history' = history
    PROVE  VersionsOrdered'
  <1>1. \A b \in Branches : VersionsOf(b)' = VersionsOf(b)
    BY DEF VersionsOf
  <1>2. SUFFICES ASSUME NEW b \in Branches, NEW versions \in SUBSET VersionsOf(b),
                        versions # {}
                 PROVE  \E v \in versions : \A w \in versions :
                           w = v \/ Before(w, v)
    BY <1>1 DEF VersionsOrdered, Before
  <1> QED BY <1>2 DEF VersionsOrdered

\* References do not change when rows stay and no request is added.
LEMMA ReferencesUnchanged ==
    ASSUME ReferencesRecorded, UNCHANGED <<draft, history, ledger>>,
           \A j \in Instances : work'[j] # None => work'[j] = work[j]
    PROVE  ReferencesRecorded'
  BY DEF ReferencesRecorded, VersionsOf

\* A request that is not idle, and its keys.
LEMMA RunningRequest ==
    ASSUME TypeOK, AttemptKeysPrivate, NEW i \in Instances, step[i] # "idle"
    PROVE  /\ work[i] # None /\ work[i] \in Request
           /\ KeysOf(i) = work[i].keys /\ work[i].keys \subseteq Key
  BY DEF TypeOK, AttemptKeysPrivate, KeysOf, Request

LEMMA PutObjectsPreserves ==
    ASSUME ContentInvariant, NEW i \in Instances, PutObjects(i)
    PROVE  ContentInvariant'
  <1>1. TypeOK /\ step[i] = "upload" /\ Advance(i, "commit")
    BY DEF ContentInvariant, PutObjects
  <1>2. /\ objects' = objects \cup work[i].keys
        /\ UNCHANGED <<role, document, branch, draft, history, ledger,
                       seen, nextAttempt>>
    BY DEF PutObjects, database
  <1>3. work[i] # None /\ work[i].keys \subseteq Key
    BY <1>1, RunningRequest DEF ContentInvariant
  <1>4. TypeOK'
    BY <1>1, <1>2, <1>3, AdvanceEffect DEF TypeOK
  <1>5. AttemptKeysPrivate'
    BY <1>1, <1>2, <1>3, AdvanceEffect DEF ContentInvariant, AttemptKeysPrivate
  <1>6. UploadsPrecedeCommit'
    BY <1>1, <1>2, AdvanceEffect DEF ContentInvariant, UploadsPrecedeCommit
  <1>7. ReferencesRecorded' /\ VersionsOrdered'
    BY <1>1, <1>2, AdvanceEffect, OrderUnchanged, ReferencesUnchanged
       DEF ContentInvariant
  <1> QED BY <1>4, <1>5, <1>6, <1>7 DEF ContentInvariant

LEMMA PutFailsPreserves ==
    ASSUME ContentInvariant, NEW i \in Instances, PutFails(i)
    PROVE  ContentInvariant'
  <1>1. TypeOK /\ step[i] = "upload" /\ Advance(i, "cleanup")
    BY DEF ContentInvariant, PutFails
  <1>2. PICK written \in SUBSET work[i].keys : objects' = objects \cup written
    BY DEF PutFails
  <1>3. UNCHANGED <<role, document, branch, draft, history, ledger,
                    seen, nextAttempt>>
    BY DEF PutFails, database
  <1>4. work[i] # None /\ work[i].keys \subseteq Key
    BY <1>1, RunningRequest DEF ContentInvariant
  <1>5. TypeOK'
    BY <1>1, <1>2, <1>3, <1>4, AdvanceEffect DEF TypeOK
  <1>6. AttemptKeysPrivate'
    BY <1>1, <1>3, <1>4, AdvanceEffect DEF ContentInvariant, AttemptKeysPrivate
  <1>7. UploadsPrecedeCommit'
    BY <1>1, <1>2, <1>3, AdvanceEffect DEF ContentInvariant, UploadsPrecedeCommit
  <1>8. ReferencesRecorded' /\ VersionsOrdered'
    BY <1>1, <1>3, AdvanceEffect, OrderUnchanged, ReferencesUnchanged
       DEF ContentInvariant
  <1> QED BY <1>5, <1>6, <1>7, <1>8 DEF ContentInvariant

\* Deletes touch the attempt's own keys only, and none of them is recorded.
LEMMA CleanupPreserves ==
    ASSUME ContentInvariant, NEW i \in Instances, Cleanup(i)
    PROVE  ContentInvariant'
  <1>1. TypeOK /\ step[i] = "cleanup" /\ Finish(i)
    BY DEF ContentInvariant, Cleanup
  <1>2. PICK deleted \in SUBSET work[i].keys : objects' = objects \ deleted
    BY DEF Cleanup
  <1>3. UNCHANGED <<role, document, branch, draft, history, ledger,
                    seen, nextAttempt>>
    BY DEF Cleanup, database
  <1>4. KeysOf(i) = work[i].keys
    BY <1>1, RunningRequest DEF ContentInvariant
  <1>5. TypeOK'
    BY <1>1, <1>2, <1>3, FinishEffect DEF TypeOK
  <1>6. AttemptKeysPrivate'
    BY <1>1, <1>3, FinishEffect DEF ContentInvariant, AttemptKeysPrivate
  <1>7. UploadsPrecedeCommit'
    <2>1. ledger' \subseteq objects'
      BY <1>2, <1>3, <1>4
         DEF ContentInvariant, UploadsPrecedeCommit, AttemptKeysPrivate
    <2>2. ASSUME NEW j \in Instances, step'[j] = "commit"
          PROVE  work'[j].keys \subseteq objects'
      <3>1. j # i /\ step[j] = "commit" /\ work'[j] = work[j]
        BY <1>1, <2>2, FinishEffect
      <3>2. KeysOf(j) = work[j].keys
        BY <3>1, <1>1, RunningRequest DEF ContentInvariant
      <3> QED BY <1>2, <1>4, <3>1, <3>2
              DEF ContentInvariant, UploadsPrecedeCommit, AttemptKeysPrivate
    <2> QED BY <2>1, <2>2 DEF UploadsPrecedeCommit
  <1>8. ReferencesRecorded' /\ VersionsOrdered'
    <2>1. \A j \in Instances : work'[j] # None => work'[j] = work[j]
      BY <1>1, FinishEffect
    <2> QED BY <1>3, <2>1, OrderUnchanged, ReferencesUnchanged
            DEF ContentInvariant
  <1> QED BY <1>5, <1>6, <1>7, <1>8 DEF ContentInvariant

\* A request that ends without writing: its keys stay as they are or, in a
\* crash during the upload, some more of them are stored.
LEMMA AbandonPreserves ==
    ASSUME ContentInvariant, NEW i \in Instances, step[i] # "idle", Finish(i),
           NEW written \in SUBSET work[i].keys, objects' = objects \cup written,
           UNCHANGED <<role, document, branch, draft, history, ledger,
                       seen, nextAttempt>>
    PROVE  ContentInvariant'
  <1>1. TypeOK /\ work[i].keys \subseteq Key
    BY RunningRequest DEF ContentInvariant
  <1>2. TypeOK'
    BY <1>1, FinishEffect DEF TypeOK
  <1>3. AttemptKeysPrivate'
    BY <1>1, FinishEffect DEF ContentInvariant, AttemptKeysPrivate
  <1>4. UploadsPrecedeCommit'
    BY <1>1, FinishEffect DEF ContentInvariant, UploadsPrecedeCommit
  <1>5. VersionsOrdered'
    BY OrderUnchanged DEF ContentInvariant
  <1>6. ReferencesRecorded'
    <2>1. \A j \in Instances : work'[j] # None => work'[j] = work[j]
      BY <1>1, FinishEffect
    <2> QED BY <2>1, ReferencesUnchanged DEF ContentInvariant
  <1> QED BY <1>2, <1>3, <1>4, <1>5, <1>6 DEF ContentInvariant

LEMMA CrashPreserves ==
    ASSUME ContentInvariant, NEW i \in Instances, Crash(i)
    PROVE  ContentInvariant'
  <1>1. PICK written \in SUBSET work[i].keys : objects' = objects \cup written
    BY DEF Crash
  <1> QED BY <1>1, AbandonPreserves DEF Crash, database

LEMMA RollbackPreserves ==
    ASSUME ContentInvariant, NEW i \in Instances, Rollback(i)
    PROVE  ContentInvariant'
  <1>1. TypeOK /\ step[i] = "commit" /\ Advance(i, "cleanup")
    BY DEF ContentInvariant, Rollback
  <1>2. UNCHANGED <<role, document, branch, draft, history, ledger,
                    objects, seen, nextAttempt>>
    BY DEF Rollback, database
  <1>3. work[i] # None
    BY <1>1, RunningRequest DEF ContentInvariant
  <1>4. TypeOK'
    BY <1>1, <1>2, AdvanceEffect DEF TypeOK
  <1>5. AttemptKeysPrivate'
    BY <1>1, <1>2, <1>3, AdvanceEffect DEF ContentInvariant, AttemptKeysPrivate
  <1>6. UploadsPrecedeCommit'
    BY <1>1, <1>2, AdvanceEffect DEF ContentInvariant, UploadsPrecedeCommit
  <1>7. ReferencesRecorded' /\ VersionsOrdered'
    BY <1>1, <1>2, AdvanceEffect, OrderUnchanged, ReferencesUnchanged
       DEF ContentInvariant
  <1> QED BY <1>4, <1>5, <1>6, <1>7 DEF ContentInvariant

-----------------------------------------------------------------------------
(* What a transaction writes                                               *)

LEMMA AppendedEntries ==
    ASSUME NEW S, NEW s \in Seq(S), NEW x \in S
    PROVE  LET t == Append(s, x)
           IN  /\ \A k \in DOMAIN t : t[k] = x \/ (k \in DOMAIN s /\ t[k] = s[k])
               /\ \A k \in DOMAIN s : k \in DOMAIN t /\ t[k] = s[k]
               /\ \E k \in DOMAIN t : t[k] = x
  <1> DEFINE t == Append(s, x)
  <1>1. /\ Len(s) \in Nat /\ DOMAIN s = 1..Len(s)
        /\ DOMAIN t = 1..(Len(s) + 1)
        /\ \A k \in 1..Len(s) : t[k] = s[k]
        /\ t[Len(s) + 1] = x
    OBVIOUS
  <1> HIDE DEF t
  <1>2. /\ \A k \in DOMAIN t : t[k] = x \/ (k \in DOMAIN s /\ t[k] = s[k])
        /\ \A k \in DOMAIN s : k \in DOMAIN t /\ t[k] = s[k]
        /\ \E k \in DOMAIN t : t[k] = x
    BY <1>1
  <1> QED BY <1>2 DEF t

LEMMA HistoryAfterWrite ==
    ASSUME TypeOK, NEW request \in Request, Write(request)
    PROVE  /\ history' \in [Branches -> Seq(Version)]
           /\ \A b \in Branches :
                 \/ VersionsOf(b)' = VersionsOf(b)
                 \/ /\ request.version # None
                    /\ VersionsOf(b)' = VersionsOf(b) \cup {request.version}
  <1>1. CASE request.version = None
    BY <1>1 DEF Write, TypeOK, VersionsOf
  <1>2. CASE request.version # None
    <2> DEFINE c == request.row.branch
    <2>1. c \in Branches /\ request.version \in Version
      BY <1>2 DEF Request, DraftRow
    <2>2. history[c] \in Seq(Version)
      BY <2>1 DEF TypeOK
    <2>3. history' = [history EXCEPT ![c] = Append(@, request.version)]
      BY <1>2 DEF Write
    <2>4. Append(history[c], request.version) \in Seq(Version)
      BY <2>1, <2>2
    <2>5. history' \in [Branches -> Seq(Version)]
      BY <2>3, <2>4 DEF TypeOK
    <2>6. ASSUME NEW b \in Branches, b # c
          PROVE  VersionsOf(b)' = VersionsOf(b)
      BY <2>3, <2>6 DEF TypeOK, VersionsOf
    <2>7. VersionsOf(c)' = VersionsOf(c) \cup {request.version}
      <3>1. history'[c] = Append(history[c], request.version)
        BY <2>1, <2>3 DEF TypeOK
      <3>2. /\ \A k \in DOMAIN history'[c] :
                  \/ history'[c][k] = request.version
                  \/ k \in DOMAIN history[c] /\ history'[c][k] = history[c][k]
            /\ \A k \in DOMAIN history[c] :
                  k \in DOMAIN history'[c] /\ history'[c][k] = history[c][k]
            /\ \E k \in DOMAIN history'[c] : history'[c][k] = request.version
        <4> HIDE DEF c
        <4> QED BY <2>1, <2>2, <3>1, AppendedEntries
      <3> HIDE DEF c
      <3> QED BY <3>2 DEF VersionsOf
    <2> QED BY <1>2, <2>5, <2>6, <2>7
  <1> QED BY <1>1, <1>2

LEMMA WrittenRowTyped ==
    ASSUME ContentInvariant, NEW i \in Instances, work[i] # None,
           RowUnchanged(work[i])
    PROVE  /\ WrittenRow(work[i]) \in DraftRow
           /\ DraftKeys(WrittenRow(work[i]).attempt)
                 \subseteq ledger \cup work[i].keys
  <1> DEFINE request == work[i]
             d == request.draft
  <1>1. request \in Request
    BY DEF ContentInvariant, TypeOK
  <1>2. request.row \in DraftRow /\ d \in DraftIds
    BY <1>1 DEF Request
  <1>3. CASE request.version = None
    BY <1>2, <1>3 DEF WrittenRow, ContentInvariant, ReferencesRecorded
  <1>4. CASE request.version # None
    <2>1. draft[d] # None
      BY <1>4 DEF RowUnchanged, ContentInvariant, ReferencesRecorded
    <2>2. draft[d] \in DraftRow
      BY <1>2, <2>1 DEF ContentInvariant, TypeOK
    <2>3. "published" \in Status /\ request.row.stamp \in Nat \ {0}
      BY <1>2 DEF Status, DraftRow
    <2>4. WrittenRow(request) = [draft[d] EXCEPT !.status = "published",
                                                 !.stamp = request.row.stamp]
      BY <1>4 DEF WrittenRow
    <2>5. LET row == [draft[d] EXCEPT !.status = "published",
                                      !.stamp = request.row.stamp]
          IN  row \in DraftRow /\ row.attempt = draft[d].attempt
      BY <2>2, <2>3, RowRewritten
    <2> QED BY <1>2, <2>1, <2>4, <2>5 DEF ContentInvariant, ReferencesRecorded
  <1> QED BY <1>3, <1>4

\* A version with an id no other version has can be compared with all others.
LEMMA OrderExtended ==
    ASSUME NEW known \in SUBSET Version, NEW added \in Version,
           \A v \in known : v.id # added.id,
           \A versions \in SUBSET known : versions # {} =>
               \E v \in versions : \A w \in versions : w = v \/ Before(w, v),
           NEW versions \in SUBSET (known \cup {added}), versions # {}
    PROVE  \E v \in versions : \A w \in versions : w = v \/ Before(w, v)
  <1> DEFINE rest == versions \ {added}
  <1>1. CASE rest = {}
    BY <1>1
  <1>2. CASE rest # {} /\ added \in versions
    <2>1. PICK m \in rest : \A w \in rest : w = m \/ Before(w, m)
      BY <1>2
    <2>2. m \in known /\ m \in Version
      OBVIOUS
    <2>3. Before(added, m) \/ Before(m, added)
      BY <2>2, SMTT(20) DEF Before, Version
    <2>4. CASE Before(added, m)
      BY <2>1, <2>4
    <2>5. CASE Before(m, added)
      <3>1. ASSUME NEW w \in rest
            PROVE  Before(w, added)
        <4>1. w \in Version
          OBVIOUS
        <4> QED BY <2>1, <2>2, <2>5, <4>1 DEF Before, Version
      <3> QED BY <1>2, <3>1
    <2> QED BY <2>3, <2>4, <2>5
  <1>3. CASE added \notin versions
    BY <1>3
  <1> QED BY <1>1, <1>2, <1>3

LEMMA WritePreserves ==
    ASSUME ContentInvariant, NEW i \in Instances, step[i] = "commit",
           RowUnchanged(work[i]), Write(work[i]), Finish(i),
           UNCHANGED <<objects, seen, nextAttempt>>
    PROVE  ContentInvariant'
  <1> DEFINE request == work[i]
  <1>1. /\ TypeOK /\ request # None /\ request \in Request
        /\ KeysOf(i) = request.keys /\ request.keys \subseteq Key
    BY RunningRequest DEF ContentInvariant
  <1>2. /\ draft' = [draft EXCEPT ![request.draft] = WrittenRow(request)]
        /\ ledger' = ledger \cup request.keys
        /\ UNCHANGED <<role, document, branch>>
    BY DEF Write
  <1>3. request.keys \subseteq objects
    BY DEF ContentInvariant, UploadsPrecedeCommit
  <1>4. TypeOK'
    <2>1. draft' \in [DraftIds -> DraftRow \cup {None}]
      BY <1>1, <1>2, WrittenRowTyped DEF TypeOK
    <2>2. history' \in [Branches -> Seq(Version)]
      BY <1>1, HistoryAfterWrite
    <2>3. ledger' \subseteq Key
      BY <1>1, <1>2 DEF TypeOK
    <2> QED BY <1>1, <1>2, <2>1, <2>2, <2>3, FinishEffect DEF TypeOK
  <1>5. AttemptKeysPrivate'
    <2>1. \A key \in ledger' : key[1] < nextAttempt'
      BY <1>1, <1>2 DEF ContentInvariant, AttemptKeysPrivate
    <2>2. \A j \in Instances : \A key \in KeysOf(j)' :
            key[1] < nextAttempt' /\ key \notin ledger'
      BY <1>1, <1>2, FinishEffect DEF ContentInvariant, AttemptKeysPrivate
    <2>3. \A j, k \in Instances : j # k => KeysOf(j)' \cap KeysOf(k)' = {}
      BY <1>1, FinishEffect DEF ContentInvariant, AttemptKeysPrivate
    <2>4. \A j \in Instances : (step'[j] = "idle") <=> (work'[j] = None)
      BY <1>1, FinishEffect DEF ContentInvariant, AttemptKeysPrivate
    <2> QED BY <2>1, <2>2, <2>3, <2>4 DEF AttemptKeysPrivate
  <1>6. UploadsPrecedeCommit'
    BY <1>1, <1>2, <1>3, FinishEffect DEF ContentInvariant, UploadsPrecedeCommit
  <1>7. ReferencesRecorded'
    <2>1. \A d \in DraftIds :
            draft'[d] # None => DraftKeys(draft'[d].attempt) \subseteq ledger'
      BY <1>1, <1>2, WrittenRowTyped
         DEF ContentInvariant, ReferencesRecorded, TypeOK
    <2>2. \A b \in Branches :
            \A v \in VersionsOf(b)' : VersionKeys(v) \subseteq ledger'
      <3>1. request.version # None => VersionKeys(request.version) \subseteq ledger'
        BY <1>1, <1>2 DEF ContentInvariant, ReferencesRecorded
      <3> QED BY <1>1, <1>2, <3>1, HistoryAfterWrite
              DEF ContentInvariant, ReferencesRecorded
    <2>3. \A j \in Instances : work'[j] # None => work'[j] = work[j]
      BY <1>1, FinishEffect
    <2>4. \A j \in Instances : work'[j] # None =>
            /\ DraftKeys(work'[j].row.attempt) \subseteq ledger' \cup work'[j].keys
            /\ work'[j].version # None =>
                  /\ VersionKeys(work'[j].version) \subseteq work'[j].keys
                  /\ work'[j].need = "admin"
                  /\ work'[j].version.by = work'[j].actor
                  /\ work'[j].row.branch \in work'[j].scope
                  /\ work'[j].stamp # 0
      BY <1>2, <2>3 DEF ContentInvariant, ReferencesRecorded
    <2> QED BY <2>1, <2>2, <2>4 DEF ReferencesRecorded, VersionKeys, DraftKeys
  <1>8. VersionsOrdered'
    <2>1. ASSUME NEW b \in Branches, request.version # None,
                 VersionsOf(b)' = VersionsOf(b) \cup {request.version},
                 NEW versions \in SUBSET VersionsOf(b)', versions # {}
          PROVE  \E v \in versions : \A w \in versions : w = v \/ Before(w, v)
      <3>1. request.version \in Version /\ VersionsOf(b) \subseteq Version
        BY <1>1, <2>1, VersionsTyped DEF Request
      <3>2. \A v \in VersionsOf(b) : v.id # request.version.id
        <4>1. <<request.version.id, "raw">> \notin ledger
          BY <1>1, <2>1
             DEF ContentInvariant, ReferencesRecorded, AttemptKeysPrivate,
                 VersionKeys, DraftKeys
        <4>2. \A v \in VersionsOf(b) : <<v.id, "raw">> \in ledger
          BY DEF ContentInvariant, ReferencesRecorded, VersionKeys, DraftKeys
        <4> QED BY <4>1, <4>2
      <3>3. \A some \in SUBSET VersionsOf(b) : some # {} =>
              \E v \in some : \A w \in some : w = v \/ Before(w, v)
        BY DEF ContentInvariant, VersionsOrdered
      <3> QED BY <2>1, <3>1, <3>2, <3>3, OrderExtended
    <2>2. ASSUME NEW b \in Branches, VersionsOf(b)' = VersionsOf(b),
                 NEW versions \in SUBSET VersionsOf(b)', versions # {}
          PROVE  \E v \in versions : \A w \in versions : w = v \/ Before(w, v)
      BY <2>2 DEF ContentInvariant, VersionsOrdered
    <2>3. \A b \in Branches : \A versions \in SUBSET VersionsOf(b)' :
            versions # {} =>
              \E v \in versions : \A w \in versions : w = v \/ Before(w, v)
      BY <1>1, <2>1, <2>2, HistoryAfterWrite
    <2> QED BY <2>3 DEF VersionsOrdered, Before
  <1> QED BY <1>4, <1>5, <1>6, <1>7, <1>8 DEF ContentInvariant

LEMMA CommitPreserves ==
    ASSUME ContentInvariant, NEW i \in Instances, Commit(i)
    PROVE  ContentInvariant'
  BY WritePreserves DEF Commit, Acceptable

LEMMA CommitUnknownPreserves ==
    ASSUME ContentInvariant, NEW i \in Instances, CommitUnknown(i)
    PROVE  ContentInvariant'
  <1>1. CASE Write(work[i])
    BY <1>1, WritePreserves DEF CommitUnknown, Acceptable
  <1>2. CASE UNCHANGED database
    <2>1. objects' = objects \cup {} /\ {} \in SUBSET work[i].keys
      BY DEF CommitUnknown
    <2>2. step[i] # "idle" /\ Finish(i)
      BY DEF CommitUnknown
    <2>3. UNCHANGED <<role, document, branch, draft, history, ledger,
                      seen, nextAttempt>>
      BY <1>2 DEF CommitUnknown, database
    <2> QED BY <2>1, <2>2, <2>3, AbandonPreserves
  <1> QED BY <1>1, <1>2 DEF CommitUnknown

-----------------------------------------------------------------------------
(* Other handlers, and the theorems                                        *)

\* Handlers that leave drafts, versions, objects and requests alone.
LEMMA OtherHandlersPreserve ==
    ASSUME ContentInvariant, OtherHandlers
    PROVE  ContentInvariant'
  <1>1. /\ UNCHANGED <<draft, history, ledger, objects, step, work, nextAttempt>>
        /\ role' \in [Actors -> Roles]
        /\ document' \in [active : BOOLEAN, stamp : Nat]
        /\ branch' \in [Branches -> {"active", "archived"}]
        /\ seen' \in [DraftIds -> Snapshot \cup {None}]
    <2> USE DEF ContentInvariant
    <2>1. ASSUME NEW d \in DraftIds, LoadDraft(d)
          PROVE  <1>1
      BY <2>1, SnapshotTyped DEF LoadDraft, database, process, TypeOK
    <2>2. ASSUME NEW a \in Actors, NEW r \in Roles, ChangeRole(a, r)
          PROVE  <1>1
      BY <2>2 DEF ChangeRole, process, TypeOK
    <2>3. ASSUME NEW a \in Actors, NEW b \in Branches, ArchiveBranch(a, b)
          PROVE  <1>1
      BY <2>3 DEF ArchiveBranch, process, TypeOK
    <2>4. ASSUME NEW a \in Actors, UpdateDocument(a)
          PROVE  <1>1
      <3>1. document' = [document EXCEPT !.stamp = @ + 1]
        BY <2>4 DEF UpdateDocument
      <3>2. document \in [active : BOOLEAN, stamp : Nat]
        BY DEF TypeOK
      <3>3. document' \in [active : BOOLEAN, stamp : Nat]
        BY <3>1, <3>2
      <3> QED BY <2>4, <3>3 DEF UpdateDocument, process, TypeOK
    <2>5. ASSUME NEW a \in Actors, ArchiveDocument(a)
          PROVE  <1>1
      BY <2>5 DEF ArchiveDocument, process, TypeOK
    <2> QED BY <2>1, <2>2, <2>3, <2>4, <2>5 DEF OtherHandlers
  <1>2. TypeOK'
    BY <1>1 DEF ContentInvariant, TypeOK
  <1>3. AttemptKeysPrivate' /\ UploadsPrecedeCommit'
    BY <1>1 DEF ContentInvariant, AttemptKeysPrivate, UploadsPrecedeCommit, KeysOf
  <1>4. ReferencesRecorded' /\ VersionsOrdered'
    BY <1>1, OrderUnchanged, ReferencesUnchanged DEF ContentInvariant
  <1> QED BY <1>2, <1>3, <1>4 DEF ContentInvariant

LEMMA StutteringPreserves ==
    ASSUME ContentInvariant, UNCHANGED vars
    PROVE  ContentInvariant'
  <1>1. UNCHANGED <<role, document, branch, draft, history, ledger,
                    objects, seen, step, work, nextAttempt>>
    BY DEF vars
  <1>2. TypeOK'
    BY <1>1 DEF ContentInvariant, TypeOK
  <1>3. AttemptKeysPrivate' /\ UploadsPrecedeCommit'
    BY <1>1 DEF ContentInvariant, AttemptKeysPrivate, UploadsPrecedeCommit, KeysOf
  <1>4. ReferencesRecorded' /\ VersionsOrdered'
    BY <1>1, OrderUnchanged, ReferencesUnchanged DEF ContentInvariant
  <1> QED BY <1>2, <1>3, <1>4 DEF ContentInvariant

LEMMA DraftRequestPreserves ==
    ASSUME ContentInvariant, NEW i \in Instances, DraftRequest(i)
    PROVE  ContentInvariant'
  <1>1. PICK a \in Actors, d \in DraftIds :
          \/ \E b \in Branches, name \in Names, content \in Contents :
                CreateDraft(i, a, d, b, name, content)
          \/ \E from, to \in Branches, name \in Names :
                PromoteDraft(i, a, d, from, to, name)
          \/ \E name \in Names, content \in Contents :
                UpdateDraft(i, a, d, name, content)
          \/ SubmitDraft(i, a, d)
          \/ \E verdict \in {"changes-requested", "rejected"} :
                ReturnDraft(i, a, d, verdict)
          \/ ApproveDraft(i, a, d)
    BY DEF DraftRequest
  <1> QED BY <1>1, CreateDraftPreserves, PromoteDraftPreserves,
             UpdateDraftPreserves, SubmitDraftPreserves, ReturnDraftPreserves,
             ApproveDraftPreserves

LEMMA ProgressPreserves ==
    ASSUME ContentInvariant, NEW i \in Instances, Progress(i)
    PROVE  ContentInvariant'
  BY PutObjectsPreserves, PutFailsPreserves, CommitPreserves, RollbackPreserves,
     CommitUnknownPreserves, CleanupPreserves, CrashPreserves DEF Progress

LEMMA InitEstablishes ==
    ASSUME Init
    PROVE  ContentInvariant
  <1>1. TypeOK
    BY DEF Init, TypeOK
  <1>2. AttemptKeysPrivate /\ UploadsPrecedeCommit
    BY DEF Init, AttemptKeysPrivate, UploadsPrecedeCommit, KeysOf
  <1>3. \A b \in Branches : VersionsOf(b) = {}
    BY DEF Init, VersionsOf
  <1>4. ReferencesRecorded /\ VersionsOrdered
    BY <1>3 DEF Init, ReferencesRecorded, VersionsOrdered
  <1> QED BY <1>1, <1>2, <1>4 DEF ContentInvariant

\* Rows keep their types, attempts write and delete keys of their own only,
\* and rows name recorded keys: in every reachable state, whatever fails.
THEOREM ContentInvariantHolds == Spec => []ContentInvariant
  <1>1. Init => ContentInvariant
    BY InitEstablishes
  <1>2. ContentInvariant /\ [Next]_vars => ContentInvariant'
    BY DraftRequestPreserves, ProgressPreserves, OtherHandlersPreserve,
       StutteringPreserves DEF Next
  <1> QED BY <1>1, <1>2, PTL DEF Spec

\* Every variable keeps its type.
THEOREM TypeCorrect == Spec => []TypeOK
  <1>1. ContentInvariant => TypeOK
    BY DEF ContentInvariant
  <1> QED BY <1>1, ContentInvariantHolds, PTL

\* No failed, ambiguous or crashed attempt of any process takes away an object
\* that a draft row or a version row reads.
THEOREM ContentIsKept == Spec => []StoredContentPresent
  <1>1. ContentInvariant => StoredContentPresent
    BY DEF ContentInvariant, UploadsPrecedeCommit, ReferencesRecorded,
           StoredContentPresent
  <1> QED BY <1>1, ContentInvariantHolds, PTL

\* Versions are added only by an admin of the project, to an active branch of
\* an active document, with the path the document row has in that state.
THEOREM PublicationAuthorised == Spec => PublicationIsAuthorised
  <1> DEFINE Authorised ==
        \A b \in Branches :
          history'[b] # history[b] =>
              LET v == history'[b][Len(history'[b])]
              IN  /\ CanPublish(v.by)
                  /\ ContextActive(b)
                  /\ v.path = document.stamp
  <1>1. ASSUME ContentInvariant, history' = history
        PROVE  Authorised
    BY <1>1
  <1>2. ASSUME ContentInvariant, NEW i \in Instances, step[i] = "commit",
               Acceptable(work[i]), Write(work[i])
        PROVE  Authorised
    <2> DEFINE request == work[i]
               c == request.row.branch
    <2>1. CASE request.version = None
      BY <1>1, <1>2, <2>1 DEF Write
    <2>2. CASE request.version # None
      <3>1. request # None /\ request \in Request
        BY <1>2, RunningRequest DEF ContentInvariant
      <3>2. c \in Branches /\ request.version \in Version
        BY <2>2, <3>1 DEF Request, DraftRow
      <3>3. history[c] \in Seq(Version)
        BY <1>2, <3>2 DEF ContentInvariant, TypeOK
      <3>4. history' = [history EXCEPT ![c] = Append(@, request.version)]
        BY <1>2, <2>2 DEF Write
      <3>5. /\ history'[c] = Append(history[c], request.version)
            /\ \A b \in Branches : b # c => history'[b] = history[b]
        BY <1>2, <3>2, <3>4 DEF ContentInvariant, TypeOK
      <3>6. history'[c][Len(history'[c])] = request.version
        BY <3>2, <3>3, <3>5
      <3>7. /\ CanPublish(request.version.by) /\ ContextActive(c)
            /\ request.version.path = document.stamp
        BY <1>2, <2>2, <3>1
           DEF Acceptable, GuardHolds, ContextActive, ContentInvariant,
               ReferencesRecorded
      <3> QED BY <3>5, <3>6, <3>7
    <2> QED BY <2>1, <2>2
  <1>3. ASSUME ContentInvariant, [Next]_vars
        PROVE  Authorised
    <2>1. ASSUME NEW i \in Instances, DraftRequest(i)
          PROVE  history' = history
      BY <1>3, <2>1, DraftRequestStarts DEF ContentInvariant, Starts
    <2>2. ASSUME NEW i \in Instances, Progress(i)
          PROVE  \/ history' = history
                 \/ step[i] = "commit" /\ Acceptable(work[i]) /\ Write(work[i])
      BY <2>2 DEF Progress, PutObjects, PutFails, Commit, Rollback, CommitUnknown,
                  Cleanup, Crash, database
    <2>3. OtherHandlers \/ UNCHANGED vars => history' = history
      BY DEF OtherHandlers, LoadDraft, ChangeRole, ArchiveBranch, UpdateDocument,
             ArchiveDocument, database, vars
    <2> QED BY <1>1, <1>2, <1>3, <2>1, <2>2, <2>3 DEF Next
  <1>4. ContentInvariant /\ [Next]_vars => [Authorised]_vars
    BY <1>3
  <1>5. Spec => [][Authorised]_vars
    <2> HIDE DEF Authorised
    <2> QED BY <1>4, ContentInvariantHolds, PTL DEF Spec
  <1> QED BY <1>5, PTL DEF PublicationIsAuthorised

\* When deletes work, commits report their outcome and processes survive, no
\* object stays behind without a ledger row or a running request.
THEOREM NothingLeftBehind ==
    ASSUME Faults \cap {"delete", "unknown", "crash"} = {}
    PROVE  Spec => []NoStrayObjects
  <1>1. Init => NoStrayObjects
    BY DEF Init, NoStrayObjects
  <1>2. ASSUME ContentInvariant, NoStrayObjects, [Next]_vars
        PROVE  NoStrayObjects'
    <2>1. ASSUME NEW i \in Instances, DraftRequest(i)
          PROVE  NoStrayObjects'
      <3>1. Starts(i) /\ work[i] = None
        BY <1>2, <2>1, DraftRequestStarts
           DEF ContentInvariant, AttemptKeysPrivate, Starts
      <3> QED BY <1>2, <3>1 DEF Starts, NoStrayObjects
    <2>2. ASSUME NEW i \in Instances, PutObjects(i) \/ PutFails(i)
          PROVE  NoStrayObjects'
      <3>1. /\ work' = work /\ ledger' = ledger /\ work[i] # None
            /\ objects' \subseteq objects \cup work[i].keys
        BY <1>2, <2>2, RunningRequest
           DEF PutObjects, PutFails, Advance, database, ContentInvariant
      <3> QED BY <1>2, <3>1 DEF NoStrayObjects
    <2>3. ASSUME NEW i \in Instances, Commit(i)
          PROVE  NoStrayObjects'
      <3>1. /\ objects' = objects /\ ledger' = ledger \cup work[i].keys
            /\ \A j \in Instances \ {i} : work'[j] = work[j]
        BY <1>2, <2>3, FinishEffect DEF Commit, Write, ContentInvariant
      <3> QED BY <1>2, <3>1 DEF NoStrayObjects
    <2>4. ASSUME NEW i \in Instances, Rollback(i)
          PROVE  NoStrayObjects'
      BY <1>2, <2>4 DEF Rollback, Advance, database, NoStrayObjects
    <2>5. ASSUME NEW i \in Instances, Cleanup(i)
          PROVE  NoStrayObjects'
      <3>1. /\ objects' = objects \ work[i].keys /\ ledger' = ledger
            /\ \A j \in Instances \ {i} : work'[j] = work[j]
        BY <1>2, <2>5, FinishEffect DEF Cleanup, database, ContentInvariant
      <3> QED BY <1>2, <3>1 DEF NoStrayObjects
    <2>6. ASSUME NEW i \in Instances, CommitUnknown(i) \/ Crash(i)
          PROVE  FALSE
      BY <2>6 DEF CommitUnknown, Crash
    <2>7. CASE OtherHandlers \/ UNCHANGED vars
      <3>1. UNCHANGED <<objects, ledger, work>>
        BY <2>7 DEF OtherHandlers, LoadDraft, ChangeRole, ArchiveBranch,
                    UpdateDocument, ArchiveDocument, database, process, vars
      <3> QED BY <1>2, <3>1 DEF NoStrayObjects
    <2> QED BY <1>2, <2>1, <2>2, <2>3, <2>4, <2>5, <2>6, <2>7 DEF Next, Progress
  <1> QED BY <1>1, <1>2, ContentInvariantHolds, PTL DEF Spec

-----------------------------------------------------------------------------
(* Running requests and the rows they were prepared over                   *)

\* What a handler derives from the draft row it loaded: an edit or submission
\* of an open draft, or a verdict on a submitted one.
PreparedOver(request, row) ==
    /\ request.row.branch = row.branch
    /\ \/ /\ row.status \in {"draft", "changes-requested"}
          /\ request.version = None
          /\ request.loaded # None =>
                /\ request.loaded.status = row.status
                /\ request.loaded.name = row.name
                /\ request.loaded.content = row.content
       \/ /\ row.status = "submitted"
          /\ request.loaded # None
          /\ request.loaded.status = row.status
          /\ request.loaded.name = row.name
          /\ request.loaded.content = row.content
          /\ request.loaded.round = row.round
          /\ request.row.status \in {"changes-requested", "rejected", "published"}
          /\ request.row.name = row.name
          /\ request.row.content = row.content
          /\ request.version # None =>
                /\ request.version.name = row.name
                /\ request.version.content = row.content

\* As long as the stamp of a row is the one a request was prepared over, the
\* row is the one the request was prepared over.
Follows(request) ==
    /\ request.row.stamp = request.stamp + 1
    /\ request.stamp = 0 => request.version = None /\ request.loaded = None
    /\ request.stamp # 0 =>
          /\ draft[request.draft] # None
          /\ request.stamp <= draft[request.draft].stamp
          /\ request.stamp = draft[request.draft].stamp =>
                PreparedOver(request, draft[request.draft])
    /\ request.version # None =>
          /\ request.version.draft = request.draft
          /\ request.version.id # 0
          /\ request.loaded # None
          /\ request.version.view = request.loaded
          /\ request.loaded.base = request.version.base

\* What makes VersionIsWhatWasReviewed inductive.
ReviewInvariant ==
    /\ \A i \in Instances : work[i] # None => Follows(work[i])
    /\ VersionIsWhatWasReviewed

\* The id of the n-th version of a branch, 0 before the first.
IdAt(b, n) == IF n = 0 THEN 0 ELSE history[b][n].id

\* The place in its branch a request was given for its version.
InLine(request) ==
    request.version # None =>
        LET n == request.version.at - 1
        IN  /\ n \in 0..Len(history[request.row.branch])
            /\ request.version.base = IdAt(request.row.branch, n)
            /\ request.version.prev = IdAt(request.row.branch, n)

\* Versions are numbered by their clock, and each follows the one before it.
Line(b) ==
    /\ \A k \in DOMAIN history[b] :
          /\ history[b][k].at = k
          /\ history[b][k].id # 0
          /\ history[b][k].base = IdAt(b, k - 1)
          /\ history[b][k].prev = IdAt(b, k - 1)
    /\ \A k, m \in DOMAIN history[b] :
          history[b][k].id = history[b][m].id => k = m

\* What makes HistoryIsALine inductive while clocks agree.
LineInvariant ==
    /\ \A b \in Branches : Line(b)
    /\ \A i \in Instances : work[i] # None => InLine(work[i])

-----------------------------------------------------------------------------
(* Handlers                                                                *)

LEMMA BeginWork ==
    ASSUME ContentInvariant, NEW i \in Instances, NEW request,
           Begin(i, request)
    PROVE  work'[i] = request
  BY DEF Begin, ContentInvariant, TypeOK

LEMMA NewDraftFollows ==
    ASSUME ContentInvariant, NEW i \in Instances, NEW a, NEW need, NEW scope,
           NEW d, NEW b, NEW name, NEW content,
           NewDraft(i, a, need, scope, d, b, name, content)
    PROVE  Follows(work'[i]) /\ InLine(work'[i])
  BY BeginWork DEF NewDraft, Follows, InLine

LEMMA UpdateDraftFollows ==
    ASSUME ContentInvariant, NEW i \in Instances, NEW a \in Actors,
           NEW d \in DraftIds, NEW name \in Names, NEW content \in Contents,
           UpdateDraft(i, a, d, name, content)
    PROVE  Follows(work'[i]) /\ InLine(work'[i])
  <1> DEFINE edited == [draft[d] EXCEPT !.status = "draft", !.name = name,
                                        !.content = content, !.stamp = @ + 1]
             moved == [edited EXCEPT !.attempt = nextAttempt]
  <1>1. draft[d] # None /\ draft[d] \in DraftRow
    BY DEF UpdateDraft, ContentInvariant, TypeOK
  <1>2. /\ edited.stamp = draft[d].stamp + 1 /\ moved.stamp = draft[d].stamp + 1
        /\ edited.branch = draft[d].branch /\ moved.branch = draft[d].branch
    BY <1>1 DEF DraftRow
  <1>3. /\ draft[d].status \in {"draft", "changes-requested"}
        /\ seen[d].status = draft[d].status /\ seen[d].name = draft[d].name
        /\ seen[d].content = draft[d].content
    BY DEF UpdateDraft, WriterCanChange, RevisionUnchanged
  <1>4. \/ work'[i] = Rewrite(a, "writer", d, edited, seen[d], {})
        \/ work'[i] = Rewrite(a, "writer", d, moved, seen[d],
                              DraftKeys(nextAttempt))
    BY BeginWork DEF UpdateDraft
  <1>5. draft[d].stamp \in Nat \ {0}
    BY <1>1 DEF DraftRow
  <1> HIDE DEF edited, moved
  <1> QED BY <1>1, <1>2, <1>3, <1>4, <1>5 DEF Rewrite, Follows, PreparedOver, InLine

LEMMA SubmitDraftFollows ==
    ASSUME ContentInvariant, NEW i \in Instances, NEW a \in Actors,
           NEW d \in DraftIds, SubmitDraft(i, a, d)
    PROVE  Follows(work'[i]) /\ InLine(work'[i])
  <1> DEFINE row == [draft[d] EXCEPT !.status = "submitted",
                                     !.round = @ + 1, !.stamp = @ + 1]
  <1>1. draft[d] # None /\ draft[d] \in DraftRow
    BY DEF SubmitDraft, ContentInvariant, TypeOK
  <1>2. row.stamp = draft[d].stamp + 1 /\ row.branch = draft[d].branch
    BY <1>1 DEF DraftRow
  <1>3. draft[d].status \in {"draft", "changes-requested"}
    BY DEF SubmitDraft, WriterCanChange
  <1>4. work'[i] = Rewrite(a, "writer", d, row, None, {})
    BY BeginWork DEF SubmitDraft
  <1>5. draft[d].stamp \in Nat \ {0}
    BY <1>1 DEF DraftRow
  <1> HIDE DEF row
  <1> QED BY <1>1, <1>2, <1>3, <1>4, <1>5 DEF Rewrite, Follows, PreparedOver, InLine

\* A reviewer's snapshot is the row, with the baseline of that moment.
LEMMA ReviewedSnapshot ==
    ASSUME ContentInvariant, NEW a \in Actors, NEW d \in DraftIds,
           Reviewable(a, d)
    PROVE  /\ draft[d] # None /\ draft[d] \in DraftRow
           /\ draft[d].status = "submitted"
           /\ seen[d] # None /\ seen[d].status = "submitted"
           /\ seen[d].name = draft[d].name
           /\ seen[d].content = draft[d].content
           /\ seen[d].round = draft[d].round
           /\ seen[d].base = LatestId(draft[d].branch)
  <1>1. draft[d] # None /\ draft[d] \in DraftRow
    BY DEF Reviewable, ContentInvariant, TypeOK
  <1>2. SnapshotOf(d) \in Snapshot
    BY <1>1, SnapshotTyped DEF ContentInvariant
  <1>3. seen[d] = SnapshotOf(d) /\ draft[d].status = "submitted"
    BY DEF Reviewable, ReviewUnchanged
  <1>4. seen[d] # None
    BY <1>2, <1>3, NoneAssumption
  <1> QED BY <1>1, <1>3, <1>4 DEF SnapshotOf

LEMMA ReturnDraftFollows ==
    ASSUME ContentInvariant, NEW i \in Instances, NEW a \in Actors,
           NEW d \in DraftIds, NEW verdict \in {"changes-requested", "rejected"},
           ReturnDraft(i, a, d, verdict)
    PROVE  Follows(work'[i]) /\ InLine(work'[i])
  <1> DEFINE row == [draft[d] EXCEPT !.status = verdict, !.stamp = @ + 1]
  <1>1. Reviewable(a, d) /\ work'[i] = Rewrite(a, "admin", d, row, seen[d], {})
    BY BeginWork DEF ReturnDraft
  <1>2. /\ row.stamp = draft[d].stamp + 1 /\ row.branch = draft[d].branch
        /\ row.status = verdict /\ row.name = draft[d].name
        /\ row.content = draft[d].content /\ draft[d].stamp \in Nat \ {0}
    BY <1>1, ReviewedSnapshot DEF DraftRow
  <1> HIDE DEF row
  <1> QED BY <1>1, <1>2, ReviewedSnapshot
          DEF Rewrite, Follows, PreparedOver, InLine

\* What an approval prepares.
LEMMA Approval ==
    ASSUME ContentInvariant, NEW i \in Instances, NEW a \in Actors,
           NEW d \in DraftIds, ApproveDraft(i, a, d)
    PROVE  LET b == draft[d].branch
               request == work'[i]
           IN  /\ Reviewable(a, d)
               /\ request.draft = d /\ request.stamp = draft[d].stamp
               /\ request.loaded = seen[d] /\ request.row.branch = b
               /\ request.row.stamp = draft[d].stamp + 1
               /\ request.row.status = "published"
               /\ request.row.name = draft[d].name
               /\ request.row.content = draft[d].content
               /\ request.version.draft = d
               /\ request.version.id = nextAttempt
               /\ request.version.name = draft[d].name
               /\ request.version.content = draft[d].content
               /\ request.version.view = seen[d]
               /\ request.version.base = LatestId(b)
               /\ request.version.at \in ClockReadings(b)
               /\ request.version.prev =
                     PreviousId(b, request.version.at, nextAttempt)
  <1> DEFINE b == draft[d].branch
             version(at) ==
               [id |-> nextAttempt, draft |-> d, name |-> draft[d].name,
                content |-> draft[d].content, at |-> at, base |-> LatestId(b),
                prev |-> PreviousId(b, at, nextAttempt),
                path |-> document.stamp, by |-> a, view |-> seen[d]]
             published == [draft[d] EXCEPT !.status = "published",
                                           !.stamp = @ + 1]
             request(at) ==
               [Rewrite(a, "admin", d, published, seen[d],
                        VersionKeys(version(at)))
                EXCEPT !.scope = {b}, !.version = version(at)]
  <1>1. Reviewable(a, d)
    BY DEF ApproveDraft
  <1>2. PICK at \in ClockReadings(b) : work'[i] = request(at)
    BY BeginWork DEF ApproveDraft
  <1>3. /\ published.stamp = draft[d].stamp + 1 /\ published.branch = b
        /\ published.status = "published" /\ published.name = draft[d].name
        /\ published.content = draft[d].content
    BY <1>1, ReviewedSnapshot DEF DraftRow
  <1>4. /\ work'[i].draft = d /\ work'[i].stamp = draft[d].stamp
        /\ work'[i].loaded = seen[d] /\ work'[i].row = published
        /\ work'[i].version = version(at)
    <2> HIDE DEF published, version
    <2> QED BY <1>2 DEF Rewrite
  <1>5. /\ version(at).draft = d /\ version(at).id = nextAttempt
        /\ version(at).name = draft[d].name
        /\ version(at).content = draft[d].content
        /\ version(at).view = seen[d] /\ version(at).base = LatestId(b)
        /\ version(at).at = at
        /\ version(at).prev = PreviousId(b, at, nextAttempt)
    OBVIOUS
  <1> HIDE DEF published, version
  <1> QED BY <1>1, <1>2, <1>3, <1>4, <1>5

LEMMA ApproveDraftFollows ==
    ASSUME ContentInvariant, NEW i \in Instances, NEW a \in Actors,
           NEW d \in DraftIds, ApproveDraft(i, a, d)
    PROVE  Follows(work'[i])
  <1>1. nextAttempt # 0
    BY DEF ContentInvariant, TypeOK
  <1>2. draft[d].stamp \in Nat \ {0}
    BY Approval, ReviewedSnapshot DEF DraftRow
  <1> QED BY <1>1, <1>2, Approval, ReviewedSnapshot DEF Follows, PreparedOver

LEMMA DraftRequestFollows ==
    ASSUME ContentInvariant, NEW i \in Instances, DraftRequest(i)
    PROVE  Follows(work'[i])
  <1>1. PICK a \in Actors, d \in DraftIds :
          \/ \E b \in Branches, name \in Names, content \in Contents :
                CreateDraft(i, a, d, b, name, content)
          \/ \E from, to \in Branches, name \in Names :
                PromoteDraft(i, a, d, from, to, name)
          \/ \E name \in Names, content \in Contents :
                UpdateDraft(i, a, d, name, content)
          \/ SubmitDraft(i, a, d)
          \/ \E verdict \in {"changes-requested", "rejected"} :
                ReturnDraft(i, a, d, verdict)
          \/ ApproveDraft(i, a, d)
    BY DEF DraftRequest
  <1>2. ASSUME NEW b \in Branches, NEW name \in Names, NEW content \in Contents,
               CreateDraft(i, a, d, b, name, content)
        PROVE  Follows(work'[i])
    BY <1>2, NewDraftFollows DEF CreateDraft
  <1>3. ASSUME NEW from \in Branches, NEW to \in Branches, NEW name \in Names,
               PromoteDraft(i, a, d, from, to, name)
        PROVE  Follows(work'[i])
    BY <1>3, NewDraftFollows DEF PromoteDraft
  <1> QED BY <1>1, <1>2, <1>3, UpdateDraftFollows, SubmitDraftFollows,
             ReturnDraftFollows, ApproveDraftFollows

-----------------------------------------------------------------------------
(* Steps: a handler begins, a transaction writes, or nothing of this moves *)

\* Drafts, versions and the requests that go on stay as they are.
Quiet ==
    /\ UNCHANGED <<draft, history>>
    /\ \A j \in Instances : work'[j] # None => work'[j] = work[j]

\* The transaction of process i commits.
Writes(i) ==
    /\ step[i] = "commit"
    /\ Acceptable(work[i])
    /\ Write(work[i])
    /\ \A j \in Instances : work'[j] # None => j # i /\ work'[j] = work[j]
    /\ \A j \in Instances \ {i} : step'[j] = step[j]

LEMMA Steps ==
    ASSUME ContentInvariant, [Next]_vars
    PROVE  \/ \E i \in Instances : DraftRequest(i)
           \/ \E i \in Instances : Writes(i)
           \/ Quiet
  <1>1. ASSUME NEW i \in Instances, Finish(i)
        PROVE  /\ \A j \in Instances :
                     work'[j] # None => j # i /\ work'[j] = work[j]
               /\ \A j \in Instances \ {i} : step'[j] = step[j]
    BY <1>1, FinishEffect DEF ContentInvariant
  <1>2. ASSUME NEW i \in Instances, Progress(i)
        PROVE  Writes(i) \/ Quiet
    <2>1. CASE PutObjects(i) \/ PutFails(i) \/ Rollback(i)
      BY <2>1 DEF PutObjects, PutFails, Rollback, Advance, database, Quiet
    <2>2. CASE Cleanup(i) \/ Crash(i)
      BY <1>1, <2>2 DEF Cleanup, Crash, database, Quiet
    <2>3. CASE Commit(i) \/ CommitUnknown(i)
      BY <1>1, <2>3 DEF Commit, CommitUnknown, database, Quiet, Writes
    <2> QED BY <1>2, <2>1, <2>2, <2>3 DEF Progress
  <1>3. CASE OtherHandlers \/ UNCHANGED vars
    BY <1>3 DEF OtherHandlers, LoadDraft, ChangeRole, ArchiveBranch,
                UpdateDocument, ArchiveDocument, database, process, vars, Quiet
  <1> QED BY <1>2, <1>3 DEF Next

\* A committed write moves the stamp of its draft by one, over the row its
\* request was prepared over.
LEMMA WriteEffect ==
    ASSUME ContentInvariant, ReviewInvariant, NEW i \in Instances, Writes(i)
    PROVE  LET request == work[i]
               d == request.draft
           IN  /\ request # None /\ request \in Request /\ d \in DraftIds
               /\ Follows(request)
               /\ \A e \in DraftIds : e # d => draft'[e] = draft[e]
               /\ draft'[d] = WrittenRow(request) /\ draft'[d] \in DraftRow
               /\ draft'[d] # None /\ draft'[d].stamp = request.stamp + 1
               /\ draft[d] # None =>
                     /\ draft[d] \in DraftRow
                     /\ request.stamp = draft[d].stamp
                     /\ PreparedOver(request, draft[d])
               /\ draft[d] = None => request.stamp = 0
  <1> DEFINE request == work[i]
             d == request.draft
  <1>1. /\ request # None /\ request \in Request /\ d \in DraftIds
        /\ request.row \in DraftRow
    BY RunningRequest DEF Writes, ContentInvariant, Request
  <1>2. Follows(request)
    BY <1>1 DEF ReviewInvariant
  <1>3. RowUnchanged(request)
    BY DEF Writes, Acceptable
  <1>4. /\ \A e \in DraftIds : e # d => draft'[e] = draft[e]
        /\ draft'[d] = WrittenRow(request)
    BY <1>1 DEF Writes, Write, ContentInvariant, TypeOK
  <1>5. WrittenRow(request) \in DraftRow
    BY <1>1, <1>3, WrittenRowTyped
  <1>6. draft[d] # None =>
          /\ draft[d] \in DraftRow /\ request.stamp = draft[d].stamp
          /\ PreparedOver(request, draft[d])
    BY <1>1, <1>2, <1>3 DEF RowUnchanged, Follows, ContentInvariant, TypeOK, DraftRow
  <1>7. draft[d] = None => request.stamp = 0
    BY <1>3 DEF RowUnchanged
  <1>8. WrittenRow(request).stamp = request.stamp + 1
    <2>1. CASE request.version = None
      BY <1>2, <2>1 DEF WrittenRow, Follows
    <2>2. CASE request.version # None
      BY <1>2, <1>6, <1>7, <2>2 DEF WrittenRow, Follows, DraftRow
    <2> QED BY <2>1, <2>2
  <1> QED BY <1>1, <1>2, <1>4, <1>5, <1>6, <1>7, <1>8, NoneAssumption

\* The row a publication leaves.
LEMMA PublishedRow ==
    ASSUME ContentInvariant, ReviewInvariant, NEW i \in Instances, Writes(i),
           work[i].version # None
    PROVE  LET request == work[i]
               d == request.draft
           IN  /\ draft[d] # None /\ draft[d].status = "submitted"
               /\ draft'[d].status = "published"
               /\ draft'[d].name = draft[d].name
               /\ draft'[d].content = draft[d].content
               /\ draft'[d].round = draft[d].round
  <1>1. /\ Follows(work[i]) /\ work[i].draft \in DraftIds
        /\ draft'[work[i].draft] = WrittenRow(work[i])
    BY WriteEffect
  <1>2. draft[work[i].draft] # None
    BY <1>1, WriteEffect DEF Follows
  <1>3. draft[work[i].draft] \in DraftRow
    BY <1>2, WriteEffect
  <1>4. draft[work[i].draft].status = "submitted"
    BY DEF Writes, Acceptable, VersionAcceptable
  <1> QED BY <1>1, <1>2, <1>3, <1>4 DEF WrittenRow, DraftRow

-----------------------------------------------------------------------------
(* The review invariant                                                    *)

LEMMA ReviewBegins ==
    ASSUME ContentInvariant, ReviewInvariant, NEW i \in Instances,
           DraftRequest(i)
    PROVE  ReviewInvariant'
  <1>1. Starts(i)
    BY DraftRequestStarts DEF ContentInvariant
  <1>2. \A j \in Instances : work'[j] # None => Follows(work'[j])
    BY <1>1, DraftRequestFollows DEF Starts, ReviewInvariant
  <1>3. \A j \in Instances : (work[j] # None => Follows(work[j]))'
    BY <1>1, <1>2 DEF Starts, Follows
  <1>4. VersionIsWhatWasReviewed'
    BY <1>1 DEF Starts, ReviewInvariant, VersionIsWhatWasReviewed, VersionsOf
  <1> QED BY <1>3, <1>4 DEF ReviewInvariant

LEMMA ReviewQuiet ==
    ASSUME ReviewInvariant, Quiet
    PROVE  ReviewInvariant'
  <1>1. \A j \in Instances : (work[j] # None => Follows(work[j]))'
    BY DEF Quiet, Follows, ReviewInvariant
  <1>2. VersionIsWhatWasReviewed'
    BY DEF Quiet, ReviewInvariant, VersionIsWhatWasReviewed, VersionsOf
  <1> QED BY <1>1, <1>2 DEF ReviewInvariant

LEMMA ReviewWritten ==
    ASSUME ContentInvariant, ReviewInvariant, NEW i \in Instances, Writes(i)
    PROVE  ReviewInvariant'
  <1> DEFINE request == work[i]
             d == request.draft
  <1>1. ASSUME NEW j \in Instances, work'[j] # None
        PROVE  Follows(work[j])'
    <2>1. work'[j] = work[j] /\ work[j] # None
      BY <1>1 DEF Writes
    <2>2. Follows(work[j]) /\ work[j].draft \in DraftIds /\ work[j].stamp \in Nat
      BY <2>1 DEF ReviewInvariant, ContentInvariant, TypeOK, Request
    <2>3. CASE work[j].draft # d
      BY <2>1, <2>2, <2>3, WriteEffect DEF Follows
    <2>4. CASE work[j].draft = d
      <3>1. /\ request.stamp \in Nat /\ draft'[d] # None
            /\ draft'[d].stamp = request.stamp + 1
            /\ draft[d] # None => request.stamp = draft[d].stamp
        BY WriteEffect DEF Request
      <3> HIDE DEF d
      <3> QED BY <2>1, <2>2, <2>4, <3>1 DEF Follows
    <2> QED BY <2>3, <2>4
  <1>2. ASSUME NEW b \in Branches, NEW v \in VersionsOf(b)
        PROVE  /\ v.draft # d
               /\ v \in Version
    <2>1. v \in Version /\ draft[v.draft] # None /\ draft[v.draft].status = "published"
      BY VersionsTyped DEF ReviewInvariant, VersionIsWhatWasReviewed,
                           ContentInvariant
    <2>2. draft[d] # None => draft[d].status # "published"
      BY WriteEffect DEF PreparedOver
    <2> QED BY <2>1, <2>2
  <1>3. ASSUME request.version # None
        PROVE  LET v == request.version
               IN  /\ v.view.status = "submitted"
                   /\ v.view.name = v.name /\ v.view.content = v.content
                   /\ v.view.base = v.base
                   /\ draft'[v.draft] # None
                   /\ draft'[v.draft].status = "published"
                   /\ draft'[v.draft].name = v.name
                   /\ draft'[v.draft].content = v.content
                   /\ draft'[v.draft].round = v.view.round
    <2>1. /\ draft[d] # None /\ draft[d].status = "submitted"
          /\ draft'[d] # None /\ draft'[d].status = "published"
          /\ draft'[d].name = draft[d].name
          /\ draft'[d].content = draft[d].content
          /\ draft'[d].round = draft[d].round
      BY <1>3, WriteEffect, PublishedRow
    <2>2. Follows(request) /\ PreparedOver(request, draft[d])
      BY <2>1, WriteEffect
    <2>3. /\ request.version.draft = d
          /\ request.version.view = request.loaded
          /\ request.loaded.base = request.version.base
      BY <1>3, <2>2 DEF Follows
    <2>4. /\ request.loaded.status = "submitted"
          /\ request.loaded.name = draft[d].name
          /\ request.loaded.content = draft[d].content
          /\ request.loaded.round = draft[d].round
          /\ request.version.name = draft[d].name
          /\ request.version.content = draft[d].content
      BY <1>3, <2>1, <2>2 DEF PreparedOver
    <2> QED BY <2>1, <2>3, <2>4
  <1>4. ASSUME NEW b \in Branches, NEW v \in VersionsOf(b)'
        PROVE  /\ v.view.status = "submitted"
               /\ v.view.name = v.name /\ v.view.content = v.content
               /\ v.view.base = v.base
               /\ draft'[v.draft] # None
               /\ draft'[v.draft].status = "published"
               /\ draft'[v.draft].name = v.name
               /\ draft'[v.draft].content = v.content
               /\ draft'[v.draft].round = v.view.round
    <2>1. v \in VersionsOf(b) \/ (request.version # None /\ v = request.version)
      BY <1>4, HistoryAfterWrite, WriteEffect DEF Writes, ContentInvariant
    <2>2. CASE v \in VersionsOf(b)
      <3>1. draft'[v.draft] = draft[v.draft]
        BY <1>2, <2>2, WriteEffect DEF Version
      <3> QED BY <2>2, <3>1 DEF ReviewInvariant, VersionIsWhatWasReviewed
    <2> QED BY <1>3, <2>1, <2>2
  <1>5. VersionIsWhatWasReviewed'
    BY <1>4 DEF VersionIsWhatWasReviewed
  <1> QED BY <1>1, <1>5 DEF ReviewInvariant

LEMMA ReviewPreserved ==
    ASSUME ContentInvariant, ReviewInvariant, [Next]_vars
    PROVE  ReviewInvariant'
  BY Steps, ReviewBegins, ReviewWritten, ReviewQuiet

LEMMA ReviewHolds == Spec => []ReviewInvariant
  <1>1. Init => ReviewInvariant
    BY DEF Init, ReviewInvariant, VersionIsWhatWasReviewed, VersionsOf
  <1>2. ContentInvariant /\ ReviewInvariant /\ [Next]_vars => ReviewInvariant'
    BY ReviewPreserved
  <1> QED BY <1>1, <1>2, ContentInvariantHolds, PTL DEF Spec

\* A version holds the name and content its reviewer loaded, in the round and
\* over the baseline the reviewer loaded, and its draft row keeps saying so.
THEOREM VersionsAreWhatWasReviewed == Spec => []VersionIsWhatWasReviewed
  <1>1. ReviewInvariant => VersionIsWhatWasReviewed
    BY DEF ReviewInvariant
  <1> QED BY <1>1, ReviewHolds, PTL

\* Drafts change by committed transactions only.
LEMMA DraftsChangeByWrites ==
    ASSUME ContentInvariant, [Next]_vars
    PROVE  \/ draft' = draft
           \/ \E i \in Instances : Writes(i)
  BY Steps, DraftRequestStarts DEF ContentInvariant, Starts, Quiet

\* A submitted draft is changed by reviewers only, rejected and published
\* drafts never.
THEOREM ReviewClosesForGood == Spec => ReviewClosesDrafts
  <1> DEFINE Closed ==
        \A d \in DraftIds :
          (draft[d] # None /\ draft'[d] # draft[d]) =>
              /\ draft[d].status \notin {"rejected", "published"}
              /\ draft[d].status = "submitted" =>
                    /\ draft'[d].status \in
                          {"changes-requested", "rejected", "published"}
                    /\ draft'[d].name = draft[d].name
                    /\ draft'[d].content = draft[d].content
  <1>1. ASSUME ContentInvariant, ReviewInvariant, NEW i \in Instances, Writes(i)
        PROVE  Closed
    <2> DEFINE d == work[i].draft
    <2>1. /\ \A e \in DraftIds : e # d => draft'[e] = draft[e]
          /\ draft'[d] = WrittenRow(work[i])
          /\ draft[d] # None => PreparedOver(work[i], draft[d])
      BY <1>1, WriteEffect
    <2>2. CASE work[i].version = None
      <3>1. draft'[d] = work[i].row
        BY <2>1, <2>2 DEF WrittenRow
      <3> HIDE DEF d
      <3> QED BY <2>1, <3>1 DEF PreparedOver
    <2>3. CASE work[i].version # None
      BY <1>1, <2>1, <2>3, PublishedRow
    <2> QED BY <2>2, <2>3
  <1>2. ContentInvariant /\ ReviewInvariant /\ [Next]_vars => [Closed]_vars
    BY <1>1, DraftsChangeByWrites
  <1>3. Spec => [][Closed]_vars
    <2> HIDE DEF Closed
    <2> QED BY <1>2, ContentInvariantHolds, ReviewHolds, PTL DEF Spec
  <1> QED BY <1>3, PTL DEF ReviewClosesDrafts

\* A committed edit or verdict replaces the revision its author had loaded,
\* and a verdict falls on the round its author had loaded.
THEOREM NoChangeIsLost == Spec => ChangesFallOnWhatWasLoaded
  <1> DEFINE OnWhatWasLoaded ==
        \A d \in DraftIds, i \in Instances :
          (/\ draft[d] # None /\ draft'[d] # draft[d]
           /\ step[i] = "commit" /\ step'[i] = "idle"
           /\ work[i].draft = d /\ work[i].loaded # None) =>
              LET loaded == work[i].loaded
              IN  /\ loaded.status = draft[d].status
                  /\ loaded.name = draft[d].name
                  /\ loaded.content = draft[d].content
                  /\ loaded.status = "submitted" =>
                        loaded.round = draft[d].round
  <1>1. ASSUME ContentInvariant, ReviewInvariant, NEW j \in Instances, Writes(j)
        PROVE  OnWhatWasLoaded
    <2>1. SUFFICES ASSUME NEW d \in DraftIds, NEW i \in Instances,
                          draft[d] # None, draft'[d] # draft[d],
                          step[i] = "commit", step'[i] = "idle",
                          work[i].draft = d, work[i].loaded # None
                   PROVE  LET loaded == work[i].loaded
                          IN  /\ loaded.status = draft[d].status
                              /\ loaded.name = draft[d].name
                              /\ loaded.content = draft[d].content
                              /\ loaded.status = "submitted" =>
                                    loaded.round = draft[d].round
      OBVIOUS
    <2>2. i = j
      BY <1>1, <2>1 DEF Writes
    <2>3. PreparedOver(work[i], draft[d])
      BY <1>1, <2>1, <2>2, WriteEffect
    <2> QED BY <2>1, <2>3 DEF PreparedOver
  <1>2. ContentInvariant /\ ReviewInvariant /\ [Next]_vars
           => [OnWhatWasLoaded]_vars
    BY <1>1, DraftsChangeByWrites
  <1>3. Spec => [][OnWhatWasLoaded]_vars
    <2> HIDE DEF OnWhatWasLoaded
    <2> QED BY <1>2, ContentInvariantHolds, ReviewHolds, PTL DEF Spec
  <1> QED BY <1>3, PTL DEF ChangesFallOnWhatWasLoaded

-----------------------------------------------------------------------------
(* Lines, where clocks agree                                               *)

\* Where versions are numbered by their clock, the newest is the last one.
LEMMA NewestIsLast ==
    ASSUME ContentInvariant, NEW b \in Branches, Line(b), history[b] # <<>>
    PROVE  /\ Len(history[b]) \in DOMAIN history[b]
           /\ Newest(VersionsOf(b)) = history[b][Len(history[b])]
  <1> DEFINE n == Len(history[b])
             last == history[b][n]
  <1>1. history[b] \in Seq(Version)
    BY DEF ContentInvariant, TypeOK
  <1>2. n \in Nat /\ n # 0 /\ DOMAIN history[b] = 1..n
    BY <1>1
  <1>3. last \in VersionsOf(b) /\ last.at = n
    BY <1>2 DEF VersionsOf, Line
  <1>4. ASSUME NEW v \in VersionsOf(b), \A w \in VersionsOf(b) : w = v \/ Before(w, v)
        PROVE  v = last
    <2>1. PICK k \in DOMAIN history[b] : v = history[b][k]
      BY DEF VersionsOf
    <2>2. v.at = k /\ k \in 1..n
      BY <1>2, <2>1 DEF Line
    <2>3. last = v \/ Before(last, v)
      BY <1>3, <1>4
    <2>4. k = n \/ last = v
      BY <1>2, <1>3, <2>2, <2>3 DEF Before, VersionsOf, Line
    <2> QED BY <2>1, <2>4
  <1>5. \E v \in VersionsOf(b) : \A w \in VersionsOf(b) : w = v \/ Before(w, v)
    BY <1>3 DEF ContentInvariant, VersionsOrdered
  <1> QED BY <1>2, <1>4, <1>5 DEF Newest

LEMMA LatestIsLast ==
    ASSUME ContentInvariant, NEW b \in Branches, Line(b)
    PROVE  /\ Len(history[b]) \in Nat
           /\ DOMAIN history[b] = 1..Len(history[b])
           /\ LatestId(b) = IdAt(b, Len(history[b]))
  <1>1. history[b] \in Seq(Version)
    BY DEF ContentInvariant, TypeOK
  <1>2. CASE history[b] = <<>>
    BY <1>1, <1>2 DEF LatestId, IdAt
  <1>3. CASE history[b] # <<>>
    <2>1. Len(history[b]) # 0 /\ DOMAIN history[b] = 1..Len(history[b])
      BY <1>1, <1>3
    <2> QED BY <1>1, <1>3, <2>1, NewestIsLast DEF LatestId, IdAt
  <1> QED BY <1>2, <1>3

\* A version stamped after all others comes after the latest one.
LEMMA PreviousIsLatest ==
    ASSUME ContentInvariant, NEW b \in Branches, Line(b), NEW id
    PROVE  PreviousId(b, Len(history[b]) + 1, id) = LatestId(b)
  <1> DEFINE n == Len(history[b])
             older == {v \in VersionsOf(b) :
                          v.at < n + 1 \/ (v.at = n + 1 /\ v.id < id)}
  <1>1. n \in Nat /\ DOMAIN history[b] = 1..n
    BY LatestIsLast
  <1>2. \A v \in VersionsOf(b) : v.at < n + 1
    BY <1>1 DEF VersionsOf, Line
  <1>3. older = VersionsOf(b)
    BY <1>2
  <1>4. VersionsOf(b) = {} <=> history[b] = <<>>
    <2>1. history[b] \in Seq(Version)
      BY DEF ContentInvariant, TypeOK
    <2>2. history[b] = <<>> <=> n = 0
      BY <2>1
    <2>3. DOMAIN history[b] = {} <=> n = 0
      <3> HIDE DEF n
      <3> QED BY <1>1
    <2>4. VersionsOf(b) = {} <=> DOMAIN history[b] = {}
      BY DEF VersionsOf
    <2> QED BY <2>2, <2>3, <2>4
  <1> QED BY <1>3, <1>4 DEF PreviousId, LatestId

LEMMA RequestInLine ==
    ASSUME Skew = 0, ContentInvariant, LineInvariant, NEW i \in Instances,
           DraftRequest(i)
    PROVE  InLine(work'[i])
  <1>1. PICK a \in Actors, d \in DraftIds :
          \/ \E b \in Branches, name \in Names, content \in Contents :
                CreateDraft(i, a, d, b, name, content)
          \/ \E from, to \in Branches, name \in Names :
                PromoteDraft(i, a, d, from, to, name)
          \/ \E name \in Names, content \in Contents :
                UpdateDraft(i, a, d, name, content)
          \/ SubmitDraft(i, a, d)
          \/ \E verdict \in {"changes-requested", "rejected"} :
                ReturnDraft(i, a, d, verdict)
          \/ ApproveDraft(i, a, d)
    BY DEF DraftRequest
  <1>2. ASSUME NEW b \in Branches, NEW name \in Names, NEW content \in Contents,
               CreateDraft(i, a, d, b, name, content)
        PROVE  InLine(work'[i])
    BY <1>2, NewDraftFollows DEF CreateDraft
  <1>3. ASSUME NEW from \in Branches, NEW to \in Branches, NEW name \in Names,
               PromoteDraft(i, a, d, from, to, name)
        PROVE  InLine(work'[i])
    BY <1>3, NewDraftFollows DEF PromoteDraft
  <1>4. ASSUME ApproveDraft(i, a, d)
        PROVE  InLine(work'[i])
    <2> DEFINE b == draft[d].branch
               n == Len(history[b])
    <2>1. b \in Branches
      BY <1>4, Approval, ReviewedSnapshot DEF DraftRow
    <2>2. n \in Nat /\ LatestId(b) = IdAt(b, n) /\ Line(b)
      BY <2>1, LatestIsLast DEF LineInvariant
    <2>3. ClockReadings(b) = {n + 1}
      BY <2>2 DEF ClockReadings
    <2>4. /\ work'[i].row.branch = b /\ work'[i].version.base = LatestId(b)
          /\ work'[i].version.at = n + 1
          /\ work'[i].version.prev = PreviousId(b, n + 1, nextAttempt)
      BY <1>4, <2>3, Approval
    <2>5. work'[i].version.prev = LatestId(b)
      BY <2>1, <2>2, <2>4, PreviousIsLatest
    <2>6. work'[i].version.at - 1 = n /\ n \in 0..n
      <3> HIDE DEF n
      <3> QED BY <2>2, <2>4
    <2> QED BY <2>2, <2>4, <2>5, <2>6 DEF InLine
  <1> QED BY <1>1, <1>2, <1>3, <1>4, UpdateDraftFollows, SubmitDraftFollows,
             ReturnDraftFollows

\* A write appends its version to its branch, or none.
LEMMA HistoryGrows ==
    ASSUME ContentInvariant, ReviewInvariant, NEW i \in Instances, Writes(i)
    PROVE  LET request == work[i]
               c == request.row.branch
           IN  /\ c \in Branches
               /\ request.version = None => history' = history
               /\ request.version # None =>
                     /\ request.version \in Version
                     /\ history' = [history EXCEPT ![c] =
                                       Append(history[c], request.version)]
                     /\ \A b \in Branches : b # c => history'[b] = history[b]
                     /\ Len(history[c]) \in Nat
                     /\ DOMAIN history[c] = 1..Len(history[c])
                     /\ DOMAIN history'[c] = 1..(Len(history[c]) + 1)
                     /\ Len(history'[c]) = Len(history[c]) + 1
                     /\ history'[c][Len(history[c]) + 1] = request.version
                     /\ \A k \in DOMAIN history[c] :
                           history'[c][k] = history[c][k]
  <1> DEFINE request == work[i]
             c == request.row.branch
             s == history[c]
             v == request.version
  <1>1. request \in Request /\ c \in Branches
    BY WriteEffect DEF Request, DraftRow
  <1>2. CASE v = None
    BY <1>1, <1>2 DEF Writes, Write
  <1>3. CASE v # None
    <2>1. v \in Version /\ s \in Seq(Version)
      BY <1>1, <1>3 DEF Request, ContentInvariant, TypeOK
    <2>2. history' = [history EXCEPT ![c] = Append(s, v)]
      BY <1>3 DEF Writes, Write
    <2>3. /\ history'[c] = Append(s, v)
          /\ \A b \in Branches : b # c => history'[b] = history[b]
      BY <1>1, <2>2 DEF ContentInvariant, TypeOK
    <2>4. /\ Len(s) \in Nat /\ DOMAIN s = 1..Len(s)
          /\ DOMAIN Append(s, v) = 1..(Len(s) + 1)
          /\ Len(Append(s, v)) = Len(s) + 1
          /\ Append(s, v)[Len(s) + 1] = v
          /\ \A k \in DOMAIN s : Append(s, v)[k] = s[k]
      <3> HIDE DEF s, v
      <3> QED BY <2>1
    <2> HIDE DEF s, v, c
    <2>5. /\ DOMAIN history'[c] = 1..(Len(s) + 1)
          /\ Len(history'[c]) = Len(s) + 1
          /\ history'[c][Len(s) + 1] = v
          /\ \A k \in DOMAIN s : history'[c][k] = s[k]
      BY <2>3, <2>4
    <2> QED BY <1>1, <1>3, <2>1, <2>2, <2>3, <2>4, <2>5 DEF s, v, c
  <1> QED BY <1>1, <1>2, <1>3

\* Process i appends v to branch c, which has n versions.
Appends(i, c, v, n) ==
    /\ Writes(i)
    /\ c = work[i].row.branch
    /\ v = work[i].version /\ v # None
    /\ n = Len(history[c])

\* No two places of a line have the same id.
LEMMA IdsDiffer ==
    ASSUME NEW c, NEW n \in Nat, DOMAIN history[c] = 1..n, Line(c),
           NEW m \in 0..n, IdAt(c, m) = IdAt(c, n)
    PROVE  m = n
  <1>1. /\ \A k \in 1..n : history[c][k].id # 0
        /\ \A k, l \in 1..n : history[c][k].id = history[c][l].id => k = l
    BY DEF Line
  <1>2. CASE m = 0
    BY <1>1, <1>2 DEF IdAt
  <1>3. CASE m # 0
    <2>1. m \in 1..n /\ n # 0 /\ n \in 1..n
      BY <1>3
    <2>2. history[c][m].id = history[c][n].id
      BY <2>1 DEF IdAt
    <2> QED BY <1>1, <2>1, <2>2
  <1> QED BY <1>2, <1>3

\* The version a write appends is the next of its line.
LEMMA NextInLine ==
    ASSUME ContentInvariant, ReviewInvariant, LineInvariant,
           NEW i \in Instances, NEW c, NEW v, NEW n, Appends(i, c, v, n)
    PROVE  /\ v.at = n + 1 /\ v.id # 0
           /\ v.base = IdAt(c, n) /\ v.prev = IdAt(c, n)
           /\ \A k \in DOMAIN history[c] : history[c][k].id # v.id
  <1> USE DEF Appends
  <1> DEFINE m == v.at - 1
  <1>1. /\ work[i] # None /\ c \in Branches /\ v \in Version
        /\ v.at \in Int /\ Follows(work[i])
    BY WriteEffect, HistoryGrows DEF Version
  <1>2. InLine(work[i]) /\ Line(c)
    BY <1>1 DEF LineInvariant
  <1>3. /\ n \in Nat /\ DOMAIN history[c] = 1..n
        /\ LatestId(c) = IdAt(c, n)
    BY <1>1, <1>2, LatestIsLast
  <1>4. /\ m \in 0..n
        /\ v.base = IdAt(c, m) /\ v.prev = IdAt(c, m)
    BY <1>2 DEF InLine
  <1>5. LatestId(c) = v.base
    BY DEF Writes, Acceptable, VersionAcceptable
  <1>6. m = n
    <2>1. IdAt(c, m) = IdAt(c, n)
      BY <1>3, <1>4, <1>5
    <2> HIDE DEF m
    <2> QED BY <1>2, <1>3, <1>4, <2>1, IdsDiffer
  <1>7. v.at = n + 1
    BY <1>1, <1>3, <1>6
  <1>8. v.id # 0
    BY <1>1 DEF Follows
  <1>9. ASSUME NEW k \in DOMAIN history[c]
        PROVE  history[c][k].id # v.id
    <2>1. history[c][k] \in VersionsOf(c)
      BY DEF VersionsOf
    <2>2. <<history[c][k].id, "raw">> \in ledger
      BY <1>1, <2>1
         DEF ContentInvariant, ReferencesRecorded, VersionKeys, DraftKeys
    <2>3. <<v.id, "raw">> \in work[i].keys
      BY <1>1 DEF ContentInvariant, ReferencesRecorded, VersionKeys, DraftKeys
    <2>4. \A key \in work[i].keys : key \notin ledger
      BY <1>1 DEF ContentInvariant, AttemptKeysPrivate, KeysOf
    <2> QED BY <2>2, <2>3, <2>4
  <1> QED BY <1>4, <1>6, <1>7, <1>8, <1>9

\* Appending the next version keeps a line, and the places requests hold in it.
LEMMA LineExtended ==
    ASSUME NEW c, NEW v, NEW n \in Nat, Line(c),
           DOMAIN history[c] = 1..n, DOMAIN history'[c] = 1..(n + 1),
           history'[c][n + 1] = v,
           \A k \in 1..n : history'[c][k] = history[c][k],
           v.at = n + 1, v.id # 0, v.base = IdAt(c, n), v.prev = IdAt(c, n),
           \A k \in 1..n : history[c][k].id # v.id
    PROVE  /\ Line(c)'
           /\ \A k \in 0..n : IdAt(c, k)' = IdAt(c, k)
  <1>1. ASSUME NEW k \in 0..n
        PROVE  IdAt(c, k)' = IdAt(c, k)
    BY DEF IdAt
  <1>2. ASSUME NEW k \in 1..(n + 1)
        PROVE  /\ history'[c][k].at = k /\ history'[c][k].id # 0
               /\ history'[c][k].base = IdAt(c, k - 1)'
               /\ history'[c][k].prev = IdAt(c, k - 1)'
    <2>1. CASE k = n + 1
      <3>1. k - 1 = n /\ n \in 0..n
        BY <2>1
      <3> QED BY <1>1, <2>1, <3>1
    <2>2. CASE k \in 1..n
      <3>1. k - 1 \in 0..n
        BY <2>2
      <3>2. history'[c][k] = history[c][k]
        BY <2>2
      <3>3. /\ history[c][k].at = k /\ history[c][k].id # 0
            /\ history[c][k].base = IdAt(c, k - 1)
            /\ history[c][k].prev = IdAt(c, k - 1)
        BY <2>2 DEF Line
      <3> QED BY <1>1, <3>1, <3>2, <3>3
    <2> QED BY <2>1, <2>2
  <1>3. ASSUME NEW k \in 1..(n + 1), NEW m \in 1..(n + 1),
               history'[c][k].id = history'[c][m].id
        PROVE  k = m
    <2>1. CASE k \in 1..n /\ m \in 1..n
      <3>1. history[c][k].id = history[c][m].id
        BY <1>3, <2>1
      <3> QED BY <2>1, <3>1 DEF Line
    <2>2. CASE k = n + 1 /\ m \in 1..n
      <3>1. history[c][m].id = v.id
        BY <1>3, <2>2
      <3> QED BY <2>2, <3>1
    <2>3. CASE k \in 1..n /\ m = n + 1
      <3>1. history[c][k].id = v.id
        BY <1>3, <2>3
      <3> QED BY <2>3, <3>1
    <2>4. CASE k = n + 1 /\ m = n + 1
      BY <2>4
    <2> QED BY <2>1, <2>2, <2>3, <2>4
  <1> QED BY <1>1, <1>2, <1>3 DEF Line

LEMMA LineWritten ==
    ASSUME ContentInvariant, ReviewInvariant, LineInvariant,
           NEW i \in Instances, Writes(i)
    PROVE  LineInvariant'
  <1>1. CASE work[i].version = None
    <2>1. history' = history
      BY <1>1, HistoryGrows
    <2>2. \A j \in Instances : work'[j] # None => work'[j] = work[j]
      BY DEF Writes
    <2> QED BY <2>1, <2>2 DEF LineInvariant, Line, InLine, IdAt
  <1>2. CASE work[i].version # None
    <2>1. PICK c, v, n : Appends(i, c, v, n)
      <3>1. Appends(i, work[i].row.branch, work[i].version,
                    Len(history[work[i].row.branch]))
        BY <1>2 DEF Appends
      <3> QED BY <3>1
    <2>2. n = Len(history[c])
      BY <2>1 DEF Appends
    <2>3. /\ c \in Branches /\ n \in Nat
          /\ DOMAIN history[c] = 1..n
          /\ DOMAIN history'[c] = 1..(n + 1) /\ Len(history'[c]) = n + 1
          /\ history'[c][n + 1] = v
          /\ \A k \in 1..n : history'[c][k] = history[c][k]
          /\ \A b \in Branches : b # c => history'[b] = history[b]
      BY <2>1, HistoryGrows DEF Appends
    <2>4. /\ v.at = n + 1 /\ v.id # 0
          /\ v.base = IdAt(c, n) /\ v.prev = IdAt(c, n)
          /\ \A k \in DOMAIN history[c] : history[c][k].id # v.id
      BY <2>1, NextInLine
    <2>5. \A k \in 1..n : history[c][k].id # v.id
      BY <2>3, <2>4
    <2>6. Line(c)' /\ \A k \in 0..n : IdAt(c, k)' = IdAt(c, k)
      <3>1. Line(c)
        BY <2>3 DEF LineInvariant
      <3> QED BY <2>3, <2>4, <2>5, <3>1, LineExtended
    <2>7. ASSUME NEW b \in Branches
          PROVE  Line(b)'
      <3>1. CASE b = c
        BY <2>6, <3>1
      <3>2. CASE b # c
        <4>1. history'[b] = history[b] /\ Line(b)
          BY <2>3, <3>2 DEF LineInvariant
        <4> QED BY <4>1 DEF Line, IdAt
      <3> QED BY <3>1, <3>2
    <2>8. ASSUME NEW j \in Instances, work'[j] # None, work'[j].version # None
          PROVE  InLine(work[j])'
      <3>1. work'[j] = work[j] /\ work[j] # None /\ InLine(work[j])
        BY <2>8 DEF Writes, LineInvariant
      <3>2. PICK b \in Branches : b = work[j].row.branch
        BY <3>1 DEF ContentInvariant, TypeOK, Request, DraftRow
      <3>3. PICK m : m = work[j].version.at - 1
        OBVIOUS
      <3>4. /\ m \in 0..Len(history[b])
            /\ work[j].version.base = IdAt(b, m)
            /\ work[j].version.prev = IdAt(b, m)
        BY <2>8, <3>1, <3>2, <3>3 DEF InLine
      <3>5. m \in 0..Len(history'[b]) /\ IdAt(b, m)' = IdAt(b, m)
        <4>1. CASE b = c
          BY <2>2, <2>3, <2>6, <3>4, <4>1
        <4>2. CASE b # c
          BY <2>3, <3>4, <4>2 DEF IdAt
        <4> QED BY <4>1, <4>2
      <3> QED BY <3>1, <3>2, <3>3, <3>4, <3>5 DEF InLine
    <2>9. \A j \in Instances : (work[j] # None => InLine(work[j]))'
      BY <2>8 DEF InLine
    <2> QED BY <2>7, <2>9 DEF LineInvariant
  <1> QED BY <1>1, <1>2

LEMMA LineBegins ==
    ASSUME Skew = 0, ContentInvariant, LineInvariant, NEW i \in Instances,
           DraftRequest(i)
    PROVE  LineInvariant'
  <1>1. Starts(i)
    BY DraftRequestStarts DEF ContentInvariant
  <1>2. \A j \in Instances : work'[j] # None => InLine(work'[j])
    BY <1>1, RequestInLine DEF Starts, LineInvariant
  <1>3. \A j \in Instances : (work[j] # None => InLine(work[j]))'
    BY <1>1, <1>2 DEF Starts, InLine, IdAt
  <1>4. \A b \in Branches : Line(b)'
    BY <1>1 DEF Starts, LineInvariant, Line, IdAt
  <1> QED BY <1>3, <1>4 DEF LineInvariant

LEMMA LineQuiet ==
    ASSUME LineInvariant, Quiet
    PROVE  LineInvariant'
  BY DEF Quiet, LineInvariant, Line, InLine, IdAt

LEMMA LineHolds ==
    ASSUME Skew = 0
    PROVE  Spec => []LineInvariant
  <1>1. Init => LineInvariant
    BY DEF Init, LineInvariant, Line
  <1>2. ContentInvariant /\ ReviewInvariant /\ LineInvariant /\ [Next]_vars
           => LineInvariant'
    BY Steps, LineBegins, LineWritten, LineQuiet
  <1> QED BY <1>1, <1>2, ContentInvariantHolds, ReviewHolds, PTL DEF Spec

\* While clocks agree, each version of a branch was reviewed against the one
\* committed before it, its stored diff starts there, and the latest version
\* is the last one.
THEOREM HistoriesAreLines ==
    ASSUME Skew = 0
    PROVE  Spec => []HistoryIsALine
  <1>1. ASSUME ContentInvariant, LineInvariant
        PROVE  HistoryIsALine
    <2>1. SUFFICES ASSUME NEW b \in Branches
                   PROVE  /\ \A k \in DOMAIN history[b] :
                                LET before == IF k = 1 THEN 0
                                              ELSE history[b][k - 1].id
                                IN  /\ history[b][k].base = before
                                    /\ history[b][k].prev = before
                          /\ history[b] # <<>> =>
                                LatestId(b) = history[b][Len(history[b])].id
      BY DEF HistoryIsALine
    <2>2. Line(b) /\ DOMAIN history[b] = 1..Len(history[b]) /\ Len(history[b]) \in Nat
      BY <1>1, LatestIsLast DEF LineInvariant
    <2>3. \A k \in DOMAIN history[b] :
            IdAt(b, k - 1) = IF k = 1 THEN 0 ELSE history[b][k - 1].id
      BY <2>2 DEF IdAt
    <2>4. history[b] # <<>> => LatestId(b) = history[b][Len(history[b])].id
      BY <1>1, <2>2, NewestIsLast DEF LatestId
    <2> QED BY <2>2, <2>3, <2>4 DEF Line
  <1> QED BY <1>1, ContentInvariantHolds, LineHolds, PTL

-----------------------------------------------------------------------------
(* DocumentWorkflow implements VersionHistory                              *)

\* What readers see of a version.
Entry(v) == [draft |-> v.draft, name |-> v.name, content |-> v.content]

LEMMA EntriesOf ==
    ASSUME ContentInvariant, NEW b \in Branches
    PROVE  /\ DOMAIN Entries(b) = DOMAIN history[b]
           /\ \A k \in DOMAIN history[b] :
                 /\ Entries(b)[k] = Entry(history[b][k])
                 /\ Entries(b)[k].draft = history[b][k].draft
                 /\ Entries(b)[k].name = history[b][k].name
                 /\ Entries(b)[k].content = history[b][k].content
           /\ Entries(b) \in Seq(Promise!Entry)
           /\ Len(Entries(b)) = Len(history[b])
  <1>1. history[b] \in Seq(Version)
    BY DEF ContentInvariant, TypeOK
  <1>2. Len(history[b]) \in Nat /\ DOMAIN history[b] = 1..Len(history[b])
    BY <1>1
  <1>3. \A k \in DOMAIN history[b] : history[b][k] \in Version
    BY <1>1
  <1>4. \A k \in DOMAIN history[b] : Entry(history[b][k]) \in Promise!Entry
    BY <1>3 DEF Entry, Promise!Entry, Version
  <1>5. /\ Entries(b) = [k \in DOMAIN history[b] |-> Entry(history[b][k])]
    BY DEF Entries, Entry
  <1>6. Entries(b) \in [1..Len(history[b]) -> Promise!Entry]
    BY <1>2, <1>4, <1>5
  <1>7. Entries(b) \in Seq(Promise!Entry) /\ Len(Entries(b)) = Len(history[b])
    BY <1>2, <1>6
  <1>8. ASSUME NEW k \in DOMAIN history[b]
        PROVE  /\ Entries(b)[k] = Entry(history[b][k])
               /\ Entries(b)[k].draft = history[b][k].draft
               /\ Entries(b)[k].name = history[b][k].name
               /\ Entries(b)[k].content = history[b][k].content
    <2>1. Entries(b)[k] = Entry(history[b][k])
      BY <1>5
    <2> QED BY <2>1 DEF Entry
  <1> QED BY <1>5, <1>7, <1>8

LEMMA EntriesAppended ==
    ASSUME ContentInvariant, ReviewInvariant,
           NEW i \in Instances, NEW c, NEW v, NEW n, Appends(i, c, v, n)
    PROVE  /\ c \in Branches /\ Entry(v) \in Promise!Entry
           /\ PublishedHistory' =
                 [PublishedHistory EXCEPT ![c] = Append(Entries(c), Entry(v))]
  <1>1. /\ c \in Branches /\ n \in Nat /\ n = Len(history[c]) /\ v \in Version
        /\ DOMAIN history[c] = 1..n
        /\ DOMAIN history'[c] = 1..(n + 1) /\ Len(history'[c]) = n + 1
        /\ history'[c][n + 1] = v
        /\ \A k \in 1..n : history'[c][k] = history[c][k]
        /\ \A b \in Branches : b # c => history'[b] = history[b]
    BY HistoryGrows DEF Appends
  <1>2. Entry(v) \in Promise!Entry
    BY <1>1 DEF Entry, Promise!Entry, Version
  <1>3. Entries(c)' = Append(Entries(c), Entry(v))
    <2> DEFINE past == Entries(c)
               more == Entries(c)'
    <2>1. /\ past \in Seq(Promise!Entry) /\ Len(past) = n
          /\ \A k \in 1..n : past[k] = Entry(history[c][k])
      BY <1>1, EntriesOf
    <2>2. /\ more \in Seq(Promise!Entry) /\ Len(more) = n + 1
          /\ \A k \in 1..(n + 1) : more[k] = Entry(history'[c][k])
      <3>1. more = [k \in 1..(n + 1) |-> Entry(history'[c][k])]
        BY <1>1 DEF Entries, Entry
      <3>2. ASSUME NEW k \in 1..(n + 1)
            PROVE  Entry(history'[c][k]) \in Promise!Entry
        <4>1. CASE k \in 1..n
          <5>1. history'[c][k] = history[c][k]
            BY <1>1, <4>1
          <5>2. past[k] \in Promise!Entry
            BY <1>1, <2>1, <4>1
          <5> QED BY <2>1, <4>1, <5>1, <5>2
        <4>2. CASE k = n + 1
          BY <1>1, <1>2, <4>2
        <4> QED BY <1>1, <4>1, <4>2
      <3> HIDE DEF more
      <3>3. more \in [1..(n + 1) -> Promise!Entry]
        BY <3>1, <3>2
      <3>4. n + 1 \in Nat
        BY <1>1
      <3> QED BY <3>1, <3>3, <3>4
    <2>3. /\ \A k \in 1..n : more[k] = past[k]
          /\ more[n + 1] = Entry(v)
      BY <1>1, <2>1, <2>2
    <2> HIDE DEF past, more
    <2>4. more = Append(past, Entry(v))
      BY <1>1, <1>2, <2>1, <2>2, <2>3
    <2> QED BY <2>4 DEF past, more
  <1>4. \A b \in Branches : b # c => Entries(b)' = Entries(b)
    BY <1>1 DEF Entries
  <1>5. PublishedHistory' = [PublishedHistory EXCEPT ![c] = Append(Entries(c), Entry(v))]
    BY <1>1, <1>3, <1>4 DEF PublishedHistory
  <1> QED BY <1>1, <1>2, <1>5

LEMMA Publication ==
    ASSUME ContentInvariant, ReviewInvariant, LineInvariant,
           NEW i \in Instances, NEW c, NEW v, NEW n, Appends(i, c, v, n)
    PROVE  Promise!Next
  <1>1. /\ c \in Branches /\ Entry(v) \in Promise!Entry
        /\ PublishedHistory' =
              [PublishedHistory EXCEPT ![c] = Append(Entries(c), Entry(v))]
    BY EntriesAppended
  <1>2. \A b \in Branches : PublishedHistory[b] = Entries(b)
    BY DEF PublishedHistory
  <1>3. /\ v.draft = work[i].draft /\ draft[v.draft].status = "submitted"
        /\ ChangedFromLatest(c, v.content) /\ NameAvailable(c, v.name)
    <2>1. v = work[i].version /\ v # None /\ Writes(i) /\ c = work[i].row.branch
      BY DEF Appends
    <2>2. v.draft = work[i].draft
      BY <2>1, WriteEffect DEF Follows
    <2>3. VersionAcceptable(work[i])
      BY <2>1 DEF Writes, Acceptable
    <2> QED BY <2>1, <2>2, <2>3 DEF VersionAcceptable
  <1>4. ~Promise!IsPublished(v.draft)
    <2>1. SUFFICES ASSUME NEW b \in Branches, NEW k \in DOMAIN Entries(b),
                          Entries(b)[k].draft = v.draft
                   PROVE  FALSE
      BY <1>2 DEF Promise!IsPublished
    <2>2. k \in DOMAIN history[b] /\ history[b][k].draft = v.draft
      BY <2>1, EntriesOf
    <2>3. history[b][k] \in VersionsOf(b)
      BY <2>2 DEF VersionsOf
    <2>4. draft[history[b][k].draft].status = "published"
      BY <2>3 DEF ReviewInvariant, VersionIsWhatWasReviewed
    <2> QED BY <1>3, <2>2, <2>4
  <1>5. ASSUME NEW k \in DOMAIN Entries(c)
        PROVE  Entries(c)[k].name # v.name
    <2>1. k \in DOMAIN history[c] /\ Entries(c)[k].name = history[c][k].name
      BY <1>1, EntriesOf
    <2> QED BY <1>3, <2>1 DEF NameAvailable, VersionsOf
  <1>6. Entries(c) # <<>> => Entries(c)[Len(Entries(c))].content # v.content
    <2>1. SUFFICES ASSUME Entries(c) # <<>>
                   PROVE  Entries(c)[Len(Entries(c))].content # v.content
      OBVIOUS
    <2>2. history[c] # <<>>
      BY <1>1, <2>1 DEF Entries
    <2>3. /\ Len(history[c]) \in DOMAIN history[c]
          /\ Newest(VersionsOf(c)) = history[c][Len(history[c])]
      BY <1>1, <2>2, NewestIsLast DEF LineInvariant
    <2>4. history[c][Len(history[c])].content # v.content
      BY <1>3, <2>2, <2>3 DEF ChangedFromLatest
    <2>5. Entries(c)[Len(history[c])].content = history[c][Len(history[c])].content
      BY <1>1, <2>3, EntriesOf
    <2>6. Len(Entries(c)) = Len(history[c])
      BY <1>1, EntriesOf
    <2> QED BY <2>4, <2>5, <2>6
  <1>7. Promise!Publish(c, Entry(v))
    BY <1>1, <1>2, <1>4, <1>5, <1>6 DEF Promise!Publish, Entry
  <1> QED BY <1>1, <1>7 DEF Promise!Next

\* While clocks agree, publishing on many processes implements the history
\* that readers are promised.
THEOREM VersionHistoryImplemented ==
    ASSUME Skew = 0
    PROVE  Spec => ImplementsHistory
  <1>1. Init => Promise!Init
    BY DEF Init, Promise!Init, PublishedHistory, Entries
  <1>2. ASSUME ContentInvariant, ReviewInvariant, LineInvariant,
               [Next]_vars
        PROVE  [Promise!Next]_PublishedHistory
    <2>1. ASSUME history' = history
          PROVE  PublishedHistory' = PublishedHistory
      BY <2>1 DEF PublishedHistory, Entries
    <2>2. ASSUME NEW i \in Instances, Writes(i), work[i].version # None
          PROVE  Promise!Next
      <3>1. Appends(i, work[i].row.branch, work[i].version,
                    Len(history[work[i].row.branch]))
        BY <2>2 DEF Appends
      <3> QED BY <1>2, <3>1, Publication
    <2>3. ASSUME NEW i \in Instances, Writes(i), work[i].version = None
          PROVE  history' = history
      BY <2>3 DEF Writes, Write
    <2>4. ASSUME NEW i \in Instances, DraftRequest(i)
          PROVE  history' = history
      BY <1>2, <2>4, DraftRequestStarts DEF ContentInvariant, Starts
    <2> QED BY <1>2, <2>1, <2>2, <2>3, <2>4, Steps DEF Quiet
  <1>3. Spec => Promise!Init /\ [][Promise!Next]_PublishedHistory
    BY <1>1, <1>2, ContentInvariantHolds, ReviewHolds, LineHolds, PTL DEF Spec
  <1> QED BY <1>3 DEF ImplementsHistory, Promise!Spec

=============================================================================
