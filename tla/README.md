# Vdoc: specification, model checking and proofs

Vdoc keeps API documents (OpenAPI and Markdown) of projects: writers prepare
drafts on branches, administrators publish them as immutable versions, AI
summaries and chats comment on them, shares and MCP tokens give readers access.
This directory holds TLA+ specifications of the backend's core, the TLC
configurations that check them on small instances, and TLAPS proofs of the
properties that matter most. Every definition is a translation of the Go
source; `PROJECT.json` maps definitions to lines.

## The system

Several Vdoc processes run against one PostgreSQL database and one
S3-compatible object store. They do not talk to each other.

| Component | State | Operations | What is hard | Modules |
| --- | --- | --- | --- | --- |
| Document workflow (`services/vdoc/store.go`, `db/pgdb/vdoc/repo.go`, `domain/documentdraft`, `domain/documentversion`) | drafts, versions, branches, objects and their ledger | create, promote, edit, submit, review, publish; archive branch or document | two processes publish or review at once; rights change between check and commit; uploads outside the transaction; unknown commits, crashes | `DocumentWorkflow`, `VersionHistory`, `DocumentWorkflowProofs` |
| Store cache (`services/vdoc/postgres_repository.go`, `persistence.go`) | a copy of all rows per process, what is believed persisted, a snapshot marker | refresh, save, publish, restore | a marker that misses a late commit; leftovers of failed requests; staged rows that ride along | `CommittedRows`, `StoreCache`, `StoreCacheProofs` |
| AI summary jobs (`summary_worker.go`, `ai_summary_store.go`, `db/pgdb/vdoc/summary_jobs.go`) | summaries, durable jobs with leases, one worker per process | queue, claim, renew, run, retry, fail, recover | leases that expire under a running worker, superseded generations, shutdown and crash at every step | `SummaryJobs`, `SummaryJobsProofs` |
| AI chat (`ai_chat_store.go`, `ai_document_chat.go`, `ai_client_stream.go`) | sessions with a generation token, messages | create, reserve, stream, finish, release | concurrent messages; inputs that change while an answer streams | `AiChat`, `AiChatProofs` |
| AI providers and prompts (`ai_provider_store.go`, `ai_prompt_store.go`) | settings of the system and of a project | save, choose, test | which one applies changes under a running answer | `AiChat` |
| Accounts, teams, projects, members (`store.go`, `registration.go`, `postgres_repository.go`) | users, teams, projects, memberships | register, log in, create, patch, archive, add and remove members | two administrators demote each other; first registration; bcrypt outside the lock | `Collaboration`, `CollaborationProofs` |
| Document shares (`document_share_store.go`, `domain/documentshare`) | shares, unlock proofs | create, reveal, revoke, unlock, read | bcrypt outside the lock; anonymous reads row by row against withdrawal and archival | `DocumentShares`, `DocumentServicesProofs` |
| MCP tokens and server (`token_auth.go`, `domain/mcp`, `open/mcp/mcp.go`) | tokens, scopes, last use | create, list, reveal, revoke, authenticate, call a tool | use against revocation, expiry and deactivation; what a call may still do when it gets there | `McpTokens`, `DocumentServicesProofs` |
| Ciphertext rotation (`cipher_rotation.go`, `persistence.go`) | what tokens and shares are sealed with | rotate at start | rows withdrawn or used meanwhile; all or nothing | `CipherRotation`, `DocumentServicesProofs` |
| Documents, folders, branches (`document_folders.go`, `store.go`, `domain/documentbranch`) | folders, documents, branches | create, move, rename, archive, make default | two requests decide on the same tables; constraints are checked statement by statement | `Library`, `LibraryProofs` |
| Comparison of versions (`openapi*.go`, `semantic_*.go`, `textDiff`) | endpoint facts, stored differences | parse, refresh, compare, store | rules with opposite directions that miss a change; references in circles; facts of an older parser | `OpenAPIDocument`, `SchemaRules`, `EndpointDiff`, `SemanticDiff`, `ContractDiff`, `TextDiff`, `ContractMeaning`, `Comparisons`, `ContractComparisons`, `ComparisonsProofs` |
| Rate limiter, HTTP layer, update check, ids, startup order, configuration, logging | none of the domain | | | not modelled, see below |

The components meet in three places. Every request of a process goes through
`Store.refreshLocked` under the store's mutex, so `StoreCache` is the
foundation of the others: that it implements `CommittedRows`, a store without
copies, is why `DocumentWorkflow` and `SummaryJobs` may let a request read the
database directly. Every write goes through one transaction that validates a
`MutationGuard` and compares `updated_at`; `DocumentWorkflow` models that
transaction in detail for drafts and versions, `Collaboration` for accounts,
teams, projects and members, whose `role` and archival are what
`DocumentWorkflow` takes as changing beside it. A submission or publication stages an AI summary job in
the same transaction (`StageForWorkflow` in `SummaryJobs`). `DocumentServices`
composes what stands around the documents: shares, tokens and tool calls, the
rotation of what both are sealed with, conversations and the library run over
one `Workspace`, whose events are what `Collaboration` and `DocumentWorkflow`
do in detail.

## Modules

### DocumentWorkflow

One document with its branches. `role`, `document`, `branch`, `draft`,
`history` and `ledger` are rows; `objects` is the object store; `seen` is the
revision of a draft that some client has loaded, which the API makes it send
back. A process serves one request at a time (the mutex): `step` and `work`
hold it. A request goes through

1. `CreateDraft`, `PromoteDraft`, `UpdateDraft`, `SubmitDraft`, `ReturnDraft`
   or `ApproveDraft`: refresh, every check of the handler, and the request that
   will be committed, with the guard (`need`, `scope`), the loaded draft row
   and the expected version number, base and diff;
2. `PutObjects` / `PutFails`: upload under keys of a fresh attempt;
   `Cleanup` deletes them again after a failure;
3. `Commit`: the transaction. `GuardHolds` (rights, document, branch),
   `RowUnchanged` (`updated_at` of the draft) and, for a publication,
   `VersionAcceptable` (number, name, base, change against the latest) are
   evaluated against the rows of that moment, then `Write` changes them.
   `Rollback` and `CommitUnknown` are its other ends; `Crash` may come at any
   step.

Handlers that upload nothing and are not interleaved with themselves
(`ChangeRole`, `ArchiveBranch`, `UpdateDocument`, `ArchiveDocument`,
`LoadDraft`) are single steps: they commit against the row locks the guard of a
running request takes, so nothing of theirs lies between their check and their
commit that another action could see.

Contents are hashes: equality is all the code uses of them here. OpenAPI and
Markdown drafts take the same path and are not told apart. `updated_at` is the
draft's `stamp`, `published_at` is `at`, read from the process's clock, which
may lag `Skew` publications behind.

`VersionHistory` is what readers are promised, without processes, drafts or
storage: `ImplementsHistory` states that `DocumentWorkflow` implements it, with
`PublishedHistory` as the refinement mapping. It is checked by
`publication_races` and proved in `DocumentWorkflowProofs`.

### StoreCache

Rows are opaque: a row's value is the transaction that wrote it. `Snapshot` is
`pg_current_snapshot()` as the code reads it, the end of the ended transactions
and the ids still open below it. A request is `Refresh`, then `Leave`, `Stage`,
or `Save` (change the cache in place, write every row that differs from
`persisted`) or `Publish` (write prepared rows), then `Commit`, `Rollback` or
`Disconnect`; `Resolve` is the server ending a transaction whose client has
gone, `Restart` the process starting with an empty cache.

`prepareAISummaryRequest` marks a summary pending in the cache only, before the
call to the provider. Until the next refresh it differs from `persisted`, so
the next save of that process writes it too; `staged` models this, and the
properties name it as the exception they allow.

`CommittedRows` is what the other modules take the store for: a request looks
at the committed rows and remembers what it saw, `Begin`s a transaction that
writes its rows and possibly staged ones, and the server lets it `TakeEffect`
as a whole or `Fail`. It has no cache, no marker and no `persisted`.
`ImplementsCommittedRows` states that `StoreCache` implements it: what a
request has seen is what its process believes persisted, as long as it runs, and
what the server has yet to decide are the open transactions, whether or not
their clients are still there.

### SummaryJobs

One target (a draft, a version or a diff). `summary` is its row, whose
`token` is the job id of the generation it is waiting for; `job` are the
durable jobs. A lease token is unique per claim and attempts increase with
every claim, so a lease is identified by the attempt (`Holds`: `job.held` and
attempts equal), and `live` says that `available_at` lies in the future.
`inputs` stands for everything an answer depends on: content, rights, status of
the parents, provider and prompt; a change increments its revision and may
change its state. A worker's run is a chain of steps, one per stretch of code
between two points where something else may happen: `Claim`, `Prepare`,
`SaveSkipped` or `Return` (of the provider's call), `Finish` (reload and checks
in memory), `Save` (the transaction), `Void` (`failStaleAISummaryLocked`),
`EndRun` (stop the renewal, decide), `Fail`, `Release`. The renewal goroutine is
`LeaseFoundLost` and `RenewalFails`, which cancel the run at any step.

Faults: `database` (a step's database work fails, or commits and its reply is
lost), `stall` (a lease runs out although its worker lives), `stop` (graceful
shutdown), `crash`.

### Collaboration

`user`, `team`, `project` and `member` are the tables; a row keeps what rights
and uniqueness depend on, and its `stamp` stands for `updated_at`. A request is
a record of its kind, its `guard` (the mutation guard: the actor and the right
it needs, a password that was proven, users who must be active, parents that
must exist) and its `put`, at most one write per table, each with the row it
was loaded from. It goes through

1. its handler (`Register`, `CreateUser`, `PatchUser`, `CreateProject`,
   `RemoveProjectMember`, ...): every check on the rows as they are then;
2. `Hashed`, for those that hash or verify a password with the store unlocked:
   reload and check again;
3. `Commit`: under the two advisory locks, the mutation guard, the comparison of
   every row's stamp, the writes, and `Validated`, which looks at what the
   writes touched; or `CommitArchiveTeam`, which has a transaction of its own;
   or `Reject`.

Clients are requests of any process, so anything may commit between two of
these steps. A password hash is a value that no row or running request holds
(bcrypt salts it). The order `LockCollaborationInvariants` takes its locks in,
and the locks of the guard, make `Commit` one step. The command
`--resetadmin` is `ResetSuperAdminPassword`.

### Workspace and DocumentServices

`Workspace` has the rows that everything else depends on: who is `active`, the
`role` of each user in the project, what is `archived`, what each branch has
`published`, and the clock `now`. Their changes are events (`SwitchAccount`,
`ChangeRole`, `Archive`, `Publish`, `Tick`), each of which may fall between any
two steps of a request. A client's request is a record in `call`: its kind, the
step it has come to and what it has loaded. Every request loads, decides and is
committed in steps of its own, the commit being one transaction with the guard
the code gives it (`Permitted` and the state of the parents).

`DocumentServices` composes the five modules below. A behaviour has a
`workload`, the kinds of requests and events it is made of, so that a run can
go through many small mixes, each exhaustively, instead of one large mix that
could not be finished.

### DocumentShares

`share` are the rows of `document_shares`, `proofs` the unlock proofs readers
hold. `CreateDocumentShare` stops at "hashing" when there is a password
(bcrypt runs with the store unlocked) and `SharePasswordHashed` checks parents
and selection again; `SaveNewShare` is the transaction, which checks rights and
parents. An anonymous read loads the share, the project, the document, the
branch and the versions one after the other
(`LoadPublicDocumentShareSnapshot`), is decided on what it has seen
(`AuthorizePublicShare`), and `RecordPublicDocumentShareAccess` is the
transaction that locks the rows, decides again and records the access; only
then is it answered. An unlock signs a proof on what it read, without looking
again after bcrypt: every read with the proof looks again, so nothing is lost.

### McpTokens

`AuthenticateMCPToken` is one transaction: the token is active and not
expired, its owner active, `used` moves. A call then goes on with the owner
and the scopes of that moment: `ExecuteAuthenticatedTool` matches the tool with
scopes and, for the tools that do so, with the type of the document;
`PrepareToolWrite` is the store's check; `CommitToolWrite` the transaction,
whose guard looks at the token once more; `RecordMCPToolCall` the audit entry
without which no answer is sent. A row of a token is saved if its lifecycle is
the one that was loaded (`Unchanged`), and its time of use never goes back
(`SavedToken`), since uses do not count as changes.

`CipherRotation` adds the instance that starts with a new key while others
serve: it loads tokens and shares, seals the old ones again and saves all of
them in one transaction, or none.

### AiChat

A message reserves its session under a fresh token (`ReserveAIChatGeneration`;
the latest wins, nothing waits), is built again from what was committed
meanwhile (`RebuildAIChatRequest`), asks the provider, and stores question and
answer in the transaction that gives the reservation up
(`CompleteAIChatGeneration`). `Basis` is what an answer rests on: the provider
and prompt that apply and the sources of the session's target. The provider is
`ReadFragment`, `ReadFinishReason`, `ReadLast` and `BreakOff` (an error, a
timeout or a reader who leaves) in the three ways it can answer: a stream
of completions, a stream of responses, or a whole body. A stream is validated
at its first fragment and after 250 ms, which is one tick of the clock. Every
failure gives up the request's own reservation only, and if even that fails the
next message takes the session over.

### Library

A path is a sequence of names, a name letters and their case; what documents are
called (`DocumentNames`) is compared without its case. Requests plan what they
will write (`Plan`: new folders, documents, branches) on the tables
as they are then; one request may rename a document and move it, or rename a
branch and make it the default. `SaveLibrary` is the transaction: rights and parents, each
row as it was loaded, then the statements in their order (`FolderWave`,
`DocumentWave`, `BranchWave`), after each of which the unique indexes and the
foreign keys must hold (`NewRowsFit`).

### Comparisons and what it rests on

`OpenAPIDocument` resolves references, path items and parameters of a document
into endpoints (`ParseOpenAPI`), within limits on its nodes and their depth, in
which maps and lists count as they do in the code. `allOf`, `anyOf` and `oneOf`
are sequences: an alternative that is stated twice is not the same as one.
`SchemaRules` has the rules of single keywords: types, enumerations, bounds, sizes
and the rules of a simple property, and what these keywords say of a value. `EndpointDiff` compares endpoints part by part
(parameters, request body, responses, headers, servers, security) and says what
a client may rely on (`Keeps`); how two schemas are compared, how a schema of
3.0 is read and which values a schema allows are its constants
(`CompareSchemas`, `SchemaView`, `Allows`). `SemanticDiff` has what the
comparison knows about a whole schema: its fields and property rules in a
direction. `ContractDiff` builds the items of two schemas from it
(`CompareSchemaFields`). `TextDiff` compares Markdown line by line.
`Comparisons` is the state around them: versions with facts that an older
parser may have stored, their refresh, the stored difference and the answer. It
takes the parser as a constant too (`Parse`), of which it assumes that every
endpoint has its security. `ContractComparisons` and `contract_changes.cfg` put
`OpenAPIDocument`, `ContractDiff` and `ContractMeaning` in the place of the
constants.

The reference is `ContractMeaning` for schemas (which values one accepts) and
`MaySend`, `AcceptsRequest`, `Sends` and `Understands` of `EndpointDiff` for
endpoints, written from the meaning of OpenAPI and independent of the
comparison. A "compatible" comparison is held against it.

Headers, encodings, servers and metadata are opaque values that are equal or
not; keywords that the code only compares for equality are represented by one
of them (`pattern`), and those it ignores by one (`description`). The modules
that walk through schemas (`OpenAPIDocument`, `SemanticDiff`, `ContractDiff`,
`ContractMeaning`) use RECURSIVE operators and stay with TLC; `SchemaRules`,
`EndpointDiff`, `TextDiff` and `Comparisons` have none and are proved about. In
these, a `UNION` next to a `\cup` stands in parentheses: SANY and tlapm give
the two different precedence.

In `TextDiff` lines are opaque values and a range of two texts is four indexes.
`CollectMarkdownDiffBlocks` strips a range of its common ends, looks for
anchors (`MarkdownPatienceAnchors`, the lines that occur once in each text, in the
longest order that both have; or `MarkdownLCSAnchors`, from the table, when it is small
enough), and goes on in the gaps between them until the depth or the anchors
are used up; what remains is a block.

## Runs

| Run | Properties | Shows | Bounds |
| --- | --- | --- | --- |
| `publication_races` | `HistoryIsALine`, `ImplementsHistory` | Competing publications on two processes form one line per branch and implement `VersionHistory`. | 2 processes, 2 drafts, 2 names, 2 contents, 1 branch, 4 upload attempts: two drafts approved against the same latest version, with the same and different names and contents |
| `review_races` | `TypeOK`, `VersionIsWhatWasReviewed`, `NoStrayObjects`, `PublicationIsAuthorised`, `ChangesFallOnWhatWasLoaded`, `ReviewClosesDrafts` | What is published is what was reviewed, in the round it was reviewed in, by someone who still may. | 1 draft, 2 branches, 2 contents, 2 submission rounds, 3 roles, failing uploads and transactions, archival |
| `storage_faults` | `StoredContentPresent`, `ContentInvariant` | No combination of faults loses content that a row names. | all five faults, 2 processes, 2 drafts, 3 attempts |
| `archived_branch` | `ArchivedBranchKeepsDrafts` | Violated, see below. | 1 draft, 2 branches |
| `store_cache` | `CacheInvariant`, `RequestsSeeCommittedRows`, `ImplementsCommittedRows` | Requests work on committed rows and write their own: the caches implement a store that has none. | 2 processes, a row and a summary, 3 transactions: one open while the marker is read, one that overtakes it, one that meets the leftovers |
| `summary_jobs` | `GenerationsInvariant`, `CallsAudited`, `AnswersAreCurrent`, `OnlyCurrentGenerationWrites`, `LostWorkersLeaveJobs`, `GenerationsEnd` | Saved answers are current and owned; superseded and lost runs write nothing; no summary stays pending forever. | 2 workers, 2 generations, 2 revisions of the inputs, 2 faults of any kind, 2 attempts |
| `administrators` | `CollaborationInvariant`, `SuperAdminRemains`, `ProjectsHaveAdmin`, `ProjectsInLiveTeams`, `SuperAdminsAreAppointed`, `ProjectChangesAuthorised`, `ArchivedIsFinal` | Administrators remain, projects stay in live teams, and every change has the rights it needs when it commits. | 2 users, 2 requests at a time, 1 team, 1 project, 2 roles, 2 writes of a row: each of two administrators removes the other |
| `credentials` | `PasswordsAreNotUndone`, `LoginsAreCurrent` | Passwords are replaced only by their holders or the reset; logins use current ones. | 2 users, 2 requests at a time, 4 hashes, 4 writes of a row: a change of password inside an edit, a login or another change |
| `contract_changes` | `TypeInvariant`, `NothingToHandleMeansCompatible`, `NoChangeMeansSameContract`, `ReferencesAreFollowed`, `TextChangesReplay` | A comparison that leaves nothing to handle keeps every client going, one without changes compares equal contracts, references mean what they refer to, text differences replay. | all pairs of 94 schemas in a request (3.0) and in a response (3.1), of 27 endpoints, of documents with references and with path items, documents of each of 4 versions, and of 121 texts of up to 4 lines; judged on about 40 values, requests and responses |
| `document_services` | `TypeInvariant`, `ConversationIsWhole`, `AnswersAreCurrent`, `LibraryIsWhole`, `SharesOpenOnlyWhatIsShared`, `TokensActWithinTheirRights`, `WithdrawnStaysWithdrawn` | Answers are given, rows written and messages stored only while everything they rest on holds. | 2 requests at a time, 2 users (one a super administrator), 2 events, 1 share, 1 token, 1 session, 2 documents of 2 names, 6 branches, 6 paths of up to 3 names; 20 workloads |
| `lost_lease` | `PendingHasJob` | Violated, see below. | 1 job, 1 stall |
| `summary_shutdown` | `ShutdownKeepsGeneration` | Violated, see below. | 1 job, 1 shutdown |

Bounds are constants named `Max...`: `MaxAttempts` (uploads begun), `MaxStamp`
(writes of one draft), `MaxRounds` (submissions of one draft), `MaxDocStamp`,
`MaxTransactions`, `MaxFaults`, `MaxJobs`, `MaxRevision`, `MaxVersions`,
`MaxTime`, `MaxEvents`, `MaxWrites`, `MaxSerial`, `MaxFragments`, `MaxDepth`,
`MaxBranchRows`, `MaxMoves`, `MaxEdits`. `AttemptLimit` is 3 in
the code and 2 in the runs: a first, a last and no attempt in between that
differs from the first. Every race in the properties is between two requests,
and every row is compared with one earlier value of itself, so two processes
and two values of each kind meet each case; the proofs below carry every property
but the liveness of summaries and the meaning of contracts to every size.

The workflow and cache runs check for deadlock: some request can always start
or some handler always run. The `SummaryJobs` runs do not: once `MaxJobs`
generations have ended the system rests. Nor does `administrators`: when every
row has been written `MaxStamp` times and a project is archived, no request of
the run is left. Nor do `document_services`, whose rows can all be archived and
whose events end, and `contract_changes`, which ends with its answer.

In `document_services` the properties are about a request and at most two
things that happen beside it: a second request or two events. Two clients, two
events and one row of a kind therefore meet each case; the workloads put each
kind of request beside each kind of event that its guard names. "document" in
a workload says that one document exists at first. Clients and documents are
symmetric. In `contract_changes` every rule of the comparison has a schema that
uses it, alone and combined with the rules it interacts with, and every pair of
schemas is compared in both directions.

### Fairness

Only `SummaryJobs` states liveness. Its `Fairness` says that a worker that can
do something of its own eventually does (`Work`): its loop polls every second,
database work has timeouts of ten seconds, and calls to the provider are
bounded by the configured timeouts (10, 3 and 2 minutes by default; an operator
who configures 0 gives this up), and that a process that stopped is started
again. It says that the orphan scan runs, which every worker does each minute,
and that a lease nobody renews runs out, which is the passage of time. Nothing
is assumed of faults, of changes to the inputs, of requests, or of a lease
whose worker lives. `GenerationsEnd` then holds: queued, claimed, lost, crashed
or forgotten, a generation ends.

## Where the code and its words differ

* `archived_branch`: an edit, a submission or a rejection that was loaded before
  its branch was archived commits afterwards, because its guard names no branch.
  Publication and creation name it and are refused
  (`PublicationIsAuthorised` holds). `API.md` says that archiving a branch
  blocks draft work in it, and the guard's comment that the transaction repeats
  the service's checks.
* `lost_lease`: a worker whose lease ran out and was not claimed by another one
  deletes the job instead of leaving it, and the summary stays pending until the
  orphan scan fails it five minutes later. The comment on renewal says that
  another instance takes such a job.
* `summary_shutdown`: between the provider's answer and its completion a
  graceful shutdown fails the generation; before and after that window it
  releases the job for a retry, as `API.md` says.

Met while modelling, outside the properties:

* A response schema `allOf` whose part forbids a property (`properties: {a:
  false}`) is compared as no change. The reference leaves combined constraints
  inside combined objects to the items that ask for manual review.
* A change of security alone is a warning and not breaking;
  `NoChangeMeansSameContract` includes security,
  `NothingToHandleMeansCompatible` speaks of requests that are authorised.
* A document whose version is "3.0" or "3.1", without a patch number, is accepted,
  while what 3.1 says of keywords beside a reference, and what each dialect says of
  exclusive bounds, goes by "3.0." and "3.1.": such a document is read as if it
  had neither rule. Its Boolean bounds are then left to a reviewer. The model does
  the same; `ReferencesAreFollowed` says what each version's documents mean.
* `docs/api/API.md:485` speaks of parser version 8, `openapi_facts.go` has 10.
* Documents without a path: the store's check leaves them out, while the unique
  index on the lower-case path takes the empty path as a value, so a project
  has at most one of them; the second is refused by the database.
* `EqualFold` in the store and `lower()` in the indexes agree on the letters of
  the model; they differ on a few Unicode letters.
* A Markdown draft that a tool creates is recorded with the source type of an
  upload on the web, an OpenAPI draft with that of a tool.

## Proofs

`DocumentWorkflowProofs` (for any number of processes, users, branches, drafts,
names and contents, any skew, any bounds):

* `ContentInvariantHolds`: `Spec => []ContentInvariant`. The invariant says that
  keys of a running attempt are fresh and private, that a request about to
  commit has stored its keys, that the ledger holds stored keys only, and that
  rows and requests name recorded keys or their own. `StoredContentPresent`
  alone is not inductive: without the privacy of keys a clean-up could delete
  another request's objects, and without the freshness a crash's leftovers could
  be written again.
* `TypeCorrect` and `ContentIsKept` follow from it.
* `PublicationAuthorised`: the action property, from the part of the invariant
  that ties a version to its request's guard.
* `NothingLeftBehind`: `[]NoStrayObjects` when deletions work, outcomes are
  known and processes survive. With those faults the code does leave objects,
  knowingly: it prefers a stray object to a lost one.

On top of `ContentInvariant`:

* `ReviewInvariant` ties a running request to the draft row it was prepared
  over: as long as that row has the stamp that was loaded, it is the row that
  was loaded, so what `RowUnchanged` lets through was decided on the row it
  changes. From it follow `VersionsAreWhatWasReviewed`, `ReviewClosesForGood`
  and `NoChangeIsLost`.
* `LineInvariant`, for clocks that agree, says that versions are numbered by
  their clock and that a request in flight knows its place in the branch.
  `HistoriesAreLines` and the refinement `VersionHistoryImplemented` follow:
  a publication that commits appends to its branch, and every other step
  leaves the published history alone.

`StoreCacheProofs` (any number of processes, rows, summaries, transactions):

* `CacheInvariantHolds`: the invariant orders transaction ids, says that a
  marker names every open transaction it does not place in the future
  (`MarkersPast`), and that an unmoved marker means unmoved rows
  (`CacheCoherent`). The central lemma is `EndMovesMarker`: ending any
  transaction changes the snapshot of everyone who holds an older one.
* `NothingLeaksBetweenRequests` and `RequestsSeeTheDatabase` follow.
* `CommittedRowsImplemented`: the refinement. A refresh is a look at the
  committed rows, whether it reads them or, as the marker says it may, does not
  (`RefreshLooks`); a save begins a transaction over what its request saw and
  not over what the cache has become since (`SaveBegins`); and an end of a
  transaction, seen by its client or not, is its taking effect or its failing
  (`CommitTakesEffect`, `RollbackFails`, `ResolveEnds`).

`CollaborationProofs` (any number of users, teams, projects, roles and requests):

* `Invariant`: `Spec => []CollaborationInvariant`. The three invariants of
  administration are not inductive alone. What makes them so is that a row is
  written over exactly what was loaded (`LoadedRowsAreCurrent`: as long as the
  stamp is the same, the row is; hence the comparison of what was loaded with
  what is stored, by which `Validated` decides what to look at, is a comparison
  of the table before and after the write), and that requests carry the rights
  and parents they were checked for (`RequestsAreFormed`). A project that the
  write does not touch keeps the administrator it had.
* `SuperAdminAlways`, `ProjectsAlwaysHaveAdmin`, `ProjectsAlwaysInLiveTeams` and
  `TypeCorrect` are its parts.
* `OnlyAppointed`, `AlwaysAuthorised`, `PasswordsStay`,
  `LoginsUseCurrentPasswords` and `ArchivedForGood` are the action properties.
  `OnlyTransactionsWrite` reduces each of them to the transaction and the
  command, which the guard and the comparison of stamps decide.

`SummaryJobsProofs` (any number of workers, jobs, revisions and faults):

* `JobsInvariant` orders generations and leases and knows at which steps an
  audit row is due. `GenerationsInOrder` and `CallsAreAudited` are its parts.
* `SupersededRunsWriteNothing`, `AnswersRestOnCurrentInputs` and
  `LostLeasesAreLeft` are the action properties: uniqueness of leases makes the
  holder of a token the only one whose conditional update takes effect.

`DocumentServicesProofs` and `AiChatProofs` (any number
of clients, users, tokens, shares, sessions, versions, messages and events):

* Requests of one kind leave the rows of the others alone
  (`ShareStepsMove`, `TokenStepsMove`, `ChatStepsMove`, `LibraryStepsMove`), so
  that each proof follows one kind of request through all the others.
* `TokenInvariant`: what a request loaded of a token, the row has followed
  since (`TokenFollows`): it was used more, or withdrawn, or sealed again, and
  as long as its lifecycle is the one that was loaded nothing else changed.
  `ToolsActWithinRights` follows, since each step that reads, writes or shows
  decides on the row again or runs on what cannot have changed since.
* `ShareInvariant` says the same of shares by their stamps, and that a reader's
  snapshot has versions that were published and a creation a selection that
  exists. `WithdrawnIsFinal` needs both invariants, since the rotation writes
  both tables; `SharesOpenWithinScope` needs the second.
* `ChatInvariant`: no two requests have the same token, and while a request
  that has asked holds its session the conversation is the one it was built
  from, all of it older than its question (`KnowsAll`). `ConversationIsWhole`
  alone is not inductive, since it does not know what a request in flight will
  store. `ConversationsAreWhole` and `AnswersRestOnTheirSources` follow.

`LibraryProofs` (any number of clients, documents, folders, branches and
requests, paths of any depth):

* `LibraryStaysWhole`: the two halves of `LibraryIsWhole`. `LibraryInvariant`
  adds to the tables' being whole what is known of a request that waits:
  `PlanFits`, that its rows are the ones that were loaded with their stamp moved
  on, that a document it makes comes with its branches, that it changes the
  default branch in pairs, and that of the branches it writes together only the
  new default may be renamed. Without that, a save that finds every row as it was
  loaded could still leave a document without a default branch, or give a branch
  the name of one that is written after it.
* The folders on the way to a file (`Way`) are a recursive function. `Loop`
  gives it its value name by name, from the fact that a set of numbers has a
  least one (the well-foundedness of the library's `<`), and `Induction` over
  sets of numbers carries a fact along it: `WayByName`, `WayAgrees`.
* `OrderNeverRefuses` is the second half: if the tables are whole before and
  after, then no state between two statements violates a unique index or a
  foreign key (`FoldersInOrder`, `BranchesInOrder`). Folders are written by
  length, so that a parent comes first; a default branch that moves is given up
  before the next one is set.
* `EverythingHasItsType`: `Spec => []TypeInvariant` of `DocumentServices`, with
  all its kinds of requests. `TypesFit` holds the types of the tables and, of
  every request, `RequestWell`, which names the fields that each kind has at
  each step. It is kept by a step only where `RequestsHold` (the invariants of
  shares, tokens, conversations and the library) holds before and after: that a
  row is written back where there was a row, that a reader was given versions
  that exist and that a revision stays below its bound are not a matter of types.

`ComparisonsProofs` (any sources, any parser, any comparison and meaning of
schemas, contracts, requests and responses of any size, texts of any length over
any lines, any limits on depth and tables):

* `MarkdownLineDiffReplays`: a difference of texts is one. The lines outside the
  blocks are equal one by one, blocks are in order and not empty on both sides,
  and every line of a block is in exactly one item. The proof follows the code:
  stripping a range leaves a proper one whose ends are equal (`StartStripped`,
  `EndStripped`); what `MarkdownPatienceAnchors` and the walk through the table find are
  equal lines in the order of both texts (`Anchored`: `PilesLinked` says that the
  piles point back to earlier and smaller lines, `WalkUnfolds` follows the
  table); between anchors the ranges are proper, and covers of neighbouring
  ranges join (`Covers`, `CoversJoin`); `CollectCovers` carries this through all
  depths; and `BlockSays` and `CountsAddUp` relate items to lines.
* These too are recursive functions, over positions, depths and ranges.
  `Recursion` gives a function that is defined along a measure into the numbers
  its values, and `OnMeasure` is induction along it.
* `ComparisonsInvariantHolds`: facts marked with the current parser are what the
  parser gives, a stored difference of the current parser is what the sources
  give, and so is every answer. `TypeInvariant` is not inductive alone: it does
  not know that two versions of a document have one format, nor what the stored
  difference was made of.
* `ReadersAreAnsweredFromTheSources`, `ComparisonsHaveTheirTypes` and
  `AnswersReplayTheTexts` follow, the last with the theorem on texts.
* `EndpointsThatNeedNoHandling`: if comparing two versions of an endpoint leaves
  nothing to handle, every request a client of the older one may send is
  accepted by the newer one, and every response of the newer one is understood.
  Each part has its lemma: parameters that appear, disappear, change place or
  encoding (`ParametersFit`), request bodies and their media types
  (`BodiesFit`), responses by status, range or default, their headers and media
  types (`ResponsesFit`), servers. `EndpointsFoundTheSame` is about comparisons
  that find nothing. Both rest on `SchemasJudged`: that the comparison of
  schemas is right on the schemas that stand in the same place on both sides.
* `NothingToHandleIsCompatible` and `NoChangeIsTheSameContract` carry this to
  every answer a reader is given, through `ComparisonsInvariant` (the answer was
  made from the sources). They state the invariants of `contract_changes` under
  the hypothesis `SchemasAreJudged`, and say so: it is the schema comparison
  alone that stays with TLC, which evaluates the hypothesis for the endpoints of
  the run (`MCSchemasAreJudged`) and checks the two invariants without it for
  all of its schemas. The hypothesis cannot be dropped: the comparison of schemas
  is recursive, and there are schemas on which it is wrong (the response `allOf`
  under "Where the code and its words differ").
* The rules of keywords, which the comparison of schemas applies at each of its
  places, are proved against what the keywords say of a value, for any types,
  values and numbers: fragments combine to the type and the enumeration that
  all of them allow, whatever their number and order
  (`CombinedTypeIsWhatAllAllow`, by induction over the sets of fragments;
  `CombinedEnumIsWhatAllList`); a change of types that is not called breaking loses
  no value, and one between named types that is called breaking loses one
  (`TypeChangesAreJudgedRightly`); and a comparison of fields, of
  simple property rules, of bounds and of sizes that leaves nothing to handle
  loses no value in the direction values go (`FieldsAreComparedRightly`,
  `SimpleRulesAreJudgedRightly`, `BoundsAreComparedRightly`,
  `SizesAreComparedRightly`). `OwnKeywordsAreComparedRightly` puts them together
  for all that a schema says of a value itself and not of its parts.

The proofs assume the named `ASSUME`s of the modules and, for
`HistoriesAreLines` and `VersionHistoryImplemented`, `Skew = 0`. Among the
`ASSUME`s are that `None` is not a row, that bounds of revisions and versions
are not 0 (a setting or a branch exists), that the environments of a new
document are names of branches with room for their rows, and that versions of
one document have its format: TLC checks them in every run.

Only model-checked:

* `GenerationsEnd` of `SummaryJobs`: liveness under fairness is beyond the proof
  system, as is anything about `ENABLED`.
* `ReferencesAreFollowed` of `ContractComparisons`, and that the comparison of
  two whole schemas (`CompareSchemaFields`) is right, which is what
  `NothingToHandleMeansCompatible` and `NoChangeMeansSameContract` have beyond
  their theorems: resolution, comparison and meaning recurse over schemas with
  RECURSIVE operators. What they compute for every schema needs induction over
  data whose shape has no bound.

## Assumptions and limits

* PostgreSQL transactions are serialised by the row locks the guard takes;
  `Commit` is one step. Transactions that wait for each other are outside the
  modules: PostgreSQL fails one of them, which is the failed transaction that
  the modules have.
* Two attempts never get the same upload path, and ids are not reused
  (`GenerateID`, random paths).
* `Skew = 0` in every run: the latest version is found by `published_at` of the
  publishing process's clock while numbers are counts. With a lagging clock the
  latest version is not the last one; this is listed as a hazard.
* The clock of `Workspace` does not run backwards.
* A failed summary completion and `failSummaryJob` check the generation and not
  the lease, which the model reproduces: `AnswersAreCurrent` of `SummaryJobs`
  speaks of answers, and `OnlyCurrentGenerationWrites` of generations.
* `Library` starts empty or with one document; `Workspace` has one project with
  one document, whose branches are fixed. Requests on several projects share no
  rows but the users, who are in `Collaboration`.

## Not modelled

* The memory-only store that tests use: it has no second process, no
  transaction and no leases. `CreateService` is used by tests only.
* The rate limiter: a bucket's level is real time times a rate. It protects
  the process and not the domain.
* The HTTP layer and the frames of the MCP protocol translate requests into
  the operations modelled here; JSON and YAML decoding, the listing of models
  and the form of requests to providers are external.
* Names other than those of documents and branches, descriptions, audit rows (but for where an answer waits for one),
  listings, overviews, search and history pages: reads without a decision.
* Protection of branches, which no operation asks for; the first draft a
  document may be created with, which is the creation of a draft; conflict
  resolution in Markdown drafts, which is an edit of the draft.
* Attachments of chat messages and the selection of what fits into a request;
  drafts among the sources of a conversation (`ai_document_chat.go:83`): they
  enter the same revision as the versions do, whose change the model has.
* Keys of AI providers in the rotation (`cipher_rotation.go:43`), which are rows of
  the same transaction; no property is about them, since no request withdraws one.
* The update check, ids, the PID file, health, configuration and logging.
* The order of startup and shutdown: it runs once, before and after requests.

## Abstract specifications

`VersionHistory` is the abstract specification of published versions and
`CommittedRows` that of the store; `VersionHistoryImplemented` and
`CommittedRowsImplemented` are the proofs that the workflow and the caches keep
them. An abstract
specification of a conversation, implemented by `AiChat`, would restate
`ConversationsAreWhole` as a refinement.

## Running

    tlc -workers 2 -config review_races.cfg MCDocumentWorkflow
    tlapm DocumentWorkflowProofs.tla

Each run ends within about three minutes on two cores.
