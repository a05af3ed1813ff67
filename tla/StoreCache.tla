----------------------------- MODULE StoreCache -----------------------------
(***************************************************************************)
(* The in-memory rows of a Vdoc process and the PostgreSQL rows they copy. *)
(*                                                                         *)
(* A process keeps two copies of the rows: the cache its handlers read and *)
(* change, and `persisted', what it believes is committed.  Before a       *)
(* request it compares PostgreSQL's snapshot marker with the marker of its *)
(* last load and reloads only when they differ.  A saving request changes  *)
(* the cache in place and writes every row in which the cache differs from *)
(* persisted; a publication prepares its rows aside.  A failed transaction *)
(* puts the cache back to persisted.  A transaction whose client lost the  *)
(* connection, or crashed, may still commit later.                         *)
(*                                                                         *)
(* An AI summary worker also marks its summary pending in the cache alone  *)
(* (prepareAISummaryRequest); the next save of the process takes it along. *)
(*                                                                         *)
(* The value of a row is the id of the transaction that wrote it.          *)
(***************************************************************************)
EXTENDS Naturals

CONSTANTS
    Instances,       \* Vdoc processes
    Rows,            \* rows of the working state
    Summaries,       \* those that are AI summaries
    None,            \* no marker, no transaction
    MaxTransactions  \* bound: transaction ids handed out

VARIABLES
    rows,       \* committed value of each row
    lastXid,    \* last transaction id handed out
    latest,     \* largest transaction id that has ended
    running,    \* transactions in progress
    orphans,    \* those in progress whose client is gone
    cache,      \* Store's maps, without what is staged
    staged,     \* summaries marked pending in Store's maps alone
    persisted,  \* Store.persisted
    revision,   \* postgresPersistence.revision
    step,       \* where a process's request is
    work        \* the transaction of a process's request

memory == <<cache, staged, persisted, revision>>
vars == <<rows, lastXid, latest, running, orphans,
          cache, staged, persisted, revision, step, work>>

ASSUME SummariesAssumption == Summaries \subseteq Rows

Xid == Nat \ {0}
RowsState == [Rows -> Nat]
Marker == [end : Nat, open : SUBSET Xid]

\* row is the row the handler changes, writes the rows the transaction writes,
\* over the values it expects there; inPlace tells a save from a publication.
Transaction == [xid : Xid, row : Rows, writes : SUBSET Rows, over : RowsState,
                inPlace : BOOLEAN]

ASSUME NoneAssumption == None \notin Marker \cup Transaction \cup RowsState

TypeOK ==
    /\ rows \in RowsState
    /\ lastXid \in Nat /\ latest \in Nat
    /\ running \subseteq Xid
    /\ orphans \subseteq Transaction
    /\ cache \in [Instances -> RowsState \cup {None}]
    /\ staged \in [Instances -> SUBSET Summaries]
    /\ persisted \in [Instances -> RowsState \cup {None}]
    /\ revision \in [Instances -> Marker \cup {None}]
    /\ step \in [Instances -> {"idle", "checked", "saving"}]
    /\ work \in [Instances -> Transaction \cup {None}]

Init ==
    /\ rows = [r \in Rows |-> 0]
    /\ lastXid = 0 /\ latest = 0
    /\ running = {}
    /\ orphans = {}
    /\ cache = [i \in Instances |-> None]
    /\ staged = [i \in Instances |-> {}]
    /\ persisted = [i \in Instances |-> None]
    /\ revision = [i \in Instances |-> None]
    /\ step = [i \in Instances |-> "idle"]
    /\ work = [i \in Instances |-> None]

-----------------------------------------------------------------------------
(* PostgreSQL                                                              *)

\* Variant of Snapshot that keeps the upper end of pg_current_snapshot only.
SnapshotEnd == [end |-> latest, open |-> {}]

\* pg_current_snapshot(): how far transactions have ended, and which ids below
\* that end are still in progress.
Snapshot == [end |-> latest, open |-> {x \in running : x <= latest}]

EndTransaction(xid) ==
    /\ running' = running \ {xid}
    /\ latest' = IF xid > latest THEN xid ELSE latest
    /\ UNCHANGED lastXid

\* updated_at of every row written is the one the process had loaded.
Unchanged(t) == \A r \in t.writes : rows[r] = t.over[r]

Written(t, state) == [r \in Rows |-> IF r \in t.writes THEN t.xid ELSE state[r]]

-----------------------------------------------------------------------------
(* Requests                                                                *)

Refresh(i) ==
    /\ step[i] = "idle"
    /\ step' = [step EXCEPT ![i] = "checked"]
    /\ IF revision[i] = Snapshot
         THEN UNCHANGED memory
         ELSE /\ cache' = [cache EXCEPT ![i] = rows]
              /\ staged' = [staged EXCEPT ![i] = {}]
              /\ persisted' = [persisted EXCEPT ![i] = rows]
              /\ revision' = [revision EXCEPT ![i] = Snapshot]
    /\ UNCHANGED <<rows, lastXid, latest, running, orphans, work>>

\* The request only reads, or its checks refuse it.
Leave(i) ==
    /\ step[i] = "checked"
    /\ step' = [step EXCEPT ![i] = "idle"]
    /\ UNCHANGED <<rows, lastXid, latest, running, orphans, memory, work>>

\* A worker marks the summary of its job pending and goes to call the provider.
Stage(i, r) ==
    /\ step[i] = "checked"
    /\ staged' = [staged EXCEPT ![i] = @ \cup {r}]
    /\ step' = [step EXCEPT ![i] = "idle"]
    /\ UNCHANGED <<rows, lastXid, latest, running, orphans,
                   cache, persisted, revision, work>>

StartTransaction(i, t) ==
    /\ step[i] = "checked"
    /\ lastXid < MaxTransactions
    /\ lastXid' = t.xid
    /\ running' = running \cup {t.xid}
    /\ work' = [work EXCEPT ![i] = t]
    /\ step' = [step EXCEPT ![i] = "saving"]
    /\ UNCHANGED <<rows, latest, orphans, staged, persisted, revision>>

\* A handler changes row r in the cache; saveLocked writes what differs.
Save(i, r) ==
    LET xid == lastXid + 1
        changed == [cache[i] EXCEPT ![r] = xid]
    IN  /\ StartTransaction(i,
             [xid |-> xid, row |-> r, over |-> persisted[i], inPlace |-> TRUE,
              writes |-> {q \in Rows : changed[q] # persisted[i][q]}
                         \cup staged[i]])
        /\ cache' = [cache EXCEPT ![i] = changed]

\* PublishState is given the rows to write; the cache waits for the commit.
Publish(i, r) ==
    /\ StartTransaction(i,
         [xid |-> lastXid + 1, row |-> r, over |-> persisted[i],
          inPlace |-> FALSE, writes |-> {r}])
    /\ UNCHANGED cache

Done(i) ==
    /\ step' = [step EXCEPT ![i] = "idle"]
    /\ work' = [work EXCEPT ![i] = None]

\* The marker has moved: staged rows are gone before the next request looks.
Commit(i) ==
    /\ step[i] = "saving"
    /\ Unchanged(work[i])
    /\ rows' = Written(work[i], rows)
    /\ EndTransaction(work[i].xid)
    /\ cache' = [cache EXCEPT ![i] = Written(work[i], @)]
    /\ persisted' = [persisted EXCEPT ![i] = Written(work[i], cache[i])]
    /\ staged' = [staged EXCEPT ![i] = {}]
    /\ Done(i)
    /\ UNCHANGED <<orphans, revision>>

\* Variant of Restore that leaves the rows of a failed save in the cache.
KeepCache(i) == UNCHANGED memory

\* applyStateLocked(persisted) after a failed save.
Restore(i) ==
    /\ IF work[i].inPlace
         THEN /\ cache' = [cache EXCEPT ![i] = persisted[i]]
              /\ staged' = [staged EXCEPT ![i] = {}]
         ELSE UNCHANGED <<cache, staged>>
    /\ UNCHANGED <<persisted, revision>>

Rollback(i) ==
    /\ step[i] = "saving"
    /\ EndTransaction(work[i].xid)
    /\ Restore(i)
    /\ Done(i)
    /\ UNCHANGED <<rows, orphans>>

\* ErrCommitOutcomeUnknown: the client sees an error, the server goes on.
Disconnect(i) ==
    /\ step[i] = "saving"
    /\ orphans' = orphans \cup {work[i]}
    /\ Restore(i)
    /\ Done(i)
    /\ UNCHANGED <<rows, lastXid, latest, running>>

Restart(i) ==
    /\ revision[i] # None
    /\ orphans' = IF step[i] = "saving" THEN orphans \cup {work[i]} ELSE orphans
    /\ cache' = [cache EXCEPT ![i] = None]
    /\ staged' = [staged EXCEPT ![i] = {}]
    /\ persisted' = [persisted EXCEPT ![i] = None]
    /\ revision' = [revision EXCEPT ![i] = None]
    /\ Done(i)
    /\ UNCHANGED <<rows, lastXid, latest, running>>

\* The server ends a transaction nobody waits for, either way.
Resolve(t) ==
    /\ \/ Unchanged(t) /\ rows' = Written(t, rows)
       \/ UNCHANGED rows
    /\ EndTransaction(t.xid)
    /\ orphans' = orphans \ {t}
    /\ UNCHANGED <<memory, step, work>>

Request(i) ==
    \/ Refresh(i) \/ Leave(i)
    \/ \E r \in Summaries : Stage(i, r)
    \/ \E r \in Rows : Save(i, r) \/ Publish(i, r)
    \/ Commit(i) \/ Rollback(i) \/ Disconnect(i) \/ Restart(i)

Next ==
    \/ \E i \in Instances : Request(i)
    \/ \E t \in orphans : Resolve(t)

Spec == Init /\ [][Next]_vars

-----------------------------------------------------------------------------
(* Properties                                                              *)

\* A request that got past refreshLocked checks the committed rows, whether
\* the marker made the process reload or keep its cache; only a summary whose
\* generation this process is running may look pending ahead of the database.
RequestsSeeCommittedRows ==
    [][ \A i \in Instances :
          step[i] = "idle" /\ step'[i] = "checked" =>
            \A r \in Rows \ (staged'[i] \cap Summaries) :
                cache'[i][r] = rows[r] ]_vars

OwnRowOnly(t) == t.row \in t.writes /\ t.writes \ {t.row} \subseteq Summaries

\* A transaction writes the row its own request changed and, summaries aside,
\* no other: what an earlier failed request left in memory never reaches the
\* database.
OnlyOwnRowWritten ==
    /\ \A i \in Instances : work[i] # None => OwnRowOnly(work[i])
    /\ \A t \in orphans : OwnRowOnly(t)

\* Except while it saves a change made in place, a process's cache is what it
\* believes is committed, and that is what is committed as long as the marker
\* has not moved.
CacheCoherent ==
    \A i \in Instances : revision[i] # None =>
        /\ \/ cache[i] = persisted[i]
           \/ step[i] = "saving" /\ work[i].inPlace
        /\ revision[i] = Snapshot => persisted[i] = rows

\* Transaction ids are handed out in order, belong to one request each and run
\* until it ends; no row carries the id of a later transaction.
TransactionsOrdered ==
    /\ latest <= lastXid
    /\ \A x \in running : x <= lastXid
    /\ \A r \in Rows : rows[r] <= lastXid
    /\ \A t \in orphans : t.xid \in running
    /\ \A t, u \in orphans : t.xid = u.xid => t = u
    /\ \A i \in Instances :
          /\ (work[i] # None) <=> (step[i] = "saving")
          /\ work[i] # None => /\ work[i].xid \in running
                               /\ \A t \in orphans : t.xid # work[i].xid
          /\ \A j \in Instances : i # j /\ work[i] # None /\ work[j] # None =>
                work[i].xid # work[j].xid

\* A marker names every running transaction that it does not place in the
\* future, so the end of any transaction changes the marker.
MarkersPast ==
    \A i \in Instances :
        /\ step[i] # "idle" => revision[i] # None
        /\ revision[i] # None =>
              /\ cache[i] # None /\ persisted[i] # None
              /\ \A r \in Rows :
                    cache[i][r] <= lastXid /\ persisted[i][r] <= lastXid
              /\ revision[i].end <= latest
              /\ \A x \in running : x <= revision[i].end => x \in revision[i].open

\* The inductive invariant behind RequestsSeeCommittedRows.
CacheInvariant ==
    /\ TypeOK
    /\ TransactionsOrdered
    /\ MarkersPast
    /\ CacheCoherent
    /\ OnlyOwnRowWritten

-----------------------------------------------------------------------------
(* What the handlers rely on                                               *)

\* A request has looked at the rows its process believes committed.
Seen == [i \in Instances |-> IF step[i] = "checked" THEN persisted[i] ELSE None]

InProgress == orphans \cup {work[i] : i \in {j \in Instances : step[j] = "saving"}}

Promised(t) == [xid |-> t.xid, row |-> t.row, writes |-> t.writes, over |-> t.over]

Pending == {Promised(t) : t \in InProgress}

Promise == INSTANCE CommittedRows WITH last <- lastXid, seen <- Seen,
                                       pending <- Pending

\* The copies do not show: to its handlers every process is a client of the
\* committed rows.  Its requests see what is committed, write their own row and
\* at most summaries beside it, and write over what they saw or not at all,
\* whatever fails, crashes or commits after its client is gone.
ImplementsCommittedRows == Promise!Spec

=============================================================================
