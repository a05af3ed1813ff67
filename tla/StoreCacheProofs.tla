-------------------------- MODULE StoreCacheProofs --------------------------
(***************************************************************************)
(* For any processes and rows, and any number of transactions: requests    *)
(* check committed rows, and a transaction writes its request's row only,  *)
(* AI summaries aside.                                                     *)
(***************************************************************************)
EXTENDS StoreCache, TLAPS

\* The end of a transaction moves PostgreSQL's marker away from every marker a
\* process holds.
LEMMA EndMovesMarker ==
    ASSUME CacheInvariant, NEW x \in running, EndTransaction(x),
           NEW i \in Instances, revision[i] # None
    PROVE  revision[i] # Snapshot'
  <1>1. /\ revision[i] \in Marker /\ x \in Nat /\ latest \in Nat
        /\ running' = running \ {x}
        /\ latest' = IF x > latest THEN x ELSE latest
    BY DEF CacheInvariant, TypeOK, EndTransaction, Xid
  <1>2. revision[i].end \in Nat /\ revision[i].end <= latest
    BY <1>1 DEF CacheInvariant, MarkersPast, Marker
  <1>3. CASE x <= revision[i].end
    <2>1. x \in revision[i].open
      BY <1>3 DEF CacheInvariant, MarkersPast
    <2>2. x \notin Snapshot'.open
      BY <1>1 DEF Snapshot
    <2> QED BY <2>1, <2>2
  <1>4. CASE ~(x <= revision[i].end)
    <2>1. Snapshot'.end # revision[i].end
      BY <1>1, <1>2, <1>4 DEF Snapshot
    <2> QED BY <2>1
  <1> QED BY <1>3, <1>4

\* The ids in progress and the marker stay in order when a transaction ends.
LEMMA EndKeepsOrder ==
    ASSUME CacheInvariant, NEW x \in running, EndTransaction(x)
    PROVE  /\ lastXid' = lastXid /\ latest' \in Nat
           /\ latest <= latest' /\ latest' <= lastXid
           /\ running' = running \ {x}
  BY DEF CacheInvariant, TypeOK, TransactionsOrdered, EndTransaction, Xid

\* What a process knows about transactions survives the end of one.
LEMMA EndKeepsMarkers ==
    ASSUME CacheInvariant, NEW x \in running, EndTransaction(x),
           NEW i \in Instances, revision[i] # None
    PROVE  /\ revision[i].end <= latest'
           /\ \A y \in running' : y <= revision[i].end => y \in revision[i].open
  <1>1. revision[i] \in Marker
    BY DEF CacheInvariant, TypeOK
  <1>2. revision[i].end \in Nat
    BY <1>1 DEF Marker
  <1> QED BY <1>2, EndKeepsOrder DEF CacheInvariant, MarkersPast, TypeOK

LEMMA RefreshPreserves ==
    ASSUME CacheInvariant, NEW i \in Instances, Refresh(i)
    PROVE  CacheInvariant'
  <1> USE DEF CacheInvariant
  <1>1. Snapshot \in Marker /\ Snapshot' = Snapshot /\ Snapshot # None
    <2>1. Snapshot \in Marker
      BY DEF TypeOK, Snapshot, Marker
    <2>2. Snapshot' = Snapshot
      BY DEF Refresh, Snapshot
    <2> QED BY <2>1, <2>2, NoneAssumption
  <1>2. /\ UNCHANGED <<rows, lastXid, latest, running, orphans, work>>
        /\ step' = [step EXCEPT ![i] = "checked"] /\ step[i] = "idle"
    BY DEF Refresh
  <1>3. CASE revision[i] = Snapshot
    <2>1. UNCHANGED <<cache, staged, persisted, revision>>
      BY <1>3 DEF Refresh, memory
    <2>2. TypeOK'
      BY <1>2, <2>1 DEF TypeOK
    <2>3. TransactionsOrdered' /\ OnlyOwnRowWritten'
      BY <1>2 DEF TransactionsOrdered, OnlyOwnRowWritten, TypeOK
    <2>4. MarkersPast'
      BY <1>1, <1>2, <1>3, <2>1 DEF MarkersPast, TypeOK
    <2>5. CacheCoherent'
      BY <1>1, <1>2, <2>1 DEF CacheCoherent, TypeOK
    <2> QED BY <2>2, <2>3, <2>4, <2>5
  <1>4. CASE revision[i] # Snapshot
    <2>1. /\ cache' = [cache EXCEPT ![i] = rows]
          /\ staged' = [staged EXCEPT ![i] = {}]
          /\ persisted' = [persisted EXCEPT ![i] = rows]
          /\ revision' = [revision EXCEPT ![i] = Snapshot]
      BY <1>4 DEF Refresh
    <2>2. rows # None
      BY NoneAssumption DEF TypeOK
    <2>3. TypeOK'
      BY <1>1, <1>2, <2>1 DEF TypeOK
    <2>4. TransactionsOrdered' /\ OnlyOwnRowWritten'
      BY <1>2 DEF TransactionsOrdered, OnlyOwnRowWritten, TypeOK
    <2>5. MarkersPast'
      <3>1. \A x \in running : x <= Snapshot.end => x \in Snapshot.open
        BY DEF Snapshot
      <3>2. Snapshot.end <= latest
        BY DEF Snapshot, TypeOK
      <3> QED BY <1>1, <1>2, <2>1, <2>2, <3>1, <3>2
              DEF MarkersPast, TypeOK, TransactionsOrdered
    <2>6. CacheCoherent'
      BY <1>1, <1>2, <2>1 DEF CacheCoherent, TypeOK
    <2> QED BY <2>3, <2>4, <2>5, <2>6
  <1> QED BY <1>3, <1>4

LEMMA LeavePreserves ==
    ASSUME CacheInvariant, NEW i \in Instances, Leave(i)
    PROVE  CacheInvariant'
  <1> USE DEF CacheInvariant
  <1>1. /\ UNCHANGED <<rows, lastXid, latest, running, orphans,
                       cache, staged, persisted, revision, work>>
        /\ step' = [step EXCEPT ![i] = "idle"] /\ step[i] = "checked"
    BY DEF Leave, memory
  <1>2. TypeOK'
    BY <1>1 DEF TypeOK
  <1>3. TransactionsOrdered' /\ OnlyOwnRowWritten'
    BY <1>1 DEF TransactionsOrdered, OnlyOwnRowWritten, TypeOK
  <1>4. MarkersPast'
    BY <1>1 DEF MarkersPast, TypeOK
  <1>5. CacheCoherent'
    BY <1>1 DEF CacheCoherent, TypeOK, Snapshot
  <1> QED BY <1>2, <1>3, <1>4, <1>5

LEMMA StagePreserves ==
    ASSUME CacheInvariant, NEW i \in Instances, NEW r \in Summaries, Stage(i, r)
    PROVE  CacheInvariant'
  <1> USE DEF CacheInvariant
  <1>1. /\ UNCHANGED <<rows, lastXid, latest, running, orphans,
                       cache, persisted, revision, work>>
        /\ staged' = [staged EXCEPT ![i] = staged[i] \cup {r}]
        /\ step' = [step EXCEPT ![i] = "idle"] /\ step[i] = "checked"
    BY DEF Stage
  <1>2. TypeOK'
    BY <1>1 DEF TypeOK
  <1>3. TransactionsOrdered' /\ OnlyOwnRowWritten'
    BY <1>1 DEF TransactionsOrdered, OnlyOwnRowWritten, TypeOK
  <1>4. MarkersPast'
    BY <1>1 DEF MarkersPast, TypeOK
  <1>5. CacheCoherent'
    BY <1>1 DEF CacheCoherent, TypeOK, Snapshot
  <1> QED BY <1>2, <1>3, <1>4, <1>5

\* A new transaction leaves the marker where it is.
LEMMA StartPreserves ==
    ASSUME CacheInvariant, NEW i \in Instances, NEW t \in Transaction,
           t.xid = lastXid + 1, OwnRowOnly(t), StartTransaction(i, t),
           cache' \in [Instances -> RowsState \cup {None}], cache'[i] # None,
           \A r \in Rows : cache'[i][r] <= lastXid + 1,
           ~t.inPlace => cache'[i] = cache[i],
           \A j \in Instances \ {i} : cache'[j] = cache[j]
    PROVE  CacheInvariant'
  <1> USE DEF CacheInvariant
  <1>1. /\ step[i] = "checked" /\ step' = [step EXCEPT ![i] = "saving"]
        /\ lastXid' = lastXid + 1 /\ running' = running \cup {lastXid + 1}
        /\ work' = [work EXCEPT ![i] = t]
        /\ UNCHANGED <<rows, latest, orphans, staged, persisted, revision>>
    BY DEF StartTransaction
  <1>2. t # None
    BY NoneAssumption
  <1>3. lastXid \in Nat /\ latest \in Nat /\ latest <= lastXid
    BY DEF TypeOK, TransactionsOrdered
  <1>4. TypeOK'
    <2>1. lastXid' \in Nat /\ running' \subseteq Xid
      BY <1>1, <1>3 DEF TypeOK, Xid
    <2>2. /\ step' \in [Instances -> {"idle", "checked", "saving"}]
          /\ work' \in [Instances -> Transaction \cup {None}]
      BY <1>1 DEF TypeOK
    <2> QED BY <1>1, <2>1, <2>2 DEF TypeOK
  <1>5. Snapshot' = Snapshot
    <2>1. {x \in running' : x <= latest} = {x \in running : x <= latest}
      BY <1>1, <1>3 DEF TypeOK, Xid
    <2> QED BY <1>1, <2>1 DEF Snapshot
  <1>6. TransactionsOrdered'
    <2>1. \A x \in running' : x <= lastXid'
      BY <1>1, <1>3 DEF TransactionsOrdered, TypeOK, Xid
    <2>2. \A r \in Rows : rows'[r] <= lastXid'
      BY <1>1, <1>3 DEF TransactionsOrdered, TypeOK, RowsState
    <2>3. lastXid + 1 \notin running
      BY <1>3 DEF TransactionsOrdered, TypeOK, Xid
    <2>4. \A j \in Instances :
            /\ (work'[j] # None) <=> (step'[j] = "saving")
            /\ work'[j] # None => /\ work'[j].xid \in running'
                                  /\ \A u \in orphans' : u.xid # work'[j].xid
            /\ \A k \in Instances : j # k /\ work'[j] # None /\ work'[k] # None =>
                  work'[j].xid # work'[k].xid
      BY <1>1, <1>2, <2>3 DEF TransactionsOrdered, TypeOK
    <2> QED BY <1>1, <1>3, <2>1, <2>2, <2>4 DEF TransactionsOrdered
  <1>7. MarkersPast'
    <2> SUFFICES ASSUME NEW j \in Instances
                 PROVE  /\ step'[j] # "idle" => revision'[j] # None
                        /\ revision'[j] # None =>
                              /\ cache'[j] # None /\ persisted'[j] # None
                              /\ \A r \in Rows : /\ cache'[j][r] <= lastXid'
                                                 /\ persisted'[j][r] <= lastXid'
                              /\ revision'[j].end <= latest'
                              /\ \A x \in running' : x <= revision'[j].end =>
                                                        x \in revision'[j].open
      BY DEF MarkersPast
    <2>1. step'[j] # "idle" => revision'[j] # None
      BY <1>1 DEF MarkersPast, TypeOK
    <2>2. ASSUME revision[j] # None
          PROVE  /\ persisted[j] \in RowsState /\ cache[j] \in RowsState
                 /\ revision[j].end \in Nat
                 /\ revision[j].end <= latest /\ cache'[j] # None
      BY <2>2 DEF MarkersPast, TypeOK, Marker
    <2>3. ASSUME revision[j] # None
          PROVE  \A r \in Rows : /\ cache'[j][r] <= lastXid + 1
                                 /\ persisted[j][r] <= lastXid + 1
      BY <1>3, <2>2, <2>3 DEF MarkersPast, RowsState
    <2> QED BY <1>1, <1>3, <2>1, <2>2, <2>3 DEF MarkersPast
  <1>8. CacheCoherent'
    BY <1>1, <1>5 DEF CacheCoherent, TypeOK
  <1>9. OnlyOwnRowWritten'
    BY <1>1 DEF OnlyOwnRowWritten, TypeOK
  <1> QED BY <1>4, <1>6, <1>7, <1>8, <1>9

LEMMA SavePreserves ==
    ASSUME CacheInvariant, NEW i \in Instances, NEW r \in Rows, Save(i, r)
    PROVE  CacheInvariant'
  <1> DEFINE xid == lastXid + 1
             changed == [cache[i] EXCEPT ![r] = xid]
             t == [xid |-> xid, row |-> r, over |-> persisted[i],
                   inPlace |-> TRUE,
                   writes |-> {q \in Rows : changed[q] # persisted[i][q]}
                              \cup staged[i]]
  <1>1. StartTransaction(i, t) /\ cache' = [cache EXCEPT ![i] = changed]
    BY DEF Save
  <1>2. /\ revision[i] # None /\ step[i] = "checked" /\ lastXid \in Nat
        /\ cache[i] = persisted[i] /\ persisted[i] \in RowsState
        /\ \A q \in Rows : persisted[i][q] <= lastXid
        /\ staged[i] \subseteq Summaries
    BY <1>1 DEF StartTransaction, CacheInvariant, MarkersPast, CacheCoherent, TypeOK
  <1>3. changed \in RowsState /\ t.writes = {r} \cup staged[i]
    BY <1>2 DEF RowsState
  <1>4. t \in Transaction /\ changed # None
    BY <1>2, <1>3, NoneAssumption, SummariesAssumption DEF Transaction, Xid
  <1>5. /\ cache' \in [Instances -> RowsState \cup {None}] /\ cache'[i] # None
        /\ \A q \in Rows : cache'[i][q] <= lastXid + 1
        /\ \A j \in Instances \ {i} : cache'[j] = cache[j]
    BY <1>1, <1>2, <1>3, <1>4 DEF CacheInvariant, TypeOK, RowsState
  <1> HIDE DEF changed
  <1>6. t.xid = lastXid + 1 /\ OwnRowOnly(t) /\ t.inPlace
    BY <1>2, <1>3 DEF OwnRowOnly
  <1> HIDE DEF t
  <1> QED BY <1>1, <1>4, <1>5, <1>6, StartPreserves

LEMMA PublishPreserves ==
    ASSUME CacheInvariant, NEW i \in Instances, NEW r \in Rows, Publish(i, r)
    PROVE  CacheInvariant'
  <1> DEFINE t == [xid |-> lastXid + 1, row |-> r, over |-> persisted[i],
                   inPlace |-> FALSE, writes |-> {r}]
  <1>1. StartTransaction(i, t) /\ cache' = cache
    BY DEF Publish
  <1>2. /\ revision[i] # None /\ lastXid \in Nat
        /\ cache[i] # None /\ cache[i] \in RowsState
        /\ persisted[i] \in RowsState
        /\ \A q \in Rows : cache[i][q] <= lastXid + 1
    BY <1>1 DEF StartTransaction, CacheInvariant, MarkersPast, TypeOK, RowsState
  <1>3. t \in Transaction
    BY <1>2 DEF Transaction, Xid
  <1>4. t.xid = lastXid + 1 /\ OwnRowOnly(t)
    BY DEF OwnRowOnly
  <1> HIDE DEF t
  <1> QED BY <1>1, <1>2, <1>3, <1>4, StartPreserves DEF CacheInvariant, TypeOK

LEMMA DoneEffect ==
    ASSUME TypeOK, NEW i \in Instances, Done(i)
    PROVE  /\ step' \in [Instances -> {"idle", "checked", "saving"}]
           /\ work' \in [Instances -> Transaction \cup {None}]
           /\ step'[i] = "idle" /\ work'[i] = None
           /\ \A j \in Instances \ {i} : step'[j] = step[j] /\ work'[j] = work[j]
  BY DEF Done, TypeOK

\* The rows after a transaction have values of their type, from the past.
LEMMA WrittenTyped ==
    ASSUME NEW t \in Transaction, NEW state \in RowsState, NEW last \in Nat,
           t.xid <= last, \A r \in Rows : state[r] <= last
    PROVE  /\ Written(t, state) \in RowsState
           /\ \A r \in Rows : Written(t, state)[r] <= last
  BY DEF Written, RowsState, Transaction, Xid

LEMMA SavingTransaction ==
    ASSUME CacheInvariant, NEW i \in Instances, step[i] = "saving"
    PROVE  /\ work[i] # None /\ work[i] \in Transaction
           /\ work[i].xid \in running /\ work[i].xid <= lastXid
           /\ revision[i] # None
           /\ cache[i] \in RowsState /\ persisted[i] \in RowsState
  BY DEF CacheInvariant, TypeOK, TransactionsOrdered, MarkersPast

LEMMA CommitPreserves ==
    ASSUME CacheInvariant, NEW i \in Instances, Commit(i)
    PROVE  CacheInvariant'
  <1> DEFINE t == work[i]
  <1> USE DEF CacheInvariant
  <1>1. /\ step[i] = "saving" /\ Done(i) /\ EndTransaction(t.xid)
        /\ rows' = Written(t, rows)
        /\ cache' = [cache EXCEPT ![i] = Written(t, cache[i])]
        /\ persisted' = [persisted EXCEPT ![i] = Written(t, cache[i])]
        /\ staged' = [staged EXCEPT ![i] = {}]
        /\ UNCHANGED <<orphans, revision>>
    BY DEF Commit
  <1>2. /\ t \in Transaction /\ t.xid \in running /\ t.xid <= lastXid
        /\ revision[i] # None /\ cache[i] \in RowsState
    BY <1>1, SavingTransaction
  <1>3. /\ lastXid' = lastXid /\ latest' \in Nat /\ latest' <= lastXid
        /\ running' = running \ {t.xid}
    BY <1>1, <1>2, EndKeepsOrder
  <1>4. \A j \in Instances : revision[j] # None =>
          /\ revision[j] # Snapshot'
          /\ revision[j].end <= latest'
          /\ \A y \in running' : y <= revision[j].end => y \in revision[j].open
    BY <1>1, <1>2, EndMovesMarker, EndKeepsMarkers
  <1>5. rows' \in RowsState /\ \A r \in Rows : rows'[r] <= lastXid
    BY <1>1, <1>2, WrittenTyped DEF TypeOK, TransactionsOrdered
  <1>6. Written(t, cache[i]) \in RowsState /\ Written(t, cache[i]) # None
    <2>1. Written(t, cache[i]) \in RowsState
      BY <1>2 DEF Written, RowsState, Transaction, Xid
    <2> QED BY <2>1, NoneAssumption
  <1>7. TypeOK'
    BY <1>1, <1>3, <1>5, <1>6, DoneEffect DEF TypeOK
  <1>8. TransactionsOrdered'
    BY <1>1, <1>2, <1>3, <1>5, DoneEffect DEF TransactionsOrdered
  <1>9. OnlyOwnRowWritten'
    BY <1>1, DoneEffect DEF OnlyOwnRowWritten
  <1>10. CacheCoherent'
    BY <1>1, <1>4, DoneEffect DEF CacheCoherent, TypeOK
  <1>11. \A r \in Rows : Written(t, cache[i])[r] <= lastXid
    BY <1>2 DEF Written, MarkersPast
  <1>12. MarkersPast'
    BY <1>1, <1>3, <1>4, <1>6, <1>11, DoneEffect DEF MarkersPast, TypeOK
  <1> QED BY <1>7, <1>8, <1>9, <1>10, <1>12

LEMMA RestoreEffect ==
    ASSUME CacheInvariant, NEW i \in Instances, step[i] = "saving", Restore(i)
    PROVE  /\ persisted' = persisted /\ revision' = revision
           /\ cache' \in [Instances -> RowsState \cup {None}]
           /\ staged' \in [Instances -> SUBSET Summaries]
           /\ cache'[i] = persisted[i]
           /\ \A j \in Instances \ {i} : cache'[j] = cache[j]
  <1>1. persisted[i] \in RowsState /\ revision[i] # None
    BY SavingTransaction
  <1>2. CASE work[i].inPlace
    BY <1>1, <1>2 DEF Restore, CacheInvariant, TypeOK
  <1>3. CASE ~work[i].inPlace
    BY <1>1, <1>3 DEF Restore, CacheInvariant, TypeOK, CacheCoherent
  <1> QED BY <1>2, <1>3

LEMMA RollbackPreserves ==
    ASSUME CacheInvariant, NEW i \in Instances, Rollback(i)
    PROVE  CacheInvariant'
  <1> DEFINE t == work[i]
  <1> USE DEF CacheInvariant
  <1>1. /\ step[i] = "saving" /\ Done(i) /\ EndTransaction(t.xid) /\ Restore(i)
        /\ UNCHANGED <<rows, orphans>>
    BY DEF Rollback
  <1>2. t \in Transaction /\ t.xid \in running
    BY <1>1, SavingTransaction
  <1>3. /\ lastXid' = lastXid /\ latest' \in Nat /\ latest' <= lastXid
        /\ running' = running \ {t.xid}
    BY <1>1, <1>2, EndKeepsOrder
  <1>4. \A j \in Instances : revision[j] # None =>
          /\ revision[j] # Snapshot'
          /\ revision[j].end <= latest'
          /\ \A y \in running' : y <= revision[j].end => y \in revision[j].open
    BY <1>1, <1>2, EndMovesMarker, EndKeepsMarkers
  <1>5. TypeOK'
    BY <1>1, <1>3, DoneEffect, RestoreEffect DEF TypeOK
  <1>6. TransactionsOrdered'
    BY <1>1, <1>2, <1>3, DoneEffect DEF TransactionsOrdered
  <1>7. OnlyOwnRowWritten'
    BY <1>1, DoneEffect DEF OnlyOwnRowWritten
  <1>8. CacheCoherent'
    BY <1>1, <1>4, DoneEffect, RestoreEffect DEF CacheCoherent
  <1>9. MarkersPast'
    BY <1>1, <1>3, <1>4, DoneEffect, RestoreEffect DEF MarkersPast
  <1> QED BY <1>5, <1>6, <1>7, <1>8, <1>9

LEMMA DisconnectPreserves ==
    ASSUME CacheInvariant, NEW i \in Instances, Disconnect(i)
    PROVE  CacheInvariant'
  <1> DEFINE t == work[i]
  <1> USE DEF CacheInvariant
  <1>1. /\ step[i] = "saving" /\ Done(i) /\ Restore(i)
        /\ orphans' = orphans \cup {t}
        /\ UNCHANGED <<rows, lastXid, latest, running>>
    BY DEF Disconnect
  <1>2. t # None /\ t \in Transaction /\ t.xid \in running
    BY <1>1, SavingTransaction
  <1>3. Snapshot' = Snapshot
    BY <1>1 DEF Snapshot
  <1>4. TypeOK'
    BY <1>1, <1>2, DoneEffect, RestoreEffect DEF TypeOK
  <1>5. TransactionsOrdered'
    <2>1. \A u, v \in orphans' : u.xid = v.xid => u = v
      BY <1>1, <1>2 DEF TransactionsOrdered
    <2>2. \A j \in Instances : work'[j] # None =>
            \A u \in orphans' : u.xid # work'[j].xid
      BY <1>1, <1>2, DoneEffect DEF TransactionsOrdered
    <2> QED BY <1>1, <1>2, <2>1, <2>2, DoneEffect DEF TransactionsOrdered
  <1>6. OnlyOwnRowWritten'
    BY <1>1, <1>2, DoneEffect DEF OnlyOwnRowWritten
  <1>7. CacheCoherent'
    BY <1>1, <1>3, DoneEffect, RestoreEffect DEF CacheCoherent
  <1>8. MarkersPast'
    BY <1>1, DoneEffect, RestoreEffect DEF MarkersPast
  <1> QED BY <1>4, <1>5, <1>6, <1>7, <1>8

LEMMA RestartPreserves ==
    ASSUME CacheInvariant, NEW i \in Instances, Restart(i)
    PROVE  CacheInvariant'
  <1> USE DEF CacheInvariant
  <1>1. /\ Done(i)
        /\ orphans' = IF step[i] = "saving" THEN orphans \cup {work[i]}
                                            ELSE orphans
        /\ cache' = [cache EXCEPT ![i] = None]
        /\ staged' = [staged EXCEPT ![i] = {}]
        /\ persisted' = [persisted EXCEPT ![i] = None]
        /\ revision' = [revision EXCEPT ![i] = None]
        /\ UNCHANGED <<rows, lastXid, latest, running>>
    BY DEF Restart
  <1>2. step[i] = "saving" => /\ work[i] # None /\ work[i] \in Transaction
                             /\ work[i].xid \in running
    BY SavingTransaction
  <1>3. Snapshot' = Snapshot
    BY <1>1 DEF Snapshot
  <1>4. TypeOK'
    BY <1>1, <1>2, DoneEffect DEF TypeOK
  <1>5. TransactionsOrdered'
    <2>1. \A u, v \in orphans' : u.xid = v.xid => u = v
      BY <1>1, <1>2 DEF TransactionsOrdered
    <2>2. \A j \in Instances : work'[j] # None =>
            \A u \in orphans' : u.xid # work'[j].xid
      BY <1>1, <1>2, DoneEffect DEF TransactionsOrdered
    <2> QED BY <1>1, <1>2, <2>1, <2>2, DoneEffect DEF TransactionsOrdered
  <1>6. OnlyOwnRowWritten'
    BY <1>1, <1>2, DoneEffect DEF OnlyOwnRowWritten
  <1>7. CacheCoherent'
    BY <1>1, <1>3, DoneEffect DEF CacheCoherent, TypeOK
  <1>8. MarkersPast'
    BY <1>1, DoneEffect DEF MarkersPast, TypeOK
  <1> QED BY <1>4, <1>5, <1>6, <1>7, <1>8

LEMMA ResolvePreserves ==
    ASSUME CacheInvariant, NEW t \in orphans, Resolve(t)
    PROVE  CacheInvariant'
  <1> USE DEF CacheInvariant
  <1>1. /\ EndTransaction(t.xid) /\ orphans' = orphans \ {t}
        /\ rows' = Written(t, rows) \/ rows' = rows
        /\ UNCHANGED <<cache, staged, persisted, revision, step, work>>
    BY DEF Resolve, memory
  <1>2. t \in Transaction /\ t.xid \in running /\ t.xid <= lastXid
    BY DEF TypeOK, TransactionsOrdered
  <1>3. /\ lastXid' = lastXid /\ latest' \in Nat /\ latest' <= lastXid
        /\ running' = running \ {t.xid}
    BY <1>1, <1>2, EndKeepsOrder
  <1>4. \A j \in Instances : revision[j] # None =>
          /\ revision[j] # Snapshot'
          /\ revision[j].end <= latest'
          /\ \A y \in running' : y <= revision[j].end => y \in revision[j].open
    BY <1>1, <1>2, EndMovesMarker, EndKeepsMarkers
  <1>5. rows' \in RowsState /\ \A r \in Rows : rows'[r] <= lastXid
    <2>1. CASE rows' = Written(t, rows)
      BY <1>2, <2>1, WrittenTyped DEF TypeOK, TransactionsOrdered
    <2>2. CASE rows' = rows
      BY <2>2 DEF TypeOK, TransactionsOrdered
    <2> QED BY <1>1, <2>1, <2>2
  <1>6. TypeOK'
    BY <1>1, <1>3, <1>5 DEF TypeOK
  <1>7. TransactionsOrdered'
    BY <1>1, <1>2, <1>3, <1>5 DEF TransactionsOrdered
  <1>8. OnlyOwnRowWritten'
    BY <1>1 DEF OnlyOwnRowWritten
  <1>9. CacheCoherent'
    BY <1>1, <1>4 DEF CacheCoherent
  <1>10. MarkersPast'
    BY <1>1, <1>3, <1>4 DEF MarkersPast
  <1> QED BY <1>6, <1>7, <1>8, <1>9, <1>10

LEMMA StutteringPreserves ==
    ASSUME CacheInvariant, UNCHANGED vars
    PROVE  CacheInvariant'
  <1>1. UNCHANGED <<rows, lastXid, latest, running, orphans,
                    cache, staged, persisted, revision, step, work>>
    BY DEF vars
  <1>2. Snapshot' = Snapshot
    BY <1>1 DEF Snapshot
  <1> QED BY <1>1, <1>2 DEF CacheInvariant, TypeOK, TransactionsOrdered,
                            MarkersPast, CacheCoherent, OnlyOwnRowWritten

LEMMA InitEstablishes ==
    ASSUME Init
    PROVE  CacheInvariant
  BY DEF Init, CacheInvariant, TypeOK, RowsState, TransactionsOrdered,
         MarkersPast, CacheCoherent, OnlyOwnRowWritten

-----------------------------------------------------------------------------

\* Caches, markers and transactions stay in step, whatever fails.
THEOREM CacheInvariantHolds == Spec => []CacheInvariant
  <1>1. Init => CacheInvariant
    BY InitEstablishes
  <1>2. ASSUME CacheInvariant, [Next]_vars
        PROVE  CacheInvariant'
    <2>1. ASSUME NEW i \in Instances, Request(i)
          PROVE  CacheInvariant'
      BY <1>2, <2>1, RefreshPreserves, LeavePreserves, StagePreserves, SavePreserves,
         PublishPreserves, CommitPreserves, RollbackPreserves,
         DisconnectPreserves, RestartPreserves DEF Request
    <2> QED BY <1>2, <2>1, ResolvePreserves, StutteringPreserves DEF Next
  <1> QED BY <1>1, <1>2, PTL DEF Spec

\* No transaction carries what an earlier, failed request left in memory.
THEOREM NothingLeaksBetweenRequests == Spec => []OnlyOwnRowWritten
  <1>1. CacheInvariant => OnlyOwnRowWritten
    BY DEF CacheInvariant
  <1> QED BY <1>1, CacheInvariantHolds, PTL

\* A request that passed refreshLocked checks the rows committed at that time.
THEOREM RequestsSeeTheDatabase == Spec => RequestsSeeCommittedRows
  <1> DEFINE NowSeen == \A i \in Instances :
               step[i] = "idle" /\ step'[i] = "checked" =>
                 \A r \in Rows \ (staged'[i] \cap Summaries) :
                     cache'[i][r] = rows[r]
  <1>1. ASSUME CacheInvariant, NEW i \in Instances, Refresh(i)
        PROVE  NowSeen
    <2>1. step' = [step EXCEPT ![i] = "checked"] /\ step[i] = "idle"
      BY <1>1 DEF Refresh
    <2>2. cache'[i] = rows
      <3>1. CASE revision[i] = Snapshot
        <4>1. revision[i] # None
          <5>1. Snapshot \in Marker
            BY <1>1 DEF Snapshot, Marker, CacheInvariant, TypeOK
          <5> QED BY <3>1, <5>1, NoneAssumption
        <4> QED BY <1>1, <2>1, <3>1, <4>1
                DEF Refresh, memory, CacheInvariant, CacheCoherent
      <3>2. CASE revision[i] # Snapshot
        BY <1>1, <3>2 DEF Refresh, CacheInvariant, TypeOK
      <3> QED BY <3>1, <3>2
    <2> QED BY <1>1, <2>1, <2>2 DEF CacheInvariant, TypeOK
  <1>2. ASSUME CacheInvariant, NEW i \in Instances, Request(i), ~Refresh(i)
        PROVE  NowSeen
    <2>1. PICK next \in {"idle", "saving"} : step' = [step EXCEPT ![i] = next]
      BY <1>2 DEF Request, Leave, Stage, Save, Publish, StartTransaction, Commit,
                  Rollback, Disconnect, Restart, Done
    <2> QED BY <1>2, <2>1 DEF CacheInvariant, TypeOK
  <1>3. ASSUME (\E t \in orphans : Resolve(t)) \/ UNCHANGED vars
        PROVE  NowSeen
    BY <1>3 DEF Resolve, vars
  <1>4. CacheInvariant /\ [Next]_vars => [NowSeen]_vars
    BY <1>1, <1>2, <1>3 DEF Next
  <1>5. Spec => [][NowSeen]_vars
    <2> HIDE DEF NowSeen
    <2> QED BY <1>4, CacheInvariantHolds, PTL DEF Spec
  <1> QED BY <1>5, PTL DEF RequestsSeeCommittedRows

-----------------------------------------------------------------------------
(* StoreCache implements CommittedRows                                     *)

LEMMA InProgressTyped ==
    ASSUME CacheInvariant
    PROVE  /\ InProgress \subseteq Transaction
           /\ \A t, u \in InProgress : t.xid = u.xid => t = u
           /\ \A t \in InProgress : t.xid \in running /\ OwnRowOnly(t)
  <1>1. \A i \in Instances : step[i] = "saving" => work[i] # None
    BY DEF CacheInvariant, TransactionsOrdered
  <1>2. InProgress \subseteq Transaction
    BY <1>1 DEF InProgress, CacheInvariant, TypeOK
  <1>3. \A t, u \in InProgress : t.xid = u.xid => t = u
    BY <1>1 DEF InProgress, CacheInvariant, TransactionsOrdered
  <1>4. \A t \in InProgress : t.xid \in running /\ OwnRowOnly(t)
    BY <1>1 DEF InProgress, CacheInvariant, TransactionsOrdered, OnlyOwnRowWritten
  <1> QED BY <1>2, <1>3, <1>4

\* What a request has looked at, process by process.
LEMMA SeenBy ==
    ASSUME NEW i \in Instances
    PROVE  /\ Seen[i] = IF step[i] = "checked" THEN persisted[i] ELSE None
           /\ Seen'[i] = IF step'[i] = "checked" THEN persisted'[i] ELSE None
  BY DEF Seen

LEMMA SeenOf ==
    /\ Seen = [i \in Instances |-> Seen[i]]
    /\ Seen' = [i \in Instances |-> Seen'[i]]
  BY DEF Seen

\* A step of one process that leaves the transactions alone.
LEMMA SameTransactions ==
    ASSUME UNCHANGED <<orphans, work>>, NEW i \in Instances, TypeOK,
           NEW next \in {"idle", "checked"}, step[i] # "saving",
           step' = [step EXCEPT ![i] = next]
    PROVE  Pending' = Pending
  <1>1. {j \in Instances : step'[j] = "saving"} = {j \in Instances : step[j] = "saving"}
    BY DEF TypeOK
  <1>2. InProgress' = InProgress
    BY <1>1 DEF InProgress
  <1> QED BY <1>2 DEF Pending

\* The request of one process looks or forgets, the others do not notice.
LEMMA SeenChanges ==
    ASSUME NEW i \in Instances, NEW value,
           Seen'[i] = value, \A j \in Instances \ {i} : Seen'[j] = Seen[j]
    PROVE  Seen' = [Seen EXCEPT ![i] = value]
  <1>1. Seen = [j \in Instances |-> Seen[j]]
    BY SeenOf
  <1>2. Seen' = [j \in Instances |-> Seen'[j]]
    BY SeenOf
  <1> HIDE DEF Seen
  <1>3. [Seen EXCEPT ![i] = value] = [j \in Instances |-> IF j = i THEN value ELSE Seen[j]]
    BY <1>1
  <1>4. \A j \in Instances : Seen'[j] = IF j = i THEN value ELSE Seen[j]
    OBVIOUS
  <1> QED BY <1>2, <1>3, <1>4

\* refreshLocked shows the committed rows, reload or not.
LEMMA RefreshLooks ==
    ASSUME CacheInvariant, NEW i \in Instances, Refresh(i)
    PROVE  Promise!Look(i)
  <1>1. /\ step[i] = "idle" /\ step' = [step EXCEPT ![i] = "checked"]
        /\ UNCHANGED <<rows, lastXid, orphans, work>>
    BY DEF Refresh
  <1>2. TypeOK
    BY DEF CacheInvariant
  <1>3. step'[i] = "checked" /\ \A j \in Instances \ {i} : step'[j] = step[j]
    BY <1>1, <1>2 DEF TypeOK
  <1>4. persisted'[i] = rows /\ \A j \in Instances \ {i} : persisted'[j] = persisted[j]
    <2>1. CASE revision[i] = Snapshot
      <3>1. Snapshot \in Marker
        BY <1>2 DEF Snapshot, Marker, TypeOK
      <3>2. revision[i] # None
        BY <2>1, <3>1, NoneAssumption
      <3> QED BY <2>1, <3>2 DEF Refresh, memory, CacheInvariant, CacheCoherent
    <2>2. CASE revision[i] # Snapshot
      BY <1>2, <2>2 DEF Refresh, TypeOK
    <2> QED BY <2>1, <2>2
  <1>5. Pending' = Pending
    BY <1>1, <1>2, SameTransactions
  <1>6. Seen[i] = None /\ Seen' = [Seen EXCEPT ![i] = rows]
    <2>1. Seen[i] = None /\ Seen'[i] = rows
      BY <1>1, <1>3, <1>4, SeenBy
    <2>2. \A j \in Instances \ {i} : Seen'[j] = Seen[j]
      BY <1>3, <1>4, SeenBy
    <2> QED BY <2>1, <2>2, SeenChanges
  <1> QED BY <1>1, <1>5, <1>6 DEF Promise!Look

LEMMA CheckedSaw ==
    ASSUME CacheInvariant, NEW i \in Instances, step[i] = "checked"
    PROVE  /\ Seen[i] = persisted[i] /\ Seen[i] # None
           /\ cache[i] = persisted[i] /\ persisted[i] \in RowsState
  BY SeenBy DEF CacheInvariant, TypeOK, MarkersPast, CacheCoherent

\* A request that only reads, and a worker that marks a summary and goes.
LEMMA LeaveForgets ==
    ASSUME CacheInvariant, NEW i \in Instances,
           Leave(i) \/ \E r \in Summaries : Stage(i, r)
    PROVE  Promise!Forget(i)
  <1>1. /\ step[i] = "checked" /\ step' = [step EXCEPT ![i] = "idle"]
        /\ UNCHANGED <<rows, lastXid, orphans, work, persisted>>
    BY DEF Leave, Stage, memory
  <1>2. TypeOK
    BY DEF CacheInvariant
  <1>3. step'[i] = "idle" /\ \A j \in Instances \ {i} : step'[j] = step[j]
    BY <1>1, <1>2 DEF TypeOK
  <1>4. Pending' = Pending
    BY <1>1, <1>2, SameTransactions
  <1>5. Seen[i] # None /\ Seen' = [Seen EXCEPT ![i] = None]
    <2>1. Seen'[i] = None
      BY <1>3, SeenBy
    <2>2. \A j \in Instances \ {i} : Seen'[j] = Seen[j]
      BY <1>1, <1>3, SeenBy
    <2> QED BY <1>1, <2>1, <2>2, SeenChanges, CheckedSaw
  <1> QED BY <1>1, <1>4, <1>5 DEF Promise!Forget

\* A transaction is over what its request saw.
LEMMA StartBegins ==
    ASSUME CacheInvariant, NEW i \in Instances, NEW t \in Transaction,
           t.xid = lastXid + 1, OwnRowOnly(t), t.over = persisted[i],
           StartTransaction(i, t)
    PROVE  \E along \in SUBSET Summaries : Promise!Begin(i, t.row, along)
  <1>1. /\ step[i] = "checked" /\ step' = [step EXCEPT ![i] = "saving"]
        /\ lastXid' = lastXid + 1 /\ work' = [work EXCEPT ![i] = t]
        /\ UNCHANGED <<rows, orphans, persisted>>
    BY DEF StartTransaction
  <1>2. TypeOK
    BY DEF CacheInvariant
  <1>3. step'[i] = "saving" /\ \A j \in Instances \ {i} : step'[j] = step[j]
    BY <1>1, <1>2 DEF TypeOK
  <1>4. work'[i] = t /\ \A j \in Instances \ {i} : work'[j] = work[j]
    BY <1>1, <1>2 DEF TypeOK
  <1>5. InProgress' = InProgress \cup {t}
    <2>1. \A j \in Instances : step'[j] = "saving" <=> step[j] = "saving" \/ j = i
      BY <1>1, <1>3
    <2>2. InProgress \cup {t} \subseteq InProgress'
      BY <1>1, <1>3, <1>4, <2>1 DEF InProgress
    <2>3. InProgress' \subseteq InProgress \cup {t}
      BY <1>1, <1>3, <1>4, <2>1 DEF InProgress
    <2> QED BY <2>2, <2>3
  <1>6. Pending' = Pending \cup {Promised(t)}
    BY <1>5 DEF Pending
  <1> DEFINE along == t.writes \ {t.row}
  <1>7. along \in SUBSET Summaries /\ t.writes = {t.row} \cup along
    BY DEF OwnRowOnly
  <1>8. Promised(t) = [xid |-> lastXid + 1, row |-> t.row,
                       writes |-> {t.row} \cup along, over |-> Seen[i]]
    <2> HIDE DEF along
    <2> QED BY <1>1, <1>7, CheckedSaw DEF Promised
  <1>9. Seen[i] # None /\ Seen' = [Seen EXCEPT ![i] = None]
    <2>1. Seen'[i] = None
      BY <1>3, SeenBy
    <2>2. \A j \in Instances \ {i} : Seen'[j] = Seen[j]
      BY <1>1, <1>3, SeenBy
    <2> QED BY <1>1, <2>1, <2>2, SeenChanges, CheckedSaw
  <1> HIDE DEF along
  <1>10. Promise!Begin(i, t.row, along)
    BY <1>1, <1>6, <1>8, <1>9 DEF Promise!Begin
  <1> QED BY <1>7, <1>10

LEMMA SaveBegins ==
    ASSUME CacheInvariant, NEW i \in Instances, NEW r \in Rows,
           Save(i, r) \/ Publish(i, r)
    PROVE  \E along \in SUBSET Summaries : Promise!Begin(i, r, along)
  <1> DEFINE changed == [cache[i] EXCEPT ![r] = lastXid + 1]
             saved == [xid |-> lastXid + 1, row |-> r, over |-> persisted[i],
                       inPlace |-> TRUE,
                       writes |-> {q \in Rows : changed[q] # persisted[i][q]}
                                  \cup staged[i]]
             given == [xid |-> lastXid + 1, row |-> r, over |-> persisted[i],
                       inPlace |-> FALSE, writes |-> {r}]
  <1>1. PICK t \in {saved, given} : StartTransaction(i, t)
    BY DEF Save, Publish
  <1>2. /\ step[i] = "checked" /\ lastXid \in Nat
        /\ \A q \in Rows : persisted[i][q] <= lastXid
        /\ staged[i] \subseteq Summaries
    BY <1>1 DEF StartTransaction, CacheInvariant, MarkersPast, TypeOK
  <1>3. cache[i] = persisted[i] /\ persisted[i] \in RowsState
    BY <1>2, CheckedSaw
  <1>4. saved.writes = {r} \cup staged[i]
    BY <1>2, <1>3 DEF RowsState
  <1> HIDE DEF changed
  <1>5. /\ t \in Transaction /\ OwnRowOnly(t)
        /\ t.xid = lastXid + 1 /\ t.over = persisted[i] /\ t.row = r
    <2>1. CASE t = saved
      <3>1. saved \in Transaction
        BY <1>2, <1>3, <1>4, SummariesAssumption DEF Transaction, Xid
      <3> QED BY <1>2, <1>4, <2>1, <3>1 DEF OwnRowOnly
    <2>2. CASE t = given
      <3>1. given \in Transaction
        BY <1>2, <1>3 DEF Transaction, Xid
      <3> QED BY <2>2, <3>1 DEF OwnRowOnly
    <2> QED BY <2>1, <2>2
  <1> HIDE DEF saved, given
  <1> QED BY <1>1, <1>5, StartBegins

\* No two transactions in progress promise the same.
LEMMA OneLess ==
    ASSUME CacheInvariant, NEW t \in InProgress, InProgress' = InProgress \ {t}
    PROVE  Promised(t) \in Pending /\ Pending' = Pending \ {Promised(t)}
  <1>1. \A u \in InProgress : Promised(u) = Promised(t) => u = t
    <2> SUFFICES ASSUME NEW u \in InProgress, Promised(u) = Promised(t)
                 PROVE  u = t
      OBVIOUS
    <2>1. Promised(u).xid = u.xid /\ Promised(t).xid = t.xid
      BY DEF Promised
    <2>2. u.xid = t.xid
      BY <2>1
    <2> QED BY <2>2, InProgressTyped
  <1>2. Promised(t) \in Pending
    BY DEF Pending
  <1> DEFINE P(u) == Promised(u)
  <1>3. Pending = {P(u) : u \in InProgress} /\ Pending' = {P(u) : u \in InProgress \ {t}}
    BY DEF Pending, Promised
  <1>4. \A u \in InProgress : P(u) = P(t) => u = t
    BY <1>1
  <1> HIDE DEF P
  <1>5. Pending' = Pending \ {P(t)}
    BY <1>3, <1>4
  <1> QED BY <1>2, <1>5 DEF P

\* The transaction of a process's request is over; requests of others go on.
LEMMA DoneIsOver ==
    ASSUME CacheInvariant, NEW i \in Instances, step[i] = "saving", Done(i),
           \A j \in Instances \ {i} : persisted'[j] = persisted[j]
    PROVE  /\ Seen' = Seen /\ work[i] \in InProgress
           /\ orphans' = orphans => InProgress' = InProgress \ {work[i]}
           /\ orphans' = orphans \cup {work[i]} => InProgress' = InProgress
  <1>1. /\ step'[i] = "idle" /\ \A j \in Instances \ {i} : step'[j] = step[j]
        /\ \A j \in Instances \ {i} : work'[j] = work[j]
    BY DoneEffect DEF CacheInvariant
  <1>2. Seen' = Seen
    <2>1. \A j \in Instances : Seen'[j] = Seen[j]
      BY <1>1, SeenBy
    <2> QED BY <2>1, SeenOf, Zenon
  <1>3. work[i] \in InProgress
    BY DEF InProgress
  <1>4. /\ \A t \in orphans : t # work[i]
        /\ \A j \in Instances \ {i} : step[j] = "saving" => work[j] # work[i]
    BY SavingTransaction DEF CacheInvariant, TransactionsOrdered
  <1> DEFINE others == {work[j] : j \in {k \in Instances \ {i} : step[k] = "saving"}}
  <1>5. {work'[j] : j \in {k \in Instances : step'[k] = "saving"}} = others
    BY <1>1
  <1>6. {work[j] : j \in {k \in Instances : step[k] = "saving"}} = others \cup {work[i]}
    OBVIOUS
  <1>7. work[i] \notin others
    BY <1>4
  <1> HIDE DEF others
  <1>8. InProgress' = orphans' \cup others /\ InProgress = orphans \cup others \cup {work[i]}
    BY <1>5, <1>6 DEF InProgress
  <1> QED BY <1>2, <1>3, <1>4, <1>7, <1>8

LEMMA EndPromised ==
    ASSUME NEW t
    PROVE  /\ Promised(t).xid = t.xid /\ Promised(t).writes = t.writes
           /\ Promised(t).over = t.over
  BY DEF Promised

LEMMA CommitTakesEffect ==
    ASSUME CacheInvariant, NEW i \in Instances, Commit(i)
    PROVE  \E p \in Pending : Promise!TakeEffect(p)
  <1>1. /\ step[i] = "saving" /\ Done(i) /\ Unchanged(work[i])
        /\ EndTransaction(work[i].xid) /\ rows' = Written(work[i], rows)
        /\ orphans' = orphans
    BY DEF Commit
  <1>2. \A j \in Instances \ {i} : persisted'[j] = persisted[j]
    BY DEF Commit, CacheInvariant, TypeOK
  <1>3. /\ Seen' = Seen /\ work[i] \in InProgress
        /\ InProgress' = InProgress \ {work[i]}
    BY <1>1, <1>2, DoneIsOver
  <1> DEFINE p == Promised(work[i])
  <1>4. p \in Pending /\ Pending' = Pending \ {p}
    BY <1>3, OneLess
  <1>5. p.xid = work[i].xid /\ p.writes = work[i].writes /\ p.over = work[i].over
    BY EndPromised
  <1> HIDE DEF p
  <1>6. Promise!TakeEffect(p)
    BY <1>1, <1>3, <1>4, <1>5
       DEF Promise!TakeEffect, Unchanged, Written, EndTransaction
  <1> QED BY <1>4, <1>6

LEMMA RollbackFails ==
    ASSUME CacheInvariant, NEW i \in Instances, Rollback(i)
    PROVE  \E p \in Pending : Promise!Fail(p)
  <1>1. /\ step[i] = "saving" /\ Done(i) /\ Restore(i)
        /\ EndTransaction(work[i].xid) /\ UNCHANGED <<rows, orphans>>
    BY DEF Rollback
  <1>2. persisted' = persisted
    BY <1>1, RestoreEffect
  <1>3. /\ Seen' = Seen /\ work[i] \in InProgress
        /\ InProgress' = InProgress \ {work[i]}
    BY <1>1, <1>2, DoneIsOver
  <1>4. Promised(work[i]) \in Pending /\ Pending' = Pending \ {Promised(work[i])}
    BY <1>3, OneLess
  <1>5. Promise!Fail(Promised(work[i]))
    BY <1>1, <1>3, <1>4 DEF Promise!Fail, EndTransaction
  <1> QED BY <1>4, <1>5

\* A client that loses its connection leaves the promise as it is.
LEMMA DisconnectDoesNotShow ==
    ASSUME CacheInvariant, NEW i \in Instances, Disconnect(i)
    PROVE  UNCHANGED <<rows, lastXid, Seen, Pending>>
  <1>1. /\ step[i] = "saving" /\ Done(i) /\ Restore(i)
        /\ orphans' = orphans \cup {work[i]} /\ UNCHANGED <<rows, lastXid>>
    BY DEF Disconnect
  <1>2. persisted' = persisted
    BY <1>1, RestoreEffect
  <1>3. Seen' = Seen /\ InProgress' = InProgress
    BY <1>1, <1>2, DoneIsOver
  <1> QED BY <1>1, <1>3 DEF Pending

\* A crash makes a request forget what it saw, and no transaction end.
LEMMA RestartForgets ==
    ASSUME CacheInvariant, NEW i \in Instances, Restart(i)
    PROVE  Promise!Forget(i) \/ UNCHANGED <<rows, lastXid, Seen, Pending>>
  <1>1. /\ Done(i) /\ UNCHANGED <<rows, lastXid>>
        /\ orphans' = IF step[i] = "saving" THEN orphans \cup {work[i]}
                                            ELSE orphans
    BY DEF Restart
  <1>2. TypeOK /\ \A j \in Instances \ {i} : persisted'[j] = persisted[j]
    BY DEF Restart, CacheInvariant, TypeOK
  <1>3. CASE step[i] = "saving"
    <2>1. Seen' = Seen /\ InProgress' = InProgress
      BY <1>1, <1>2, <1>3, DoneIsOver
    <2> QED BY <1>1, <2>1 DEF Pending
  <1>4. CASE step[i] # "saving"
    <2>1. /\ step'[i] = "idle" /\ \A j \in Instances \ {i} : step'[j] = step[j]
          /\ work' = work
      <3>1. work[i] = None
        BY <1>4 DEF CacheInvariant, TransactionsOrdered
      <3>2. \A j \in Instances : work'[j] = work[j]
        BY <1>1, <1>2, <3>1, DoneEffect
      <3>3. work = [j \in Instances |-> work[j]] /\ work' = [j \in Instances |-> work'[j]]
        BY <1>1, <1>2, DoneEffect DEF TypeOK
      <3>4. work' = work
        BY <3>2, <3>3, Zenon
      <3> QED BY <1>1, <1>2, <3>4, DoneEffect
    <2>2. Pending' = Pending
      <3>1. {j \in Instances : step'[j] = "saving"} = {j \in Instances : step[j] = "saving"}
        BY <1>4, <2>1
      <3>2. InProgress' = InProgress
        BY <1>1, <1>4, <2>1, <3>1 DEF InProgress
      <3> QED BY <3>2 DEF Pending
    <2>3. Seen' = [Seen EXCEPT ![i] = None]
      <3>1. Seen'[i] = None /\ \A j \in Instances \ {i} : Seen'[j] = Seen[j]
        BY <1>2, <2>1, SeenBy
      <3> QED BY <3>1, SeenChanges
    <2>4. CASE Seen[i] # None
      BY <1>1, <2>2, <2>3, <2>4 DEF Promise!Forget
    <2>5. CASE Seen[i] = None
      <3>1. \A j \in Instances : Seen'[j] = Seen[j]
        BY <1>2, <2>1, <2>5, SeenBy
      <3>2. Seen' = Seen
        BY <3>1, SeenOf, Zenon
      <3> QED BY <1>1, <2>2, <3>2
    <2> QED BY <2>4, <2>5
  <1> QED BY <1>3, <1>4

LEMMA ResolveEnds ==
    ASSUME CacheInvariant, NEW t \in orphans, Resolve(t)
    PROVE  \E p \in Pending : Promise!TakeEffect(p) \/ Promise!Fail(p)
  <1>1. /\ EndTransaction(t.xid) /\ orphans' = orphans \ {t}
        /\ (Unchanged(t) /\ rows' = Written(t, rows)) \/ rows' = rows
        /\ UNCHANGED <<persisted, step, work>>
    BY DEF Resolve, memory
  <1>2. Seen' = Seen
    BY <1>1 DEF Seen
  <1>3. t \in InProgress /\ InProgress' = InProgress \ {t}
    <2>1. t \notin {work[i] : i \in {j \in Instances : step[j] = "saving"}}
      BY SavingTransaction DEF CacheInvariant, TransactionsOrdered
    <2> QED BY <1>1, <2>1 DEF InProgress
  <1> DEFINE p == Promised(t)
  <1>4. p \in Pending /\ Pending' = Pending \ {p}
    BY <1>3, OneLess
  <1>5. p.xid = t.xid /\ p.writes = t.writes /\ p.over = t.over
    BY EndPromised
  <1> HIDE DEF p
  <1>6. Promise!TakeEffect(p) \/ Promise!Fail(p)
    BY <1>1, <1>2, <1>4, <1>5
       DEF Promise!TakeEffect, Promise!Fail, Unchanged, Written, EndTransaction
  <1> QED BY <1>4, <1>6

\* For any number of processes, rows and transactions: a process with its copies
\* is a client of the committed rows.
THEOREM CommittedRowsImplemented == Spec => ImplementsCommittedRows
  <1>1. Init => Promise!Init
    BY DEF Init, Promise!Init, Seen, Pending, InProgress
  <1>2. ASSUME CacheInvariant, [Next]_vars
        PROVE  [Promise!Next]_<<rows, lastXid, Seen, Pending>>
    <2>1. ASSUME NEW i \in Instances, Request(i)
          PROVE  [Promise!Next]_<<rows, lastXid, Seen, Pending>>
      <3>1. CASE Refresh(i)
        BY <1>2, <3>1, RefreshLooks DEF Promise!Next
      <3>2. CASE Leave(i) \/ \E r \in Summaries : Stage(i, r)
        BY <1>2, <3>2, LeaveForgets DEF Promise!Next
      <3>3. CASE \E r \in Rows : Save(i, r) \/ Publish(i, r)
        BY <1>2, <3>3, SaveBegins DEF Promise!Next
      <3>4. CASE Commit(i)
        BY <1>2, <3>4, CommitTakesEffect DEF Promise!Next
      <3>5. CASE Rollback(i)
        BY <1>2, <3>5, RollbackFails DEF Promise!Next
      <3>6. CASE Disconnect(i)
        BY <1>2, <3>6, DisconnectDoesNotShow
      <3>7. CASE Restart(i)
        BY <1>2, <3>7, RestartForgets DEF Promise!Next
      <3> QED BY <2>1, <3>1, <3>2, <3>3, <3>4, <3>5, <3>6, <3>7 DEF Request
    <2>2. ASSUME NEW t \in orphans, Resolve(t)
          PROVE  [Promise!Next]_<<rows, lastXid, Seen, Pending>>
      BY <1>2, <2>2, ResolveEnds DEF Promise!Next
    <2>3. CASE UNCHANGED vars
      BY <2>3 DEF vars, Seen, Pending, InProgress
    <2> QED BY <1>2, <2>1, <2>2, <2>3 DEF Next
  <1>3. Spec => Promise!Init /\ [][Promise!Next]_<<rows, lastXid, Seen, Pending>>
    BY <1>1, <1>2, CacheInvariantHolds, PTL DEF Spec
  <1> QED BY <1>3 DEF ImplementsCommittedRows, Promise!Spec

=============================================================================
