---------------------------- MODULE DocumentShares ----------------------------
(***************************************************************************)
(* Public shares of a document branch.                                     *)
(*                                                                         *)
(* An administrator creates a share, open or behind a password, of the     *)
(* latest version, of one version or of all, for a while or for good; can  *)
(* show its secret again and withdraw it.  Whoever has the secret reads    *)
(* without an account: the rows of the share and of its parents are read   *)
(* one after the other, access is decided on what was read, and the        *)
(* transaction that records the access decides once more before anything   *)
(* is answered.  Requests carry the right secret; any other is refused at  *)
(* once.                                                                   *)
(***************************************************************************)
EXTENDS Workspace

CONSTANTS
    Shares,
    Scopes,     \* which of "latest", "fixed" and "all" are created
    ShareLife,  \* how long a share that expires is valid
    ProofLife   \* how long an unlock proof is valid

VARIABLES
    share,      \* document_shares
    proofs      \* unlock proofs given to readers

shareVars == <<share, proofs>>

ASSUME LifeAssumption == ShareLife \in Nat \ {0} /\ ProofLife \in Nat \ {0}
ASSUME ScopesAssumption == Scopes \subseteq {"latest", "fixed", "all"}

Never == MaxTime + ShareLife + 1   \* the expiry of a permanent share
ShareRow ==
    [branch : Branches, scope : {"latest", "fixed", "all"}, pin : {0} \cup Numbers,
     protected : BOOLEAN, expires : 1 .. Never, status : {"active", "revoked"},
     by : Users \cup {None}, sealed : {"old", "new"}, stamp : Nat]

ASSUME ShareNoneAssumption == None \notin ShareRow

Proof == [share : Shares, until : 1 .. Never]

\* A share as it was created: a pin goes with the fixed scope and only with it.
Creation(b, scope, pin, protected, expires) ==
    [branch |-> b, scope |-> scope, pin |-> pin, protected |-> protected,
     expires |-> expires, status |-> "active", by |-> None,
     sealed |-> "old", stamp |-> 1]

ReadKinds == {"metadata", "versions", "content", "download"}

\* What a reader's request has loaded.
Nothing == [row |-> None, closed |-> {}, count |-> 0]
Seen == [row : ShareRow \cup {None}, closed : SUBSET Places, count : 0 .. MaxVersions]

ShareCall ==
    [kind : {"createShare"}, step : {"hashing", "ready"}, actor : Users,
     share : Shares, row : ShareRow] \cup
    [kind : {"revealShare"}, step : {"ready", "revealed"}, actor : Users,
     share : Shares] \cup
    [kind : {"revokeShare"}, step : {"ready"}, actor : Users, share : Shares,
     row : ShareRow] \cup
    [kind : ReadKinds \cup {"unlock"},
     step : {"share", "project", "document", "branch", "versions", "loaded",
             "admitted", "verifying", "answered"},
     share : Shares, want : {0} \cup Numbers, proof : Proof \cup {None},
     seen : Seen, since : 0 .. MaxVersions, shown : SUBSET Numbers]

ShareTypeOK ==
    /\ share \in [Shares -> ShareRow \cup {None}]
    /\ proofs \subseteq Proof

ShareInit ==
    /\ share = [s \in Shares |-> None]
    /\ proofs = {}

-----------------------------------------------------------------------------
(* Rules of a share                                                        *)

EffectiveStatus(row, t) ==
    CASE row.status = "revoked" -> "revoked"
      [] row.status = "active" /\ t >= row.expires -> "expired"
      [] OTHER -> "active"

Open(row) == EffectiveStatus(row, now) = "active"

\* The selection of a new share names something that is published.
ValidSelection(b, scope, pin) ==
    IF scope = "fixed" THEN pin \in 1 .. published[b]
                       ELSE pin = 0 /\ published[b] > 0

\* The transaction that inserts a share locks its parents and looks again.
ActiveParents(row) ==
    /\ Live(row.branch)
    /\ row.scope = "fixed" => row.pin \in 1 .. published[row.branch]

-----------------------------------------------------------------------------
(* Administration                                                          *)

\* Ids are fresh.
Unused(s) == share[s] = None /\ \A d \in Clients :
                 call[d].kind = "createShare" => call[d].share # s

\* A password is hashed with the store unlocked.
CreateDocumentShare(c, u, s, b, scope, pin, protected, expires) ==
    /\ CanPublish(u)
    /\ Live(b)
    /\ ValidSelection(b, scope, pin)
    /\ Unused(s)
    /\ Enter(c, [kind |-> "createShare", step |-> IF protected THEN "hashing" ELSE "ready",
                 actor |-> u, share |-> s,
                 row |-> Creation(b, scope, pin, protected, expires)])
    /\ UNCHANGED <<rows, workload, shareVars>>

\* Parents and selection are checked again; the right to share only in the
\* transaction.
SharePasswordHashed(c) ==
    LET row == call[c].row IN
    /\ At(c, {"createShare"}, "hashing")
    /\ IF Live(row.branch) /\ ValidSelection(row.branch, row.scope, row.pin)
         THEN Go(c, "ready") ELSE Leave(c)
    /\ UNCHANGED <<rows, workload, shareVars>>

SaveNewShare(c) ==
    LET r == call[c] IN
    /\ At(c, {"createShare"}, "ready")
    /\ IF Permitted(r.actor, "admin") /\ ActiveParents(r.row)
         THEN share' = [share EXCEPT ![r.share] = r.row]
         ELSE UNCHANGED share
    /\ Leave(c)
    /\ UNCHANGED <<rows, workload, proofs>>

RevealDocumentShare(c, u, s) ==
    /\ CanPublish(u)
    /\ share[s] # None
    /\ Live(share[s].branch)
    /\ Open(share[s])
    /\ Enter(c, [kind |-> "revealShare", step |-> "ready", actor |-> u, share |-> s])
    /\ UNCHANGED <<rows, workload, shareVars>>

\* The transaction writes only the audit entry of the reveal.
CommitReveal(c) ==
    LET r == call[c] IN
    /\ At(c, {"revealShare"}, "ready")
    /\ IF /\ Permitted(r.actor, "admin")
          /\ Live(share[r.share].branch)
          /\ Open(share[r.share])
         THEN Go(c, "revealed") ELSE Leave(c)
    /\ UNCHANGED <<rows, workload, shareVars>>

ShowSecret(c) ==
    /\ At(c, {"revealShare"}, "revealed")
    /\ Leave(c)
    /\ UNCHANGED <<rows, workload, shareVars>>

\* What is archived can still be withdrawn; what is withdrawn or expired is
\* left as it is.
RevokeDocumentShare(c, u, s) ==
    /\ CanPublish(u)
    /\ share[s] # None
    /\ Open(share[s])
    /\ Enter(c, [kind |-> "revokeShare", step |-> "ready", actor |-> u, share |-> s,
                 row |-> share[s]])
    /\ UNCHANGED <<rows, workload, shareVars>>

Revoked(row, u) ==
    [row EXCEPT !.status = "revoked", !.by = u, !.stamp = @ + 1]

\* The row is written if it is the one that was loaded.
CommitRevoke(c) ==
    LET r == call[c] IN
    /\ At(c, {"revokeShare"}, "ready")
    /\ IF Permitted(r.actor, "admin") /\ share[r.share].stamp = r.row.stamp
         THEN share' = [share EXCEPT ![r.share] = Revoked(r.row, r.actor)]
         ELSE UNCHANGED share
    /\ Leave(c)
    /\ UNCHANGED <<rows, workload, proofs>>

-----------------------------------------------------------------------------
(* Readers                                                                 *)

ReadOrder == [share |-> "project", project |-> "document", document |-> "branch",
              branch |-> "versions", versions |-> "loaded"]

\* A reader asks, with the proof of an earlier unlock or with none.
Visit(c, kind, s, want, proof) ==
    /\ share[s] # None
    /\ Enter(c, [kind |-> kind, step |-> "share", share |-> s, want |-> want,
                 proof |-> proof, seen |-> Nothing,
                 since |-> published[share[s].branch], shown |-> {}])
    /\ UNCHANGED <<rows, workload, shareVars>>

\* One row, or the published versions, at a time.
LoadPublicDocumentShareSnapshot(c) ==
    LET r == call[c]
        seen == r.seen
        row == seen.row
        place == IF r.step = "branch" THEN row.branch ELSE r.step
        next == CASE r.step = "share" -> [seen EXCEPT !.row = share[r.share]]
                  [] r.step = "versions" -> [seen EXCEPT !.count = published[row.branch]]
                  [] OTHER -> [seen EXCEPT !.closed = @ \cup ({place} \cap archived)]
    IN
    /\ r.kind \in ReadKinds \cup {"unlock"}
    /\ r.step \in DOMAIN ReadOrder
    /\ Enter(c, [r EXCEPT !.step = ReadOrder[r.step], !.seen = next])
    /\ UNCHANGED <<rows, workload, shareVars>>

ValidProof(proof, s) == proof # None /\ proof.share = s /\ now < proof.until

\* authorizePublicShareSnapshot, with and without the question for a proof.
Admits(seen) == Open(seen.row) /\ seen.closed = {}
Unlocked(r) == r.seen.row.protected => ValidProof(r.proof, r.share)

PublishedSnapshotVersions(seen) ==
    IF seen.row.scope = "fixed" THEN {seen.row.pin} \cap 1 .. seen.count
                                ELSE 1 .. seen.count

\* A version that was asked for, if the scope allows it.
AllowedSnapshotVersion(seen, want) ==
    {n \in PublishedSnapshotVersions(seen) :
        n = want /\ (seen.row.scope = "latest" => n = seen.count)}

\* What a request is to be answered with; nothing means it is refused.
Answer(r) ==
    CASE r.kind = "metadata" ->
            {n \in PublishedSnapshotVersions(r.seen) :
                \A m \in PublishedSnapshotVersions(r.seen) : m <= n}
      [] r.kind = "versions" ->
            IF r.seen.row.scope = "all" THEN PublishedSnapshotVersions(r.seen) ELSE {}
      [] OTHER -> AllowedSnapshotVersion(r.seen, r.want)

\* The content is loaded before the access is recorded, and can be missing.
AuthorizePublicShare(c) ==
    LET r == call[c] IN
    /\ At(c, ReadKinds, "loaded")
    /\ \/ /\ Admits(r.seen) /\ Unlocked(r) /\ Answer(r) # {}
          /\ Enter(c, [r EXCEPT !.step = "admitted", !.shown = Answer(r)])
       \/ Leave(c)
    /\ UNCHANGED <<rows, workload, shareVars>>

\* The version an audit entry names: a fixed share names its own, a list none.
AuditedVersion(r) ==
    IF r.kind = "versions" THEN r.seen.row.pin ELSE CHOOSE n \in r.shown : TRUE

\* A faulty variant: the audit transaction only looks for a revocation.
NotRevoked(r) == share[r.share].status = "active"

StillAvailable(r) ==
    LET row == share[r.share] IN
    /\ Open(row)
    /\ Live(row.branch)
    /\ row.scope = "fixed" =>
          AuditedVersion(r) = row.pin /\ row.pin \in 1 .. published[row.branch]

RecordPublicDocumentShareAccess(c) ==
    /\ At(c, ReadKinds, "admitted")
    /\ IF StillAvailable(call[c]) THEN Go(c, "answered") ELSE Leave(c)
    /\ UNCHANGED <<rows, workload, shareVars>>

SendAnswer(c) ==
    /\ At(c, ReadKinds, "answered")
    /\ Leave(c)
    /\ UNCHANGED <<rows, workload, shareVars>>

\* The password is verified against the row that was read.
UnlockPublicDocumentShare(c) ==
    /\ At(c, {"unlock"}, "loaded")
    /\ IF Admits(call[c].seen) /\ call[c].seen.row.protected
         THEN Go(c, "verifying") ELSE Leave(c)
    /\ UNCHANGED <<rows, workload, shareVars>>

ProofExpiry(row) == IF row.expires < now + ProofLife THEN row.expires ELSE now + ProofLife

\* The password was right: a proof for this share, which does not outlive it.
SignDocumentShareUnlockProof(c) ==
    LET row == call[c].seen.row IN
    /\ At(c, {"unlock"}, "verifying")
    /\ proofs' = IF ProofExpiry(row) > now
                   THEN proofs \cup {[share |-> call[c].share, until |-> ProofExpiry(row)]}
                   ELSE proofs
    /\ Leave(c)
    /\ UNCHANGED <<rows, workload, share>>

WrongPassword(c) ==
    /\ At(c, {"unlock"}, "verifying")
    /\ Leave(c)
    /\ UNCHANGED <<rows, workload, shareVars>>

-----------------------------------------------------------------------------
\* Shares have passwords where readers unlock them, and expire where time passes.
Protections == IF "unlock" \in workload THEN BOOLEAN ELSE {FALSE}
Expiries == IF "time" \in workload THEN {now + ShareLife, Never} ELSE {Never}

ShareNext ==
    \E c \in Clients :
        \/ /\ Free(c, "createShare")
           /\ \E u \in Users, s \in Shares, b \in Branches, scope \in Scopes,
                 pin \in {0} \cup Numbers, protected \in Protections, expires \in Expiries :
                 CreateDocumentShare(c, u, s, b, scope, pin, protected, expires)
        \/ /\ Free(c, "revealShare")
           /\ \E u \in Users, s \in Shares : RevealDocumentShare(c, u, s)
        \/ /\ Free(c, "revokeShare")
           /\ \E u \in Users, s \in Shares : RevokeDocumentShare(c, u, s)
        \/ \E kind \in ReadKinds \cup {"unlock"} :
              /\ Free(c, kind)
              /\ \E s \in Shares :
                    \/ /\ kind \in {"content", "download"}
                       /\ \E n \in Numbers, proof \in proofs \cup {None} :
                             Visit(c, kind, s, n, proof)
                    \/ /\ kind \in {"metadata", "versions"}
                       /\ \E proof \in proofs \cup {None} : Visit(c, kind, s, 0, proof)
                    \/ kind = "unlock" /\ Visit(c, kind, s, 0, None)
        \/ SharePasswordHashed(c) \/ SaveNewShare(c)
        \/ CommitReveal(c) \/ ShowSecret(c) \/ CommitRevoke(c)
        \/ LoadPublicDocumentShareSnapshot(c) \/ AuthorizePublicShare(c)
        \/ RecordPublicDocumentShareAccess(c) \/ SendAnswer(c)
        \/ UnlockPublicDocumentShare(c) \/ SignDocumentShareUnlockProof(c)
        \/ WrongPassword(c)

-----------------------------------------------------------------------------
(* Correctness                                                             *)

\* A version that the share gives out, and no staler than the request.
WithinScope(r, n) ==
    LET row == share[r.share] IN
    /\ n \in 1 .. published[row.branch]
    /\ row.scope = "fixed" => n = row.pin
    /\ row.scope = "latest" => n >= r.since

IsAvailable(s) == Open(share[s]) /\ Live(share[s].branch)

Answered(c) == At(c, ReadKinds, "admitted") /\ call'[c].step = "answered"
Shown(c) == At(c, {"revealShare"}, "ready") /\ call'[c].step = "revealed"
Created(s) == share[s] = None /\ share'[s] # None

\* Whatever is withdrawn, archived, published or changed while requests run: a
\* reader is answered only through a share that is neither withdrawn nor
\* expired, under parents that are live, at that moment; with versions that its
\* scope covers, the latest not older than when the reader asked; and, if it has
\* a password, with a proof given for this share (RecordPublicDocumentShareAccess
\* and the snapshot it confirms).  A share is created, and its secret shown
\* again, only by someone who then administers the project, under live parents.
SharesOpenOnlyWhatIsShared ==
    [][/\ \A c \in Clients : LET r == call[c] IN
            /\ Answered(c) =>
                  /\ IsAvailable(r.share)
                  /\ \A n \in r.shown : WithinScope(r, n)
                  /\ share[r.share].protected => \E p \in proofs : p.share = r.share
            /\ Shown(c) => IsAvailable(r.share) /\ CanPublish(r.actor)
       /\ \A s \in Shares : Created(s) =>
            /\ \E c \in Clients : At(c, {"createShare"}, "ready") /\ CanPublish(call[c].actor)
            /\ Live(share'[s].branch)
            /\ \E n \in 1 .. published[share'[s].branch] : share'[s].pin \in {0, n}]_<<rows, call, shareVars>>

\* A share that was withdrawn stays withdrawn, by whom it was.
RevokedShares ==
    [][\A s \in Shares : share[s] # None /\ share[s].status = "revoked" =>
          share'[s].status = "revoked" /\ share'[s].by = share[s].by]_share

=============================================================================
