------------------------------ MODULE McpTokens -------------------------------
(***************************************************************************)
(* Access tokens of users, and the tool calls that are made with them.     *)
(*                                                                         *)
(* A call first uses its token, in one transaction: the token must be      *)
(* active and not expired and its owner active, and the time of use is     *)
(* kept.  It then goes on with the owner and the scopes it was given: the  *)
(* tool is matched with the scopes and the type of the document, content   *)
(* is read under the owner's rights, and what a tool writes is committed   *)
(* under a guard that looks at the token once more.  The answer waits for  *)
(* the audit entry of the call.                                            *)
(*                                                                         *)
(* Several tools differ only in what they return; Tools keeps one of each  *)
(* kind: by scope, by effect, and by whether the document's type is        *)
(* compared by the tool or only by the store.                              *)
(***************************************************************************)
EXTENDS Workspace

CONSTANTS
    Tokens,
    Grants,     \* sets of scopes that tokens are created with
    MaxWrites   \* bound: writes of a token's row

ASSUME GrantsAssumption ==
    Grants \subseteq (SUBSET {"apiRead", "apiDraft", "docRead", "docDraft"}) \ {{}}

VARIABLES
    token,      \* mcp_tokens
    textual,    \* the document is Markdown or plain text, not OpenAPI
    drafts      \* the tokens drafts of the document were written with

tokenVars == <<token, textual, drafts>>

AllScopes == {"apiRead", "apiDraft", "docRead", "docDraft"}
Eternal == MaxTime + 1     \* the expiry of a token without one
TokenRow ==
    [owner : Users, scopes : SUBSET AllScopes, expires : 1 .. Eternal,
     status : {"active", "expired", "revoked"}, used : {0} \cup 1 .. Eternal,
     sealed : {"old", "new"}, stamp : Nat]

ASSUME TokenNoneAssumption == None \notin TokenRow

Tools == {"listDocuments", "readApi", "readDoc", "compareApi", "compareDoc",
          "createApi", "createDoc", "updateApi", "updateDoc"}

TokenCall ==
    [kind : {"createToken"}, step : {"ready"}, actor : Users, token : Tokens,
     row : TokenRow] \cup
    [kind : {"listTokens", "revokeToken"}, step : {"ready"}, actor : Users,
     loaded : [Tokens -> TokenRow \cup {None}], token : Tokens \cup {None}] \cup
    [kind : {"revealToken"}, step : {"ready", "revealed"}, actor : Users,
     loaded : [Tokens -> TokenRow \cup {None}], token : Tokens] \cup
    [kind : {"mcp"}, step : {"authenticated", "matched", "ready", "done", "audited"},
     token : Tokens, tool : Tools, scopes : SUBSET AllScopes]

TokenTypeOK ==
    /\ token \in [Tokens -> TokenRow \cup {None}]
    /\ textual \in BOOLEAN
    /\ drafts \subseteq Tokens

TokenInit ==
    /\ token = [t \in Tokens |-> None]
    /\ textual \in (IF "mcp" \in workload THEN BOOLEAN ELSE {FALSE})
    /\ drafts = {}

-----------------------------------------------------------------------------
(* Rules of a token                                                        *)

ExpireIfNeeded(row) ==
    IF row # None /\ row.status = "active" /\ now >= row.expires
      THEN [row EXCEPT !.status = "expired", !.stamp = @ + 1]
      ELSE row

Usable(row) == row.status = "active" /\ now < row.expires

\* A faulty variant: the row is saved as it is, time of use included.
OverwrittenToken(current, row) == row

\* A row is saved if its lifecycle is the one that was loaded; the time of use
\* does not count as a change, and is never taken back.
SavedToken(current, row) ==
    [row EXCEPT !.used = IF current.used > @ THEN current.used ELSE @]

Unchanged(loaded, changed) == \A t \in changed : token[t].stamp = loaded[t].stamp

SaveTokens(changed) ==
    token' = [t \in Tokens |-> IF t \in DOMAIN changed
                                 THEN SavedToken(token[t], changed[t]) ELSE token[t]]

-----------------------------------------------------------------------------
(* Management                                                              *)

UnusedToken(t) == token[t] = None /\ \A d \in Clients :
                      call[d].kind = "createToken" => call[d].token # t

CreateMCPToken(c, u, t, scopes, expires) ==
    /\ IsActive(u)
    /\ UnusedToken(t)
    /\ expires > now
    /\ Enter(c, [kind |-> "createToken", step |-> "ready", actor |-> u, token |-> t,
                 row |-> [owner |-> u, scopes |-> scopes, expires |-> expires,
                          status |-> "active", used |-> 0, sealed |-> "old",
                          stamp |-> 1]])
    /\ UNCHANGED <<rows, workload, tokenVars>>

SaveNewToken(c) ==
    LET r == call[c] IN
    /\ At(c, {"createToken"}, "ready")
    /\ token' = IF Permitted(r.actor, "authenticated")
                  THEN [token EXCEPT ![r.token] = r.row] ELSE token
    /\ Leave(c)
    /\ UNCHANGED <<rows, workload, textual, drafts>>

\* A list marks what has expired, of every owner, and saves it unguarded.
ListMCPTokens(c, u) ==
    /\ IsActive(u)
    /\ \E t \in Tokens : ExpireIfNeeded(token[t]) # token[t]
    /\ Enter(c, [kind |-> "listTokens", step |-> "ready", actor |-> u,
                 loaded |-> token, token |-> None])
    /\ UNCHANGED <<rows, workload, tokenVars>>

Expiring(loaded) == {t \in Tokens : ExpireIfNeeded(loaded[t]) # loaded[t]}

SaveExpired(c) ==
    LET loaded == call[c].loaded IN
    /\ At(c, {"listTokens"}, "ready")
    /\ IF Unchanged(loaded, Expiring(loaded))
         THEN SaveTokens([t \in Expiring(loaded) |-> ExpireIfNeeded(loaded[t])])
         ELSE UNCHANGED token
    /\ Leave(c)
    /\ UNCHANGED <<rows, workload, textual, drafts>>

\* Only the owner sees the secret again.
MCPToken(c, t) ==
    /\ token[t] # None
    /\ IsActive(token[t].owner)
    /\ Enter(c, [kind |-> "revealToken", step |-> "ready", actor |-> token[t].owner,
                 loaded |-> token, token |-> t])
    /\ UNCHANGED <<rows, workload, tokenVars>>

\* Of a token that was no longer active nothing is shown; one that was must
\* still be, in the transaction that records the request.
CommitTokenReveal(c) ==
    LET r == call[c]
        changed == Expiring(r.loaded) \cap {r.token}
        shows == ExpireIfNeeded(r.loaded[r.token]).status = "active"
    IN
    /\ At(c, {"revealToken"}, "ready")
    /\ IF /\ Permitted(r.actor, "authenticated")
          /\ shows => Usable(token[r.token])
          /\ Unchanged(r.loaded, changed)
         THEN /\ SaveTokens([t \in changed |-> ExpireIfNeeded(r.loaded[t])])
              /\ IF shows THEN Go(c, "revealed") ELSE Leave(c)
         ELSE UNCHANGED token /\ Leave(c)
    /\ UNCHANGED <<rows, workload, textual, drafts>>

ShowTokenSecret(c) ==
    /\ At(c, {"revealToken"}, "revealed")
    /\ Leave(c)
    /\ UNCHANGED <<rows, workload, tokenVars>>

\* The owner, or a super administrator, at any time.
RevokeMCPToken(c, u, t) ==
    /\ token[t] # None
    /\ IsSuper(u) \/ (IsActive(u) /\ token[t].owner = u)
    /\ token[t].stamp < MaxWrites
    /\ Enter(c, [kind |-> "revokeToken", step |-> "ready", actor |-> u,
                 loaded |-> token, token |-> t])
    /\ UNCHANGED <<rows, workload, tokenVars>>

Withdrawn(row) == [row EXCEPT !.status = "revoked", !.stamp = @ + 1]

SaveRevokedToken(c) ==
    LET r == call[c]
        need == IF token[r.token].owner = r.actor THEN "authenticated" ELSE "super"
    IN
    /\ At(c, {"revokeToken"}, "ready")
    /\ IF Permitted(r.actor, need) /\ Unchanged(r.loaded, {r.token})
         THEN SaveTokens([t \in {r.token} |-> Withdrawn(r.loaded[t])])
         ELSE UNCHANGED token
    /\ Leave(c)
    /\ UNCHANGED <<rows, workload, textual, drafts>>

-----------------------------------------------------------------------------
(* Calls                                                                   *)

\* One transaction, with the owner's row and the token's locked.
AuthenticateMCPToken(c, t, tool) ==
    LET row == ExpireIfNeeded(token[t]) IN
    /\ token[t] # None
    /\ \/ /\ Usable(token[t])
          /\ IsActive(row.owner)
          /\ token' = [token EXCEPT ![t].used = now + 1]
          /\ Enter(c, [kind |-> "mcp", step |-> "authenticated", token |-> t,
                       tool |-> tool, scopes |-> row.scopes])
       \/ /\ row # token[t]
          /\ token' = [token EXCEPT ![t] = row]
          /\ UNCHANGED call
    /\ UNCHANGED <<rows, workload, textual, drafts>>

ScopeOf == [readApi |-> "apiRead", readDoc |-> "docRead",
            compareApi |-> "apiRead", compareDoc |-> "docRead",
            createApi |-> "apiDraft", createDoc |-> "docDraft",
            updateApi |-> "apiDraft", updateDoc |-> "docDraft"]

ForText(tool) == tool \in {"readDoc", "compareDoc", "createDoc", "updateDoc"}
Writes(tool) == tool \in {"createApi", "createDoc", "updateApi", "updateDoc"}
Compares(tool) == tool \in {"compareApi", "compareDoc"}

\* filterDocumentsForScopes
Listed(scopes) == IF textual THEN "docRead" \in scopes ELSE "apiRead" \in scopes

\* Tools that change an existing draft and those that create a text draft leave
\* the type of the document to the store.
MatchedByTool(tool) ==
    tool \notin {"listDocuments", "createDoc", "updateApi", "updateDoc"}

EnsureMCPDocumentType(owner, tool) == CanRead(owner) /\ textual = ForText(tool)

ExecuteAuthenticatedTool(c) ==
    LET r == call[c] IN
    /\ At(c, {"mcp"}, "authenticated")
    /\ IF \/ /\ r.tool = "listDocuments"
             /\ r.scopes \cap {"apiRead", "docRead"} # {}
          \/ /\ r.tool \in DOMAIN ScopeOf
             /\ ScopeOf[r.tool] \in r.scopes
             /\ MatchedByTool(r.tool) => EnsureMCPDocumentType(token[r.token].owner, r.tool)
         THEN Go(c, "matched") ELSE Leave(c)
    /\ UNCHANGED <<rows, workload, tokenVars>>

\* The store loads again: rights, the document's state and its type.
PrepareToolWrite(c) ==
    LET r == call[c] owner == token[r.token].owner IN
    /\ At(c, {"mcp"}, "matched")
    /\ Writes(r.tool) \/ Compares(r.tool)
    /\ IF /\ textual = ForText(r.tool)
          /\ IF Writes(r.tool) THEN CanDraft(owner) ELSE CanRead(owner)
          /\ LiveDocument
         THEN Go(c, "ready") ELSE Leave(c)
    /\ UNCHANGED <<rows, workload, tokenVars>>

ReadWithToken(c) ==
    LET r == call[c] IN
    /\ At(c, {"mcp"}, "matched")
    /\ ~Writes(r.tool) /\ ~Compares(r.tool)
    /\ IF CanRead(token[r.token].owner) /\ (r.tool = "listDocuments" => Listed(r.scopes))
         THEN Go(c, "done") ELSE Leave(c)
    /\ UNCHANGED <<rows, workload, tokenVars>>

\* What the guard of a write made with a token asks for.
NeededScope(tool) ==
    IF Writes(tool) THEN IF textual THEN "docDraft" ELSE "apiDraft"
                    ELSE IF textual THEN "docRead" ELSE "apiRead"

\* A faulty variant: only the owner is looked at again, not the token.
OwnerGuard(r) ==
    /\ Permitted(token[r.token].owner, IF Writes(r.tool) THEN "writer" ELSE "reader")
    /\ LiveDocument

TokenGuard(r) ==
    /\ Permitted(token[r.token].owner, IF Writes(r.tool) THEN "writer" ELSE "reader")
    /\ LiveDocument
    /\ Usable(token[r.token])
    /\ NeededScope(r.tool) \in token[r.token].scopes

CommitToolWrite(c) ==
    LET r == call[c] IN
    /\ At(c, {"mcp"}, "ready")
    /\ IF TokenGuard(r)
         THEN /\ drafts' = IF Writes(r.tool) THEN drafts \cup {r.token} ELSE drafts
              /\ Go(c, "done")
         ELSE UNCHANGED drafts /\ Leave(c)
    /\ UNCHANGED <<rows, workload, token, textual>>

\* The audit entry of the call can fail, and then the answer is kept back; what
\* the tool wrote stays.
RecordMCPToolCall(c) ==
    /\ At(c, {"mcp"}, "done")
    /\ Go(c, "audited") \/ Leave(c)
    /\ UNCHANGED <<rows, workload, tokenVars>>

SendToolAnswer(c) ==
    /\ At(c, {"mcp"}, "audited")
    /\ Leave(c)
    /\ UNCHANGED <<rows, workload, tokenVars>>

-----------------------------------------------------------------------------
TokenNext ==
    \E c \in Clients :
        \/ /\ Free(c, "createToken")
           /\ \E t \in Tokens, u \in Users, scopes \in Grants, expires \in 1 .. Eternal :
                 CreateMCPToken(c, u, t, scopes, expires)
        \/ /\ Free(c, "revokeToken")
           /\ \E t \in Tokens, u \in Users : RevokeMCPToken(c, u, t)
        \/ Free(c, "listTokens") /\ \E u \in Users : ListMCPTokens(c, u)
        \/ Free(c, "revealToken") /\ \E t \in Tokens : MCPToken(c, t)
        \/ /\ Free(c, "mcp")
           /\ \E t \in Tokens, tool \in Tools : AuthenticateMCPToken(c, t, tool)
        \/ SaveNewToken(c) \/ SaveExpired(c)
        \/ CommitTokenReveal(c) \/ ShowTokenSecret(c) \/ SaveRevokedToken(c)
        \/ ExecuteAuthenticatedTool(c) \/ PrepareToolWrite(c) \/ ReadWithToken(c)
        \/ CommitToolWrite(c) \/ RecordMCPToolCall(c) \/ SendToolAnswer(c)

-----------------------------------------------------------------------------
(* Correctness                                                             *)

ToolWrote(c) == At(c, {"mcp"}, "ready") /\ call'[c].step = "done"
ToolRead(c) == At(c, {"mcp"}, "matched") /\ call'[c].step = "done"
Began(c) == call[c] = Idle /\ call'[c].kind = "mcp"
SecretShown(c) == At(c, {"revealToken"}, "ready") /\ call'[c].step = "revealed"

Covers(scopes, api, doc) == (IF textual THEN doc ELSE api) \in scopes

\* Whatever happens between the authentication of a call and its end: a call
\* begins, and a secret is shown, only with a token that is active then and whose
\* owner is; a tool writes only while that still holds, and with a role and a
\* scope that allow it for the type of the document (validateMutationGuardLocked
\* and LockMutationContext); it reads only what the owner may read and a scope
\* covers.
TokensActWithinTheirRights ==
    [][\A c \in Clients : LET r == call[c] row == token[r.token] IN
          /\ Began(c) => LET used == token[call'[c].token] IN
                            Usable(used) /\ IsActive(used.owner)
          /\ SecretShown(c) => Usable(row) /\ IsActive(row.owner)
          /\ ToolWrote(c) =>
                /\ Usable(row) /\ LiveDocument
                /\ IF Writes(r.tool)
                     THEN CanDraft(row.owner) /\ Covers(row.scopes, "apiDraft", "docDraft")
                     ELSE CanRead(row.owner) /\ Covers(row.scopes, "apiRead", "docRead")
          /\ ToolRead(c) => CanRead(row.owner) /\ Covers(row.scopes, "apiRead", "docRead")
      ]_<<rows, call, tokenVars>>

\* A token that was revoked is never active or expired again, and the time of its
\* last use does not go back, whatever was loaded before (UseMCPToken beside
\* UpsertMCPTokenIfUnchanged).
RevokedTokens ==
    [][\A t \in Tokens : token[t] # None =>
          /\ token[t].status = "revoked" => token'[t].status = "revoked"
          /\ token'[t].used >= token[t].used]_token

=============================================================================
