----------------------- MODULE DocumentServicesProofs ------------------------
(***************************************************************************)
(* For any number of clients, users, tokens, shares, branches, versions    *)
(* and events: what the steps of requests of every kind leave alone; that  *)
(* tools and secrets are reached only with a token, an owner and scopes    *)
(* that allow it then; and that shares open only what is shared, and what  *)
(* was withdrawn stays withdrawn.                                          *)
(***************************************************************************)
EXTENDS DocumentServices, TLAPS

-----------------------------------------------------------------------------
(* Requests of different kinds                                             *)

AnonymousKinds == ReadKinds \cup {"unlock"}
ShareKinds == {"createShare", "revealShare", "revokeShare"} \cup AnonymousKinds
TokenKinds == {"createToken", "listTokens", "revealToken", "revokeToken", "mcp"}
ChatKinds == {"createChat", "chat", "configure", "testProvider"}

\* Every client has a request, which has a kind and a step.
Formed ==
    /\ call = [c \in Clients |-> call[c]]
    /\ \A c \in Clients : {"kind", "step"} \subseteq DOMAIN call[c]

\* One request of these kinds begins, goes on or ends.
Moves(kinds) ==
    /\ Formed'
    /\ \E c \in Clients :
          /\ call[c].kind \in kinds \cup {"none"}
          /\ call'[c].kind \in kinds \cup {"none"}
          /\ \A d \in Clients \ {c} : call'[d] = call[d]

LEMMA Entered ==
    ASSUME Formed, NEW c \in Clients, NEW r, Enter(c, r)
    PROVE  call'[c] = r /\ \A d \in Clients \ {c} : call'[d] = call[d]
  BY DEF Formed, Enter

LEMMA EnteredIsFormed ==
    ASSUME Formed, NEW c \in Clients, NEW r, Enter(c, r), {"kind", "step"} \subseteq DOMAIN r
    PROVE  Formed'
  <1>1. call' = [d \in Clients |-> call'[d]]
    BY DEF Formed, Enter
  <1> QED BY <1>1, Entered DEF Formed

LEMMA Gone ==
    ASSUME Formed, NEW c \in Clients, NEW s, Go(c, s)
    PROVE  /\ Enter(c, [call[c] EXCEPT !.step = s])
           /\ call'[c] = [call[c] EXCEPT !.step = s]
           /\ call'[c].kind = call[c].kind /\ call'[c].step = s
           /\ \A d \in Clients \ {c} : call'[d] = call[d]
           /\ Formed'
  <1> DEFINE r == [call[c] EXCEPT !.step = s]
  <1>1. Enter(c, r)
    BY DEF Formed, Go, Enter
  <1>2. r.kind = call[c].kind /\ r.step = s /\ {"kind", "step"} \subseteq DOMAIN r
    BY DEF Formed
  <1> HIDE DEF r
  <1>3. call'[c] = r /\ \A d \in Clients \ {c} : call'[d] = call[d]
    BY <1>1, Entered
  <1>4. Formed'
    BY <1>1, <1>2, EnteredIsFormed
  <1> QED BY <1>1, <1>2, <1>3, <1>4 DEF r

LEMMA Left ==
    ASSUME Formed, NEW c \in Clients, Leave(c)
    PROVE  /\ call'[c] = Idle /\ call'[c].kind = "none"
           /\ \A d \in Clients \ {c} : call'[d] = call[d]
           /\ Formed'
  <1>1. Enter(c, Idle)
    BY DEF Leave, Enter
  <1>2. {"kind", "step"} \subseteq DOMAIN Idle
    BY DEF Idle
  <1>3. Idle.kind = "none"
    BY DEF Idle
  <1> QED BY <1>1, <1>2, <1>3, Entered, EnteredIsFormed

\* What a request's step looks like to everyone else.
LEMMA EnterMoves ==
    ASSUME Formed, NEW kinds, NEW c \in Clients, call[c].kind \in kinds \cup {"none"},
           NEW r, Enter(c, r), r.kind \in kinds, {"kind", "step"} \subseteq DOMAIN r
    PROVE  Moves(kinds)
  BY Entered, EnteredIsFormed DEF Moves

LEMMA GoMoves ==
    ASSUME Formed, NEW kinds, NEW c \in Clients, call[c].kind \in kinds, NEW s, Go(c, s)
    PROVE  Moves(kinds)
  BY Gone DEF Moves

LEMMA LeaveMoves ==
    ASSUME Formed, NEW kinds, NEW c \in Clients, call[c].kind \in kinds, Leave(c)
    PROVE  Moves(kinds)
  BY Left DEF Moves

LEMMA FreeIsNone ==
    ASSUME NEW c, NEW kind, Free(c, kind)
    PROVE  call[c].kind = "none" /\ call[c].step = "idle"
  BY DEF Free, Idle

BeginsCreateToken(c) ==
    /\ Free(c, "createToken")
    /\ \E t \in Tokens, u \in Users, scopes \in Grants, expires \in 1 .. Eternal :
          CreateMCPToken(c, u, t, scopes, expires)
BeginsRevokeToken(c) ==
    Free(c, "revokeToken") /\ \E t \in Tokens, u \in Users : RevokeMCPToken(c, u, t)
BeginsListTokens(c) == Free(c, "listTokens") /\ \E u \in Users : ListMCPTokens(c, u)
BeginsRevealToken(c) == Free(c, "revealToken") /\ \E t \in Tokens : MCPToken(c, t)
BeginsToolCall(c) ==
    Free(c, "mcp") /\ \E t \in Tokens, tool \in Tools : AuthenticateMCPToken(c, t, tool)

LEMMA TokenSteps ==
    ASSUME TokenNext
    PROVE  \E c \in Clients :
              \/ BeginsCreateToken(c) \/ BeginsRevokeToken(c) \/ BeginsListTokens(c)
              \/ BeginsRevealToken(c) \/ BeginsToolCall(c)
              \/ SaveNewToken(c) \/ SaveExpired(c)
              \/ CommitTokenReveal(c) \/ ShowTokenSecret(c) \/ SaveRevokedToken(c)
              \/ ExecuteAuthenticatedTool(c) \/ PrepareToolWrite(c) \/ ReadWithToken(c)
              \/ CommitToolWrite(c) \/ RecordMCPToolCall(c) \/ SendToolAnswer(c)
  BY DEF TokenNext, BeginsCreateToken, BeginsRevokeToken, BeginsListTokens,
     BeginsRevealToken, BeginsToolCall

BeginsCreateShare(c) ==
    /\ Free(c, "createShare")
    /\ \E u \in Users, s \in Shares, b \in Branches, scope \in Scopes,
          pin \in {0} \cup Numbers, protected \in Protections, expires \in Expiries :
          CreateDocumentShare(c, u, s, b, scope, pin, protected, expires)
BeginsRevealShare(c) ==
    Free(c, "revealShare") /\ \E u \in Users, s \in Shares : RevealDocumentShare(c, u, s)
BeginsRevokeShare(c) ==
    Free(c, "revokeShare") /\ \E u \in Users, s \in Shares : RevokeDocumentShare(c, u, s)
BeginsVisit(c) ==
    \E kind \in AnonymousKinds, s \in Shares, want \in {0} \cup Numbers,
       proof \in proofs \cup {None} : Free(c, kind) /\ Visit(c, kind, s, want, proof)

LEMMA ShareSteps ==
    ASSUME ShareNext
    PROVE  \E c \in Clients :
              \/ BeginsCreateShare(c) \/ BeginsRevealShare(c) \/ BeginsRevokeShare(c)
              \/ BeginsVisit(c)
              \/ SharePasswordHashed(c) \/ SaveNewShare(c)
              \/ CommitReveal(c) \/ ShowSecret(c) \/ CommitRevoke(c)
              \/ LoadPublicDocumentShareSnapshot(c) \/ AuthorizePublicShare(c)
              \/ RecordPublicDocumentShareAccess(c) \/ SendAnswer(c)
              \/ UnlockPublicDocumentShare(c) \/ SignDocumentShareUnlockProof(c)
              \/ WrongPassword(c)
  <1> DEFINE Visits(c) ==
        \E kind \in ReadKinds \cup {"unlock"} :
              /\ Free(c, kind)
              /\ \E s \in Shares :
                    \/ /\ kind \in {"content", "download"}
                       /\ \E n \in Numbers, proof \in proofs \cup {None} :
                             Visit(c, kind, s, n, proof)
                    \/ /\ kind \in {"metadata", "versions"}
                       /\ \E proof \in proofs \cup {None} : Visit(c, kind, s, 0, proof)
                    \/ kind = "unlock" /\ Visit(c, kind, s, 0, None)
  <1>1. ASSUME NEW c \in Clients, Visits(c)
        PROVE  BeginsVisit(c)
    BY <1>1 DEF BeginsVisit, AnonymousKinds
  <1>2. \E c \in Clients :
              \/ BeginsCreateShare(c) \/ BeginsRevealShare(c) \/ BeginsRevokeShare(c)
              \/ Visits(c)
              \/ SharePasswordHashed(c) \/ SaveNewShare(c)
              \/ CommitReveal(c) \/ ShowSecret(c) \/ CommitRevoke(c)
              \/ LoadPublicDocumentShareSnapshot(c) \/ AuthorizePublicShare(c)
              \/ RecordPublicDocumentShareAccess(c) \/ SendAnswer(c)
              \/ UnlockPublicDocumentShare(c) \/ SignDocumentShareUnlockProof(c)
              \/ WrongPassword(c)
    BY DEF ShareNext, BeginsCreateShare, BeginsRevealShare, BeginsRevokeShare
  <1> HIDE DEF Visits
  <1> QED BY <1>1, <1>2

LEMMA TokenStepsMove ==
    ASSUME Formed, TokenNext
    PROVE  Moves(TokenKinds) \/ UNCHANGED call
  <1>1. PICK c \in Clients :
              \/ BeginsCreateToken(c) \/ BeginsRevokeToken(c) \/ BeginsListTokens(c)
              \/ BeginsRevealToken(c) \/ BeginsToolCall(c)
              \/ SaveNewToken(c) \/ SaveExpired(c)
              \/ CommitTokenReveal(c) \/ ShowTokenSecret(c) \/ SaveRevokedToken(c)
              \/ ExecuteAuthenticatedTool(c) \/ PrepareToolWrite(c) \/ ReadWithToken(c)
              \/ CommitToolWrite(c) \/ RecordMCPToolCall(c) \/ SendToolAnswer(c)
    BY TokenSteps
  <1>2. CASE BeginsCreateToken(c)
    BY <1>2, FreeIsNone, EnterMoves DEF BeginsCreateToken, CreateMCPToken, TokenKinds
  <1>3. CASE BeginsRevokeToken(c)
    BY <1>3, FreeIsNone, EnterMoves DEF BeginsRevokeToken, RevokeMCPToken, TokenKinds
  <1>4. CASE BeginsListTokens(c)
    BY <1>4, FreeIsNone, EnterMoves DEF BeginsListTokens, ListMCPTokens, TokenKinds
  <1>5. CASE BeginsRevealToken(c)
    BY <1>5, FreeIsNone, EnterMoves DEF BeginsRevealToken, MCPToken, TokenKinds
  <1>6. CASE BeginsToolCall(c)
    BY <1>6, FreeIsNone, EnterMoves DEF BeginsToolCall, AuthenticateMCPToken, TokenKinds
  <1>7. CASE SaveNewToken(c) \/ SaveExpired(c) \/ ShowTokenSecret(c)
               \/ SaveRevokedToken(c) \/ SendToolAnswer(c)
    BY <1>7, LeaveMoves DEF SaveNewToken, SaveExpired, ShowTokenSecret, SaveRevokedToken,
       SendToolAnswer, At, TokenKinds
  <1>8. CASE CommitTokenReveal(c) \/ ExecuteAuthenticatedTool(c) \/ PrepareToolWrite(c)
               \/ ReadWithToken(c) \/ CommitToolWrite(c) \/ RecordMCPToolCall(c)
    BY <1>8, LeaveMoves, GoMoves DEF CommitTokenReveal, ExecuteAuthenticatedTool,
       PrepareToolWrite, ReadWithToken, CommitToolWrite, RecordMCPToolCall, At, TokenKinds
  <1> QED BY <1>1, <1>2, <1>3, <1>4, <1>5, <1>6, <1>7, <1>8

LEMMA ShareStepsMove ==
    ASSUME Formed, ShareNext
    PROVE  Moves(ShareKinds)
  <1>1. PICK c \in Clients :
              \/ BeginsCreateShare(c) \/ BeginsRevealShare(c) \/ BeginsRevokeShare(c)
              \/ BeginsVisit(c)
              \/ SharePasswordHashed(c) \/ SaveNewShare(c)
              \/ CommitReveal(c) \/ ShowSecret(c) \/ CommitRevoke(c)
              \/ LoadPublicDocumentShareSnapshot(c) \/ AuthorizePublicShare(c)
              \/ RecordPublicDocumentShareAccess(c) \/ SendAnswer(c)
              \/ UnlockPublicDocumentShare(c) \/ SignDocumentShareUnlockProof(c)
              \/ WrongPassword(c)
    BY ShareSteps
  <1>2. CASE BeginsCreateShare(c)
    <2>1. PICK u, s, b, scope, pin, protected, expires :
              CreateDocumentShare(c, u, s, b, scope, pin, protected, expires)
      BY <1>2, Zenon DEF BeginsCreateShare
    <2>2. call[c].kind = "none"
      BY <1>2, FreeIsNone DEF BeginsCreateShare
    <2> QED BY <2>1, <2>2, EnterMoves DEF CreateDocumentShare, ShareKinds
  <1>8. CASE BeginsRevealShare(c) \/ BeginsRevokeShare(c)
    BY <1>8, FreeIsNone, EnterMoves
    DEF BeginsRevealShare, BeginsRevokeShare, RevealDocumentShare, RevokeDocumentShare,
        ShareKinds
  <1>3. CASE BeginsVisit(c)
    BY <1>3, FreeIsNone, EnterMoves DEF BeginsVisit, Visit, ShareKinds, AnonymousKinds
  <1>4. CASE SharePasswordHashed(c) \/ CommitReveal(c) \/ UnlockPublicDocumentShare(c)
               \/ RecordPublicDocumentShareAccess(c)
    BY <1>4, LeaveMoves, GoMoves DEF SharePasswordHashed, CommitReveal,
       UnlockPublicDocumentShare, RecordPublicDocumentShareAccess, At, ShareKinds, AnonymousKinds
  <1>5. CASE SaveNewShare(c) \/ ShowSecret(c) \/ CommitRevoke(c) \/ SendAnswer(c)
               \/ SignDocumentShareUnlockProof(c) \/ WrongPassword(c)
    BY <1>5, LeaveMoves DEF SaveNewShare, ShowSecret, CommitRevoke, SendAnswer,
       SignDocumentShareUnlockProof, WrongPassword, At, ShareKinds, AnonymousKinds
  <1>6. CASE LoadPublicDocumentShareSnapshot(c)
    <2>0. PICK seen :
            Enter(c, [call[c] EXCEPT !.step = ReadOrder[call[c].step], !.seen = seen])
      BY <1>6, Zenon DEF LoadPublicDocumentShareSnapshot
    <2> DEFINE r == [call[c] EXCEPT !.step = ReadOrder[call[c].step], !.seen = seen]
    <2>1. Enter(c, r) /\ call[c].kind \in ShareKinds
      BY <1>6, <2>0 DEF LoadPublicDocumentShareSnapshot, ShareKinds, AnonymousKinds
    <2>2. r.kind = call[c].kind /\ DOMAIN r = DOMAIN call[c]
      BY DEF Formed
    <2> HIDE DEF r
    <2> QED BY <2>1, <2>2, EnterMoves DEF Formed
  <1>7. CASE AuthorizePublicShare(c)
    <2> DEFINE r == [call[c] EXCEPT !.step = "admitted", !.shown = Answer(call[c])]
    <2>1. (Enter(c, r) \/ Leave(c)) /\ call[c].kind \in ShareKinds
      BY <1>7 DEF AuthorizePublicShare, At, ShareKinds, AnonymousKinds
    <2>2. r.kind = call[c].kind /\ DOMAIN r = DOMAIN call[c]
      BY DEF Formed
    <2> HIDE DEF r
    <2> QED BY <2>1, <2>2, EnterMoves, LeaveMoves DEF Formed
  <1> QED BY <1>1, <1>2, <1>3, <1>4, <1>5, <1>6, <1>7, <1>8

LEMMA RotationStepsMove ==
    ASSUME Formed, RotationNext
    PROVE  Moves({"rotate"})
  <1>1. PICK c \in Clients : RotateCiphertexts(c) \/ SaveRotation(c)
    BY DEF RotationNext
  <1>2. CASE RotateCiphertexts(c)
    BY <1>2, FreeIsNone, EnterMoves DEF RotateCiphertexts
  <1>3. CASE SaveRotation(c)
    BY <1>3, LeaveMoves DEF SaveRotation, At
  <1> QED BY <1>1, <1>2, <1>3

Plans(c) == \E kind \in LibraryKinds : \E u, d, b, new, ds, bs :
                Free(c, kind) /\ Plan(c, kind, u, d, b, new, ds, bs)

LEMMA LibrarySteps ==
    ASSUME LibraryNext
    PROVE  \E c \in Clients : Plans(c) \/ SaveLibrary(c)
  <1>1. PICK c \in Clients :
       \/ /\ Free(c, "createFolder")
          /\ \E u \in Users, parent \in folders \cup {Root}, name \in Names :
                CreateDocumentFolder(c, u, parent, name)
       \/ /\ Free(c, "createDocument")
          /\ \E u \in Users, d \in FreshDocuments, name \in DocumentNames, place \in FirstPlaces :
                CreateDocumentWithLocation(c, u, d, name, place)
       \/ \E u \in Users, d \in RowsOf(documents) :
            \/ /\ Free(c, "updateDocument")
               /\ \E name \in DocumentNames, place \in NewPlaces(documents[d]) :
                     UpdateDocument(c, u, d, name, place)
            \/ Free(c, "archiveDocument") /\ ArchiveDocument(c, u, d)
            \/ /\ Free(c, "createBranch")
               /\ \E name \in BranchNames : CreateBranch(c, u, d, name)
            \/ /\ Free(c, "updateBranch")
               /\ \E b \in BranchesOf(d, branch) : UpdateBranch(c, u, d, b)
            \/ /\ Free(c, "archiveBranch")
               /\ \E b \in BranchesOf(d, branch) : ArchiveBranch(c, u, d, b)
       \/ SaveLibrary(c)
    BY DEF LibraryNext
  <1>2. ASSUME NEW u, NEW parent, NEW name, Free(c, "createFolder"),
               CreateDocumentFolder(c, u, parent, name)
        PROVE  Plans(c)
    BY <1>2, Zenon DEF CreateDocumentFolder, LibraryKinds, Plans
  <1>3. ASSUME NEW u, NEW d, NEW name, NEW place, Free(c, "createDocument"),
               CreateDocumentWithLocation(c, u, d, name, place)
        PROVE  Plans(c)
    BY <1>3, Zenon DEF CreateDocumentWithLocation, LibraryKinds, Plans
  <1>4. ASSUME NEW u, NEW d, NEW name, NEW place, Free(c, "updateDocument"),
               UpdateDocument(c, u, d, name, place)
        PROVE  Plans(c)
    BY <1>4, Zenon DEF UpdateDocument, LibraryKinds, Plans
  <1>5. ASSUME NEW u, NEW d, Free(c, "archiveDocument"), ArchiveDocument(c, u, d)
        PROVE  Plans(c)
    BY <1>5, Zenon DEF ArchiveDocument, LibraryKinds, Plans
  <1>6. ASSUME NEW u, NEW d, NEW name, Free(c, "createBranch"), CreateBranch(c, u, d, name)
        PROVE  Plans(c)
    BY <1>6, Zenon DEF CreateBranch, LibraryKinds, Plans
  <1>7. ASSUME NEW u, NEW d, NEW b, Free(c, "updateBranch"), UpdateBranch(c, u, d, b)
        PROVE  Plans(c)
    BY <1>7, Zenon DEF UpdateBranch, LibraryKinds, Plans
  <1>8. ASSUME NEW u, NEW d, NEW b, Free(c, "archiveBranch"), ArchiveBranch(c, u, d, b)
        PROVE  Plans(c)
    BY <1>8, Zenon DEF ArchiveBranch, LibraryKinds, Plans
  <1> QED BY <1>1, <1>2, <1>3, <1>4, <1>5, <1>6, <1>7, <1>8

LEMMA LibraryStepsMove ==
    ASSUME Formed, LibraryNext
    PROVE  Moves(LibraryKinds)
  <1>1. PICK c \in Clients : Plans(c) \/ SaveLibrary(c)
    BY LibrarySteps
  <1>2. CASE Plans(c)
    BY <1>2, FreeIsNone, EnterMoves DEF Plans, Plan
  <1>3. CASE SaveLibrary(c)
    BY <1>3, LeaveMoves DEF SaveLibrary, At
  <1> QED BY <1>1, <1>2, <1>3

BeginsChat(c) ==
    /\ Free(c, "chat")
    /\ \E u \in Users, s \in Sessions, mode \in AnswerModes : SendAIChatMessage(c, u, s, mode)
BeginsCreateChat(c) ==
    /\ Free(c, "createChat")
    /\ \E u \in Users, s \in Sessions, target \in Targets : CreateAIChatSession(c, u, s, target)
BeginsTest(c) ==
    Free(c, "testProvider") /\ \E u \in Users, owner \in Owners : TestAIProvider(c, u, owner)
BeginsConfigure(c) ==
    /\ Free(c, "configure")
    /\ \E u \in Users, owner \in Owners, part \in Parts, enabled \in BOOLEAN :
          Upsert(c, u, owner, part, enabled)
ReadsFinishReason(c) == \E reason \in {"stop", "length"} : ReadFinishReason(c, reason)

LEMMA ChatSteps ==
    ASSUME ChatNext
    PROVE  \E c \in Clients :
              \/ BeginsChat(c) \/ BeginsCreateChat(c) \/ BeginsTest(c) \/ BeginsConfigure(c)
              \/ SaveSession(c) \/ CommitSetting(c) \/ ProviderTested(c)
              \/ AuditAIProviderTest(c) \/ ShowTestResult(c)
              \/ ReserveAIChatGeneration(c) \/ RebuildAIChatRequest(c)
              \/ CancelAIChatRequest(c) \/ StorageFails(c)
              \/ ReadFragment(c) \/ ReadsFinishReason(c) \/ ReadLast(c) \/ BreakOff(c)
              \/ FinishAIChatMessage(c) \/ CompleteAIChatGeneration(c)
              \/ ReleaseAIChatRequest(c)
  BY DEF ChatNext, BeginsChat, BeginsCreateChat, BeginsTest, BeginsConfigure,
     ReadsFinishReason

LEMMA ChatStepsMove ==
    ASSUME Formed, ChatNext
    PROVE  Moves(ChatKinds)
  <1>1. PICK c \in Clients :
              \/ BeginsChat(c) \/ BeginsCreateChat(c) \/ BeginsTest(c) \/ BeginsConfigure(c)
              \/ SaveSession(c) \/ CommitSetting(c) \/ ProviderTested(c)
              \/ AuditAIProviderTest(c) \/ ShowTestResult(c)
              \/ ReserveAIChatGeneration(c) \/ RebuildAIChatRequest(c)
              \/ CancelAIChatRequest(c) \/ StorageFails(c)
              \/ ReadFragment(c) \/ ReadsFinishReason(c) \/ ReadLast(c) \/ BreakOff(c)
              \/ FinishAIChatMessage(c) \/ CompleteAIChatGeneration(c)
              \/ ReleaseAIChatRequest(c)
    BY ChatSteps
  <1>2. CASE BeginsChat(c)
    BY <1>2, FreeIsNone, EnterMoves DEF BeginsChat, SendAIChatMessage, ChatKinds
  <1>3. CASE BeginsCreateChat(c)
    BY <1>3, FreeIsNone, EnterMoves DEF BeginsCreateChat, CreateAIChatSession, ChatKinds
  <1>4. CASE BeginsTest(c)
    BY <1>4, FreeIsNone, EnterMoves DEF BeginsTest, TestAIProvider, ChatKinds
  <1>5. CASE BeginsConfigure(c)
    BY <1>5, FreeIsNone, EnterMoves DEF BeginsConfigure, Upsert, ChatKinds
  <1>6. CASE SaveSession(c) \/ CommitSetting(c) \/ ShowTestResult(c) \/ StorageFails(c)
               \/ ReleaseAIChatRequest(c)
    BY <1>6, LeaveMoves DEF SaveSession, CommitSetting, ShowTestResult, StorageFails,
       ReleaseAIChatRequest, At, ChatKinds
  <1>7. CASE ProviderTested(c) \/ AuditAIProviderTest(c) \/ CancelAIChatRequest(c)
               \/ BreakOff(c) \/ FinishAIChatMessage(c) \/ CompleteAIChatGeneration(c)
    BY <1>7, LeaveMoves, GoMoves DEF ProviderTested, AuditAIProviderTest,
       CancelAIChatRequest, BreakOff, FinishAIChatMessage, CompleteAIChatGeneration,
       At, ChatKinds
  <1>8. CASE ReserveAIChatGeneration(c) \/ RebuildAIChatRequest(c) \/ ReadFragment(c)
               \/ ReadsFinishReason(c) \/ ReadLast(c)
    <2>1. call[c].kind \in ChatKinds
      BY <1>8 DEF ReserveAIChatGeneration, RebuildAIChatRequest, ReadFragment,
         ReadsFinishReason, ReadFinishReason, ReadLast, At, ChatKinds
    <2>2. CASE ReserveAIChatGeneration(c)
      <3> DEFINE r == [call[c] EXCEPT !.step = "rebuilding", !.token = serial']
      <3>1. r.kind = call[c].kind /\ DOMAIN r = DOMAIN call[c]
        BY DEF Formed
      <3>2. Enter(c, r) \/ Leave(c)
        BY <2>2 DEF ReserveAIChatGeneration
      <3> QED BY <3>1, <3>2, <2>1, EnterMoves, LeaveMoves DEF Formed
    <2>3. CASE RebuildAIChatRequest(c)
      <3> DEFINE r == [call[c] EXCEPT !.step = "asking", !.asked = serial',
                         !.knew = Known(call[c].session),
                         !.basis = CurrentBasis(session[call[c].session].target)]
      <3>1. r.kind = call[c].kind /\ DOMAIN r = DOMAIN call[c]
        BY DEF Formed
      <3>2. Enter(c, r) \/ Go(c, "releasing")
        BY <2>3 DEF RebuildAIChatRequest
      <3> QED BY <3>1, <3>2, <2>1, EnterMoves, GoMoves DEF Formed
    <2>4. CASE ReadFragment(c)
      <3> DEFINE r == [call[c] EXCEPT !.heard = @ + 1, !.checked = now + 1]
      <3>1. r.kind = call[c].kind /\ DOMAIN r = DOMAIN call[c]
        BY DEF Formed
      <3>2. Enter(c, r) \/ Go(c, "finishing")
        BY <2>4 DEF ReadFragment
      <3> QED BY <3>1, <3>2, <2>1, EnterMoves, GoMoves DEF Formed
    <2>5. CASE ReadsFinishReason(c)
      <3>1. PICK reason \in {"stop", "length"} : ReadFinishReason(c, reason)
        BY <2>5 DEF ReadsFinishReason
      <3> DEFINE r == [call[c] EXCEPT !.ended = reason]
      <3>2. r.kind = call[c].kind /\ DOMAIN r = DOMAIN call[c]
        BY DEF Formed
      <3>3. Enter(c, r)
        BY <3>1 DEF ReadFinishReason
      <3> QED BY <3>2, <3>3, <2>1, EnterMoves DEF Formed
    <2>6. CASE ReadLast(c)
      <3> DEFINE r == [call[c] EXCEPT !.step = "finishing", !.answered = Complete(call[c])]
      <3>1. r.kind = call[c].kind /\ DOMAIN r = DOMAIN call[c]
        BY DEF Formed
      <3>2. Enter(c, r)
        BY <2>6 DEF ReadLast
      <3> QED BY <3>1, <3>2, <2>1, EnterMoves DEF Formed
    <2> QED BY <1>8, <2>2, <2>3, <2>4, <2>5, <2>6
  <1> QED BY <1>1, <1>2, <1>3, <1>4, <1>5, <1>6, <1>7, <1>8

-----------------------------------------------------------------------------
(* Tokens: the invariant                                                   *)

TokenTable == [Tokens -> TokenRow \cup {None}]

\* What a row has become since it was loaded: while its stamp is the same, so is
\* its lifecycle; owner and scopes never change.
TokenFollows(row, loaded) ==
    /\ row \in TokenRow
    /\ row.owner = loaded.owner /\ row.scopes = loaded.scopes
    /\ row.used >= loaded.used
    /\ row.stamp >= loaded.stamp
    /\ row.stamp = loaded.stamp => row.status = loaded.status
    /\ loaded.status = "revoked" => row.status = "revoked"

TokensFollow(loaded) ==
    /\ loaded \in TokenTable
    /\ \A t \in Tokens : loaded[t] # None => TokenFollows(token[t], loaded[t])

\* What a tool was found to match when its call went on.
Matched(r) ==
    IF r.tool = "listDocuments" THEN TRUE
    ELSE /\ r.tool \in DOMAIN ScopeOf /\ ScopeOf[r.tool] \in r.scopes
         /\ MatchedByTool(r.tool) => (textual <=> ForText(r.tool))

ToolCall ==
    [kind : {"mcp"}, step : {"authenticated", "matched", "ready", "done", "audited"},
     token : Tokens, tool : Tools, scopes : SUBSET AllScopes]
TokenCreation ==
    [kind : {"createToken"}, step : {"ready"}, actor : Users, token : Tokens,
     row : TokenRow]
TokenRevelation ==
    [kind : {"revealToken"}, step : {"ready", "revealed"}, actor : Users,
     loaded : TokenTable, token : Tokens]

TokenRequest(r) ==
    /\ r.kind = "createToken" =>
          r \in TokenCreation /\ r.row.used = 0 /\ token[r.token] = None
    /\ r.kind = "listTokens" => TokensFollow(r.loaded)
    /\ r.kind = "revokeToken" =>
          r.token \in Tokens /\ TokensFollow(r.loaded) /\ r.loaded[r.token] # None
    /\ r.kind = "revealToken" =>
          /\ r \in TokenRevelation
          /\ TokensFollow(r.loaded) /\ r.loaded[r.token] # None
          /\ r.actor = r.loaded[r.token].owner
    /\ r.kind = "rotate" => TokensFollow(r.tokens)
    /\ r.kind = "mcp" =>
          /\ r \in ToolCall
          /\ token[r.token] # None /\ token[r.token].scopes = r.scopes
          /\ r.step = "matched" => Matched(r)

TokenRows ==
    /\ token \in TokenTable
    /\ textual \in BOOLEAN
    /\ now \in Times
    /\ \A t \in Tokens : token[t] # None => token[t].used <= now + 1

TokenInvariant ==
    /\ Formed
    /\ TokenRows
    /\ \A c \in Clients : TokenRequest(call[c])
    /\ \A c, d \in Clients :
          c # d /\ call[c].kind = "createToken" /\ call[d].kind = "createToken" =>
              call[c].token # call[d].token

-----------------------------------------------------------------------------
(* Tokens: what every step does to the rows                                *)

TokensAdvance ==
    \A t \in Tokens : token[t] # None => TokenFollows(token'[t], token[t])

\* The next content of a row.
Supersedes(new, loaded) ==
    /\ new \in TokenRow
    /\ new.owner = loaded.owner /\ new.scopes = loaded.scopes /\ new.used = loaded.used
    /\ new.stamp = loaded.stamp + 1
    /\ loaded.status = "revoked" => new.status = "revoked"

LEMMA RowFollowsItself ==
    ASSUME NEW row \in TokenRow
    PROVE  TokenFollows(row, row)
  BY DEF TokenFollows, TokenRow

LEMMA SavedTokensAdvance ==
    ASSUME TokenRows, NEW loaded, TokensFollow(loaded), NEW changed, NEW K \in SUBSET Tokens,
           DOMAIN changed = K, Unchanged(loaded, K), SaveTokens(changed), now' = now,
           textual' = textual,
           \A t \in K : loaded[t] # None /\ Supersedes(changed[t], loaded[t])
    PROVE  /\ TokensAdvance /\ TokenRows'
           /\ \A t \in Tokens : token[t] = None => token'[t] = None
  <1>1. ASSUME NEW t \in K
        PROVE  /\ token[t] \in TokenRow
               /\ token'[t] \in TokenRow /\ TokenFollows(token'[t], token[t])
               /\ token'[t].used = token[t].used
    <2>1. /\ loaded[t] \in TokenRow /\ TokenFollows(token[t], loaded[t])
          /\ token[t].stamp = loaded[t].stamp
      BY <1>1 DEF TokensFollow, TokenTable, Unchanged
    <2>2. token'[t] = [changed[t] EXCEPT !.used = IF token[t].used > @ THEN token[t].used ELSE @]
      BY <1>1 DEF SaveTokens, SavedToken
    <2>3. Supersedes(changed[t], loaded[t])
      BY <1>1
    <2> QED BY <2>1, <2>2, <2>3 DEF Supersedes, TokenFollows, TokenRow
  <1>2. ASSUME NEW t \in Tokens \ K
        PROVE  token'[t] = token[t]
    BY DEF SaveTokens
  <1>3. token' = [t \in Tokens |-> token'[t]]
    BY DEF SaveTokens
  <1>4. TokensAdvance
    BY <1>1, <1>2, RowFollowsItself DEF TokensAdvance, TokenRows, TokenTable
  <1>5. TokenRows'
    <2>1. token' \in TokenTable
      BY <1>1, <1>2, <1>3 DEF TokenRows, TokenTable
    <2>2. \A t \in Tokens : token'[t] # None => token'[t].used <= now' + 1
      BY <1>1, <1>2, TokenNoneAssumption DEF TokenRows
    <2>3. textual' \in BOOLEAN /\ now' \in Times
      BY Zenon DEF TokenRows, Times
    <2> QED BY <2>1, <2>2, <2>3 DEF TokenRows
  <1>6. \A t \in Tokens : token[t] = None => token'[t] = None
    BY <1>1, <1>2, TokenNoneAssumption
  <1> QED BY <1>4, <1>5, <1>6

LEMMA UnchangedTokensAdvance ==
    ASSUME TokenRows, token' = token
    PROVE  TokensAdvance /\ \A t \in Tokens : token[t] = None => token'[t] = None
  BY RowFollowsItself DEF TokensAdvance, TokenRows, TokenTable

\* What was loaded is followed still.
LEMMA FollowingGoesOn ==
    ASSUME TokenRows, TokensAdvance, NEW loaded, TokensFollow(loaded)
    PROVE  /\ loaded \in TokenTable
           /\ \A t \in Tokens : loaded[t] # None => TokenFollows(token'[t], loaded[t])
  <1>1. ASSUME NEW t \in Tokens, loaded[t] # None
        PROVE  TokenFollows(token'[t], loaded[t])
    <2>1. /\ loaded[t] \in TokenRow /\ token[t] \in TokenRow
          /\ TokenFollows(token[t], loaded[t])
      BY <1>1 DEF TokensFollow, TokenFollows, TokenTable
    <2>2. TokenFollows(token'[t], token[t])
      BY <2>1, TokenNoneAssumption DEF TokensAdvance
    <2> QED BY <2>1, <2>2 DEF TokenFollows, TokenRow
  <1> QED BY <1>1 DEF TokensFollow

\* A request that does not move is as well formed as before, unless it creates a
\* token that another one has created.
LEMMA WaitingTokenRequest ==
    ASSUME TokenRows, TokenRows', TokensAdvance, textual' = textual, NEW r, TokenRequest(r),
           r.kind = "createToken" => token'[r.token] = None
    PROVE  TokenRequest(r)'
  <1>1. r.kind = "createToken" =>
            r \in TokenCreation /\ r.row.used = 0 /\ token'[r.token] = None
    BY DEF TokenRequest
  <1>2. r.kind = "listTokens" => TokensFollow(r.loaded)'
    BY FollowingGoesOn DEF TokenRequest, TokensFollow
  <1>3. r.kind = "revokeToken" => TokensFollow(r.loaded)'
    BY FollowingGoesOn DEF TokenRequest, TokensFollow
  <1>4. r.kind = "revealToken" => TokensFollow(r.loaded)'
    BY FollowingGoesOn DEF TokenRequest, TokensFollow
  <1>5. r.kind = "rotate" => TokensFollow(r.tokens)'
    BY FollowingGoesOn DEF TokenRequest, TokensFollow
  <1>6. ASSUME r.kind = "mcp"
        PROVE  /\ r \in ToolCall
               /\ token'[r.token] # None /\ token'[r.token].scopes = r.scopes
               /\ r.step = "matched" => Matched(r)'
    <2>1. r \in ToolCall /\ r.token \in Tokens /\ token[r.token] # None
      BY <1>6 DEF TokenRequest, ToolCall
    <2>2. TokenFollows(token'[r.token], token[r.token])
      BY <2>1 DEF TokensAdvance
    <2>3. Matched(r)' <=> Matched(r)
      BY DEF Matched
    <2> QED BY <1>6, <2>1, <2>2, <2>3, TokenNoneAssumption DEF TokenRequest, TokenFollows
  <1> QED BY <1>1, <1>2, <1>3, <1>4, <1>5, <1>6 DEF TokenRequest

LEMMA TokenInvariantKept ==
    ASSUME TokenInvariant, TokenRows', TokensAdvance, textual' = textual, Formed',
           NEW c \in Clients, \A d \in Clients \ {c} : call'[d] = call[d],
           TokenRequest(call[c])',
           \A t \in Tokens : token[t] = None /\ token'[t] # None =>
               call[c].kind = "createToken" /\ call[c].token = t,
           call'[c].kind = "createToken" =>
               \A d \in Clients : call[d].kind = "createToken" => call[d].token # call'[c].token
    PROVE  TokenInvariant'
  <1>1. ASSUME NEW d \in Clients \ {c}
        PROVE  TokenRequest(call[d])'
    <2>1. TokenRequest(call[d])
      BY DEF TokenInvariant
    <2>2. call[d].kind = "createToken" => token'[call[d].token] = None
      <3>1. call[d].kind = "createToken" =>
                call[d].token \in Tokens /\ token[call[d].token] = None
        BY <2>1 DEF TokenRequest, TokenCreation
      <3> QED BY <3>1 DEF TokenInvariant
    <2>3. TokenRows
      BY DEF TokenInvariant
    <2> QED BY <2>1, <2>2, <2>3, WaitingTokenRequest
  <1> QED BY <1>1 DEF TokenInvariant

\* A request that left.
LEMMA IdleIsWellFormed ==
    ASSUME NEW r, r.kind = "none"
    PROVE  TokenRequest(r)'
  BY DEF TokenRequest

LEMMA LoadedTokensFollow ==
    ASSUME TokenRows, TokensAdvance, NEW loaded, loaded = token
    PROVE  TokensFollow(loaded)'
  BY FollowingGoesOn, RowFollowsItself DEF TokensFollow, TokenRows, TokenTable

\* The steps of requests that change no row of a token.
LEMMA TokenStepsThatRead ==
    ASSUME TokenInvariant, NEW c \in Clients, UNCHANGED <<rows, token, textual>>,
           \/ BeginsCreateToken(c) \/ BeginsRevokeToken(c) \/ BeginsListTokens(c)
           \/ BeginsRevealToken(c) \/ ShowTokenSecret(c)
           \/ ExecuteAuthenticatedTool(c) \/ PrepareToolWrite(c) \/ ReadWithToken(c)
           \/ CommitToolWrite(c) \/ RecordMCPToolCall(c) \/ SendToolAnswer(c)
    PROVE  TokenInvariant'
  <1>0. /\ TokenRows' /\ TokensAdvance /\ textual' = textual
        /\ \A t \in Tokens : token[t] = None => token'[t] = None
        /\ TokenRows /\ Formed /\ TokenRequest(call[c])
    BY UnchangedTokensAdvance DEF TokenInvariant, TokenRows, rows
  <1>z. ASSUME NEW r, Enter(c, r), {"kind", "step"} \subseteq DOMAIN r, TokenRequest(r)',
               r.kind = "createToken" =>
               \A d \in Clients : call[d].kind = "createToken" => call[d].token # r.token
        PROVE  TokenInvariant'
    <2>1. call'[c] = r /\ (\A d \in Clients \ {c} : call'[d] = call[d]) /\ Formed'
      BY <1>z, <1>0, Entered, EnteredIsFormed
    <2> QED BY <1>0, <1>z, <2>1, TokenInvariantKept
  <1>y. ASSUME NEW s \in {"matched", "ready", "done", "audited"}, Go(c, s),
               call[c].kind = "mcp", s = "matched" => Matched(call[c])
        PROVE  TokenInvariant'
    <2>1. PICK r : r = [call[c] EXCEPT !.step = s]
      OBVIOUS
    <2>2. /\ call[c] \in ToolCall
          /\ token[call[c].token] # None /\ token[call[c].token].scopes = call[c].scopes
      BY <1>y, <1>0 DEF TokenRequest
    <2>3. /\ r \in ToolCall /\ r.step = s /\ r.kind = "mcp"
          /\ r.token = call[c].token /\ r.scopes = call[c].scopes /\ r.tool = call[c].tool
          /\ {"kind", "step"} \subseteq DOMAIN r
      BY <2>1, <2>2 DEF ToolCall
    <2>4. s = "matched" => Matched(r)'
      BY <1>y, <1>0, <2>3 DEF Matched
    <2>5. TokenRequest(r)'
      BY <2>2, <2>3, <2>4 DEF TokenRequest
    <2>6. Enter(c, r)
      BY <1>y, <1>0, <2>1, Gone
    <2> QED BY <2>3, <2>5, <2>6, <1>z
  <1>x. ASSUME Leave(c)
        PROVE  TokenInvariant'
    BY <1>x, <1>0, Left, IdleIsWellFormed, TokenInvariantKept
  <1>1. CASE BeginsCreateToken(c)
    <2>1. PICK t \in Tokens, u \in Users, scopes \in Grants, expires \in 1 .. Eternal :
             CreateMCPToken(c, u, t, scopes, expires)
      BY <1>1 DEF BeginsCreateToken
    <2> DEFINE row == [owner |-> u, scopes |-> scopes, expires |-> expires,
                       status |-> "active", used |-> 0, sealed |-> "old", stamp |-> 1]
               r == [kind |-> "createToken", step |-> "ready", actor |-> u, token |-> t,
                     row |-> row]
    <2>2. row \in TokenRow
      BY GrantsAssumption DEF TokenRow, AllScopes
    <2>3. /\ Enter(c, r) /\ token[t] = None
          /\ \A d \in Clients : call[d].kind = "createToken" => call[d].token # t
      BY <2>1 DEF CreateMCPToken, UnusedToken
    <2>4. r \in TokenCreation /\ r.kind = "createToken" /\ r.token = t
          /\ r.row.used = 0 /\ {"kind", "step"} \subseteq DOMAIN r
      BY <2>2 DEF TokenCreation
    <2> HIDE DEF row, r
    <2>5. TokenRequest(r)'
      BY <2>3, <2>4, <1>0 DEF TokenRequest
    <2> QED BY <2>3, <2>4, <2>5, <1>z
  <1>2. CASE BeginsRevokeToken(c)
    <2>1. PICK t \in Tokens, u \in Users : RevokeMCPToken(c, u, t)
      BY <1>2 DEF BeginsRevokeToken
    <2>2. PICK r : r = [kind |-> "revokeToken", step |-> "ready", actor |-> u,
                     loaded |-> token, token |-> t]
      OBVIOUS
    <2>3. Enter(c, r) /\ token[t] # None
      BY <2>1, <2>2 DEF RevokeMCPToken
    <2>4. /\ r.kind = "revokeToken" /\ r.loaded = token /\ r.token = t
          /\ {"kind", "step"} \subseteq DOMAIN r
      BY <2>2
    <2>5. TokensFollow(r.loaded)'
      BY <1>0, <2>4, LoadedTokensFollow
    <2>6. TokenRequest(r)'
      BY <2>3, <2>4, <2>5 DEF TokenRequest
    <2> QED BY <2>3, <2>4, <2>6, <1>z
  <1>3. CASE BeginsListTokens(c)
    <2>1. PICK u \in Users : ListMCPTokens(c, u)
      BY <1>3 DEF BeginsListTokens
    <2>2. PICK r : r = [kind |-> "listTokens", step |-> "ready", actor |-> u,
                        loaded |-> token, token |-> None]
      OBVIOUS
    <2>3. Enter(c, r)
      BY <2>1, <2>2 DEF ListMCPTokens
    <2>4. /\ r.kind = "listTokens" /\ r.loaded = token
          /\ {"kind", "step"} \subseteq DOMAIN r
      BY <2>2
    <2>5. TokensFollow(r.loaded)'
      BY <1>0, <2>4, LoadedTokensFollow
    <2>6. TokenRequest(r)'
      BY <2>4, <2>5 DEF TokenRequest
    <2> QED BY <2>3, <2>4, <2>6, <1>z
  <1>4. CASE BeginsRevealToken(c)
    <2>1. PICK t \in Tokens : MCPToken(c, t)
      BY <1>4 DEF BeginsRevealToken
    <2>2. PICK r : r = [kind |-> "revealToken", step |-> "ready", actor |-> token[t].owner,
                        loaded |-> token, token |-> t]
      OBVIOUS
    <2>3. Enter(c, r) /\ token[t] # None
      BY <2>1, <2>2 DEF MCPToken
    <2>4. token[t] \in TokenRow /\ token \in TokenTable
      BY <2>3, <1>0 DEF TokenRows, TokenTable
    <2>5. /\ r \in TokenRevelation
          /\ r.kind = "revealToken" /\ r.loaded = token /\ r.token = t
          /\ r.actor = token[t].owner /\ {"kind", "step"} \subseteq DOMAIN r
      BY <2>2, <2>4 DEF TokenRevelation, TokenRow
    <2>6. TokensFollow(r.loaded)'
      BY <1>0, <2>5, LoadedTokensFollow
    <2>7. TokenRequest(r)'
      BY <2>3, <2>5, <2>6 DEF TokenRequest
    <2> QED BY <2>3, <2>5, <2>7, <1>z
  <1>5. CASE ShowTokenSecret(c) \/ SendToolAnswer(c)
    BY <1>5, <1>x DEF ShowTokenSecret, SendToolAnswer
  <1>6. CASE ExecuteAuthenticatedTool(c)
    <2>1. call[c] \in ToolCall
      BY <1>6, <1>0 DEF ExecuteAuthenticatedTool, At, TokenRequest
    <2>2. Leave(c) \/ (Go(c, "matched") /\ Matched(call[c]))
      BY <1>6, <2>1 DEF ExecuteAuthenticatedTool, Matched, EnsureMCPDocumentType, ForText,
         ScopeOf
    <2> QED BY <2>2, <1>6, <1>x, <1>y DEF ExecuteAuthenticatedTool, At
  <1>7. CASE PrepareToolWrite(c) \/ ReadWithToken(c) \/ CommitToolWrite(c)
               \/ RecordMCPToolCall(c)
    BY <1>7, <1>x, <1>y DEF PrepareToolWrite, ReadWithToken, CommitToolWrite,
       RecordMCPToolCall, At
  <1> QED BY <1>1, <1>2, <1>3, <1>4, <1>5, <1>6, <1>7

LEMMA ExpiredSupersedes ==
    ASSUME NEW row \in TokenRow, ExpireIfNeeded(row) # row
    PROVE  row.status = "active" /\ now >= row.expires /\ Supersedes(ExpireIfNeeded(row), row)
  <1>1. /\ row.status = "active" /\ now >= row.expires
        /\ ExpireIfNeeded(row) = [row EXCEPT !.status = "expired", !.stamp = row.stamp + 1]
    BY DEF ExpireIfNeeded
  <1>2. row.stamp + 1 \in Nat /\ "expired" \in {"active", "expired", "revoked"}
    BY DEF TokenRow
  <1>3. ExpireIfNeeded(row) \in TokenRow
    BY <1>1, <1>2 DEF TokenRow
  <1> QED BY <1>1, <1>3 DEF Supersedes, TokenRow

LEMMA WithdrawnSupersedes ==
    ASSUME NEW row \in TokenRow
    PROVE  Supersedes(Withdrawn(row), row)
  <1>1. row.stamp + 1 \in Nat /\ "revoked" \in {"active", "expired", "revoked"}
    BY DEF TokenRow
  <1> QED BY <1>1 DEF Withdrawn, Supersedes, TokenRow

LEMMA ResealedSupersedes ==
    ASSUME NEW row \in TokenRow
    PROVE  Supersedes(Resealed(row), row)
  <1>1. row.stamp + 1 \in Nat /\ "new" \in {"old", "new"}
    BY DEF TokenRow
  <1> QED BY <1>1 DEF Resealed, Supersedes, TokenRow

LEMMA NoneDoesNotExpire == ExpireIfNeeded(None) = None
  BY DEF ExpireIfNeeded

\* The steps of requests that save rows of tokens.
LEMMA TokenStepsThatSave ==
    ASSUME TokenInvariant, NEW c \in Clients, UNCHANGED rows, textual' = textual,
           \/ SaveNewToken(c) \/ SaveExpired(c) \/ CommitTokenReveal(c)
           \/ SaveRevokedToken(c) \/ BeginsToolCall(c) \/ SaveRotation(c)
    PROVE  TokenInvariant' /\ TokensAdvance
  <1>0. TokenRows /\ Formed /\ TokenRequest(call[c]) /\ now' = now
    BY DEF TokenInvariant, rows
  <1> DEFINE Saved == /\ TokenRows' /\ TokensAdvance
                      /\ \A t \in Tokens : token[t] = None => token'[t] = None
  <1>k. token' = token => Saved
    <2>1. token' = token => TokenRows'
      BY <1>0, Zenon DEF TokenRows
    <2> QED BY <2>1, <1>0, UnchangedTokensAdvance
  <1>l. ASSUME Saved, Leave(c)
        PROVE  TokenInvariant'
    BY <1>l, <1>0, Left, IdleIsWellFormed, TokenInvariantKept
  <1>1. CASE SaveExpired(c)
    <2> DEFINE loaded == call[c].loaded
               changed == [t \in Expiring(loaded) |-> ExpireIfNeeded(loaded[t])]
    <2>1. TokensFollow(loaded) /\ Leave(c)
      BY <1>1, <1>0 DEF SaveExpired, At, TokenRequest
    <2>2. \A t \in Expiring(loaded) :
              t \in Tokens /\ loaded[t] # None /\ Supersedes(changed[t], loaded[t])
      BY <2>1, ExpiredSupersedes, NoneDoesNotExpire
      DEF Expiring, TokensFollow, TokenTable
    <2>3. CASE Unchanged(loaded, Expiring(loaded))
      <3>1. SaveTokens(changed)
        BY <1>1, <2>3 DEF SaveExpired
      <3>2. DOMAIN changed = Expiring(loaded) /\ Expiring(loaded) \in SUBSET Tokens
        BY DEF Expiring
      <3> HIDE DEF loaded, changed
      <3> QED BY <1>0, <1>l, <2>1, <2>2, <2>3, <3>1, <3>2, SavedTokensAdvance
    <2>4. CASE ~Unchanged(loaded, Expiring(loaded))
      BY <1>1, <1>k, <1>l, <2>1, <2>4 DEF SaveExpired
    <2> QED BY <2>3, <2>4
  <1>2. CASE SaveRevokedToken(c)
    <2> DEFINE loaded == call[c].loaded
               t == call[c].token
               changed == [x \in {t} |-> Withdrawn(loaded[x])]
    <2>1. TokensFollow(loaded) /\ Leave(c) /\ t \in Tokens /\ loaded[t] # None
      BY <1>2, <1>0 DEF SaveRevokedToken, At, TokenRequest
    <2>2. \A x \in {t} : loaded[x] # None /\ Supersedes(changed[x], loaded[x])
      BY <2>1, WithdrawnSupersedes DEF TokensFollow, TokenTable
    <2>3. CASE SaveTokens(changed) /\ Unchanged(loaded, {t})
      <3>1. DOMAIN changed = {t} /\ {t} \in SUBSET Tokens
        BY <2>1
      <3> HIDE DEF loaded, changed, t
      <3> QED BY <1>0, <1>l, <2>1, <2>2, <2>3, <3>1, SavedTokensAdvance
    <2>4. CASE token' = token
      BY <1>k, <1>l, <2>1, <2>4
    <2> QED BY <1>2, <2>3, <2>4 DEF SaveRevokedToken
  <1>3. CASE CommitTokenReveal(c)
    <2>1. PICK r : r = call[c]
      OBVIOUS
    <2> DEFINE loaded == r.loaded
               K == Expiring(loaded) \cap {r.token}
               changed == [x \in K |-> ExpireIfNeeded(loaded[x])]
    <2>2. /\ r \in TokenRevelation /\ r.kind = "revealToken"
          /\ TokensFollow(loaded) /\ loaded[r.token] # None
          /\ r.actor = loaded[r.token].owner
      BY <1>3, <1>0, <2>1 DEF CommitTokenReveal, At, TokenRequest
    <2>3. \A t \in K : t \in Tokens /\ loaded[t] # None /\ Supersedes(changed[t], loaded[t])
      BY <2>2, ExpiredSupersedes, NoneDoesNotExpire
      DEF Expiring, TokensFollow, TokenTable
    <2>4. \/ SaveTokens(changed) /\ Unchanged(loaded, K) /\ (Go(c, "revealed") \/ Leave(c))
          \/ token' = token /\ Leave(c)
      BY <1>3, <2>1 DEF CommitTokenReveal
    <2>5. Saved
      <3>1. DOMAIN changed = K /\ K \in SUBSET Tokens
        BY DEF Expiring
      <3> HIDE DEF loaded, K, changed
      <3> QED BY <1>0, <1>k, <2>2, <2>3, <2>4, <3>1, SavedTokensAdvance
    <2>6. CASE Go(c, "revealed")
      <3>1. PICK q : q = [r EXCEPT !.step = "revealed"]
        OBVIOUS
      <3>2. /\ q \in TokenRevelation /\ q.kind = "revealToken"
            /\ q.loaded = loaded /\ q.token = r.token /\ q.actor = r.actor
            /\ {"kind", "step"} \subseteq DOMAIN q
        BY <2>2, <3>1 DEF TokenRevelation
      <3>3. TokensFollow(loaded)'
        BY <1>0, <2>2, <2>5, FollowingGoesOn DEF TokensFollow
      <3>4. TokenRequest(q)'
        BY <2>2, <3>2, <3>3 DEF TokenRequest
      <3>5. call'[c] = q /\ (\A d \in Clients \ {c} : call'[d] = call[d]) /\ Formed'
        BY <1>0, <2>1, <2>6, <3>1, Gone
      <3> QED BY <2>5, <3>2, <3>4, <3>5, TokenInvariantKept
    <2> QED BY <1>l, <2>4, <2>5, <2>6
  <1>4. CASE SaveRotation(c)
    <2> DEFINE loaded == call[c].tokens
               changed == [t \in Stale(loaded) |-> Resealed(loaded[t])]
    <2>1. TokensFollow(loaded) /\ Leave(c)
      BY <1>4, <1>0 DEF SaveRotation, At, TokenRequest
    <2>2. \A t \in Stale(loaded) :
              t \in Tokens /\ loaded[t] # None /\ Supersedes(changed[t], loaded[t])
      BY <2>1, ResealedSupersedes DEF Stale, TokensFollow, TokenTable
    <2>3. CASE LoadedIsCurrent(call[c])
      <3>1. SaveTokens(changed) /\ Unchanged(loaded, Stale(loaded))
        BY <1>4, <2>3 DEF SaveRotation, LoadedIsCurrent, Unchanged
      <3>2. DOMAIN changed = Stale(loaded) /\ Stale(loaded) \in SUBSET Tokens
        BY <2>2
      <3> HIDE DEF loaded, changed
      <3> QED BY <1>0, <1>l, <2>1, <2>2, <3>1, <3>2, SavedTokensAdvance
    <2>4. CASE ~LoadedIsCurrent(call[c])
      BY <1>4, <1>k, <1>l, <2>1, <2>4 DEF SaveRotation
    <2> QED BY <2>3, <2>4
  <1>5. CASE SaveNewToken(c)
    <2>1. PICK r : r = call[c]
      OBVIOUS
    <2>2. /\ r \in TokenCreation /\ r.row.used = 0 /\ r.kind = "createToken"
          /\ token[r.token] = None /\ Leave(c)
          /\ token' = [token EXCEPT ![r.token] = r.row] \/ token' = token
      BY <1>5, <1>0, <2>1 DEF SaveNewToken, At, TokenRequest
    <2>3. CASE token' = token
      BY <2>2, <2>3, <1>k, <1>l
    <2>4. CASE token' = [token EXCEPT ![r.token] = r.row]
      <3>1. r.row \in TokenRow /\ r.token \in Tokens
        BY <2>2 DEF TokenCreation
      <3>2. token' \in TokenTable
        BY <1>0, <2>4, <3>1 DEF TokenRows, TokenTable
      <3>3. \A t \in Tokens : IF t = r.token THEN token'[t] = r.row ELSE token'[t] = token[t]
        BY <1>0, <2>4, <3>1 DEF TokenRows, TokenTable
      <3>4. TokensAdvance
        BY <1>0, <2>2, <3>3, RowFollowsItself DEF TokensAdvance, TokenRows, TokenTable
      <3>5. TokenRows'
        <4>1. \A t \in Tokens : token'[t] # None => token'[t].used <= now' + 1
          BY <1>0, <2>2, <3>3 DEF TokenRows, Times
        <4>2. textual' \in BOOLEAN /\ now' \in Times
          BY <1>0, Zenon DEF TokenRows
        <4> QED BY <3>2, <4>1, <4>2 DEF TokenRows
      <3>6. TokenInvariant'
        BY <1>0, <2>1, <2>2, <3>3, <3>4, <3>5, Left, IdleIsWellFormed, TokenInvariantKept
      <3> QED BY <3>4, <3>6
    <2> QED BY <2>2, <2>3, <2>4
  <1>6. CASE BeginsToolCall(c)
    <2>1. PICK t \in Tokens, tool \in Tools : AuthenticateMCPToken(c, t, tool)
      BY <1>6 DEF BeginsToolCall
    <2>2. call[c].kind = "none" /\ token[t] \in TokenRow /\ token[t] # None
          /\ token = [x \in Tokens |-> token[x]]
      BY <1>6, <1>0, <2>1, FreeIsNone
      DEF BeginsToolCall, AuthenticateMCPToken, TokenRows, TokenTable
    <2>3. PICK new \in TokenRow :
            /\ token' = [token EXCEPT ![t] = new]
            /\ TokenFollows(new, token[t]) /\ new.used <= now + 1
            /\ \/ /\ Usable(token[t]) /\ IsActive(token[t].owner)
                  /\ Enter(c, [kind |-> "mcp", step |-> "authenticated", token |-> t,
                               tool |-> tool, scopes |-> token[t].scopes])
               \/ UNCHANGED call
      <3>1. CASE /\ Usable(token[t])
                 /\ IsActive(ExpireIfNeeded(token[t]).owner)
                 /\ token' = [token EXCEPT ![t].used = now + 1]
                 /\ Enter(c, [kind |-> "mcp", step |-> "authenticated", token |-> t,
                              tool |-> tool, scopes |-> ExpireIfNeeded(token[t]).scopes])
        <4>1. ExpireIfNeeded(token[t]) = token[t]
          BY <3>1, <2>2, <1>0, WorkspaceAssumption
          DEF Usable, ExpireIfNeeded, TokenRow, TokenRows, Times, Eternal
        <4>2. PICK new : new = [token[t] EXCEPT !.used = now + 1]
          OBVIOUS
        <4>3. now + 1 \in {0} \cup 1 .. Eternal
          BY <1>0, WorkspaceAssumption DEF TokenRows, Times, Eternal
        <4>4. token[t].used <= now + 1 /\ now + 1 \in Int /\ token[t].used \in Int
          BY <1>0, <2>2, WorkspaceAssumption DEF TokenRows, TokenRow, Times, Eternal
        <4>5. new \in TokenRow /\ new.used = now + 1 /\ TokenFollows(new, token[t])
          BY <2>2, <4>2, <4>3, <4>4 DEF TokenRow, TokenFollows
        <4>6. token' = [token EXCEPT ![t] = new]
          BY <3>1, <4>2
        <4>7. new.used <= now + 1
          BY <4>4, <4>5
        <4>8. /\ Usable(token[t]) /\ IsActive(token[t].owner)
              /\ Enter(c, [kind |-> "mcp", step |-> "authenticated", token |-> t,
                           tool |-> tool, scopes |-> token[t].scopes])
          BY <3>1, <4>1
        <4> QED BY <4>5, <4>6, <4>7, <4>8
      <3>2. CASE /\ ExpireIfNeeded(token[t]) # token[t]
                 /\ token' = [token EXCEPT ![t] = ExpireIfNeeded(token[t])]
                 /\ UNCHANGED call
        <4>1. Supersedes(ExpireIfNeeded(token[t]), token[t])
          BY <2>2, <3>2, ExpiredSupersedes
        <4>2. /\ ExpireIfNeeded(token[t]) \in TokenRow
              /\ TokenFollows(ExpireIfNeeded(token[t]), token[t])
              /\ ExpireIfNeeded(token[t]).used = token[t].used
          BY <2>2, <4>1 DEF Supersedes, TokenFollows, TokenRow
        <4> QED BY <1>0, <2>2, <3>2, <4>2 DEF TokenRows
      <3> QED BY <2>1, <3>1, <3>2 DEF AuthenticateMCPToken
    <2>4. \A x \in Tokens : IF x = t THEN token'[x] = new ELSE token'[x] = token[x]
      BY <2>2, <2>3
    <2>5. TokensAdvance
      BY <1>0, <2>3, <2>4, RowFollowsItself DEF TokensAdvance, TokenRows, TokenTable
    <2>6. TokenRows'
      <3>1. token' \in TokenTable
        BY <1>0, <2>3 DEF TokenRows, TokenTable
      <3>2. \A x \in Tokens : token'[x] # None => token'[x].used <= now' + 1
        BY <1>0, <2>3, <2>4 DEF TokenRows
      <3>3. textual' \in BOOLEAN /\ now' \in Times
        BY <1>0, Zenon DEF TokenRows
      <3> QED BY <3>1, <3>2, <3>3 DEF TokenRows
    <2>7. \A x \in Tokens : token[x] = None => token'[x] = None
      BY <2>2, <2>4
    <2>8. CASE UNCHANGED call
      <3>1. call'[c].kind = "none" /\ Formed'
        BY <1>0, <2>2, <2>8 DEF Formed
      <3> QED BY <1>0, <2>5, <2>6, <2>7, <2>8, <3>1, IdleIsWellFormed, TokenInvariantKept
    <2>9. CASE Enter(c, [kind |-> "mcp", step |-> "authenticated", token |-> t,
                         tool |-> tool, scopes |-> token[t].scopes])
      <3>1. PICK r : r = [kind |-> "mcp", step |-> "authenticated", token |-> t,
                         tool |-> tool, scopes |-> token[t].scopes]
        OBVIOUS
      <3>2. /\ r \in ToolCall /\ r.kind = "mcp" /\ r.step = "authenticated"
            /\ r.token = t /\ r.scopes = token[t].scopes /\ {"kind", "step"} \subseteq DOMAIN r
        BY <2>2, <3>1 DEF ToolCall, TokenRow
      <3>3. TokenRequest(r)'
        BY <2>2, <2>3, <2>4, <3>2, TokenNoneAssumption DEF TokenRequest, TokenFollows
      <3>4. call'[c] = r /\ (\A d \in Clients \ {c} : call'[d] = call[d]) /\ Formed'
        BY <1>0, <2>9, <3>1, <3>2, Entered, EnteredIsFormed
      <3> QED BY <1>0, <2>5, <2>6, <2>7, <3>2, <3>3, <3>4, TokenInvariantKept
    <2> QED BY <2>3, <2>5, <2>8, <2>9
  <1> QED BY <1>1, <1>2, <1>3, <1>4, <1>5, <1>6

-----------------------------------------------------------------------------
(* Tokens: every step                                                      *)

LEMMA EventsMoveTime ==
    ASSUME WorkspaceEvent, now \in Times
    PROVE  /\ now' \in Times /\ now' >= now /\ UNCHANGED <<call, workload>>
           /\ archived \subseteq archived'
  BY WorkspaceAssumption
  DEF WorkspaceEvent, SwitchAccount, ChangeRole, Archive, Publish, Tick, Event, Times

LEMMA TimePassesForTokens ==
    ASSUME TokenInvariant, UNCHANGED <<token, textual>>, now' \in Times, now' >= now
    PROVE  /\ TokenRows' /\ TokensAdvance
           /\ \A t \in Tokens : token[t] = None => token'[t] = None
  <1>1. \A t \in Tokens : token[t] # None => token[t].used <= now + 1 /\ token[t] \in TokenRow
    BY DEF TokenInvariant, TokenRows, TokenTable
  <1>2. \A t \in Tokens : token'[t] # None => token'[t].used <= now' + 1
    BY <1>1, WorkspaceAssumption DEF TokenInvariant, TokenRows, TokenRow, Times, Eternal
  <1>3. token' \in TokenTable /\ textual' \in BOOLEAN
    BY Zenon DEF TokenInvariant, TokenRows
  <1>4. TokenRows'
    BY <1>2, <1>3 DEF TokenRows
  <1> QED BY <1>4, UnchangedTokensAdvance DEF TokenInvariant

\* An event.
LEMMA EventsKeepTokens ==
    ASSUME TokenInvariant, UNCHANGED <<call, token, textual>>, now' \in Times, now' >= now
    PROVE  TokenInvariant' /\ TokensAdvance
  <1>1. Formed'
    BY DEF TokenInvariant, Formed
  <1>2. TokenRows' /\ TokensAdvance
    BY TimePassesForTokens
  <1>3. ASSUME NEW d \in Clients
        PROVE  TokenRequest(call[d])'
    <2>1. TokenRequest(call[d]) /\ TokenRows
      BY DEF TokenInvariant
    <2>2. call[d].kind = "createToken" => token'[call[d].token] = None
      BY <2>1 DEF TokenRequest
    <2> QED BY <1>2, <2>1, <2>2, WaitingTokenRequest
  <1> QED BY <1>1, <1>2, <1>3 DEF TokenInvariant

\* A step of requests that have nothing to do with tokens.
LEMMA OthersKeepTokens ==
    ASSUME TokenInvariant, UNCHANGED <<token, textual>>, now' = now,
           NEW kinds, Moves(kinds), kinds \cap (TokenKinds \cup {"rotate"}) = {}
    PROVE  TokenInvariant' /\ TokensAdvance
  <1>1. /\ TokenRows' /\ TokensAdvance
        /\ \A t \in Tokens : token[t] = None => token'[t] = None
    BY TimePassesForTokens, WorkspaceAssumption DEF TokenInvariant, TokenRows, Times
  <1>2. PICK c \in Clients : /\ call'[c].kind \in kinds \cup {"none"}
                             /\ \A d \in Clients \ {c} : call'[d] = call[d]
    BY DEF Moves
  <1>3. /\ call'[c].kind \notin {"createToken", "listTokens", "revokeToken",
                                 "revealToken", "rotate", "mcp"}
        /\ Formed'
    BY <1>2 DEF TokenKinds, Moves
  <1>4. TokenRequest(call[c])'
    BY <1>3 DEF TokenRequest
  <1> QED BY <1>1, <1>2, <1>3, <1>4, TokenInvariantKept

LEMMA KindsApart ==
    /\ ShareKinds \cap (TokenKinds \cup {"rotate"}) = {}
    /\ ChatKinds \cap (TokenKinds \cup {"rotate"}) = {}
    /\ LibraryKinds \cap (TokenKinds \cup {"rotate"}) = {}
    /\ ShareKinds \cap ChatKinds = {} /\ ShareKinds \cap LibraryKinds = {}
    /\ LibraryKinds \cap ChatKinds = {}
    /\ "none" \notin ShareKinds \cup TokenKinds \cup ChatKinds \cup LibraryKinds
  BY DEF ShareKinds, AnonymousKinds, ReadKinds, TokenKinds, ChatKinds, LibraryKinds

\* Requests change no row of the workspace.
LEMMA SharesLeaveRows ==
    ASSUME ShareNext
    PROVE  UNCHANGED rows
  <1>1. PICK c \in Clients :
              \/ BeginsCreateShare(c) \/ BeginsRevealShare(c) \/ BeginsRevokeShare(c)
              \/ BeginsVisit(c)
              \/ SharePasswordHashed(c) \/ SaveNewShare(c)
              \/ CommitReveal(c) \/ ShowSecret(c) \/ CommitRevoke(c)
              \/ LoadPublicDocumentShareSnapshot(c) \/ AuthorizePublicShare(c)
              \/ RecordPublicDocumentShareAccess(c) \/ SendAnswer(c)
              \/ UnlockPublicDocumentShare(c) \/ SignDocumentShareUnlockProof(c)
              \/ WrongPassword(c)
    BY ShareSteps
  <1>2. CASE BeginsCreateShare(c) \/ BeginsRevealShare(c) \/ BeginsRevokeShare(c)
               \/ BeginsVisit(c)
    BY <1>2, Zenon DEF BeginsCreateShare, BeginsRevealShare, BeginsRevokeShare, BeginsVisit,
       CreateDocumentShare, RevealDocumentShare, RevokeDocumentShare, Visit
  <1>3. CASE SharePasswordHashed(c) \/ SaveNewShare(c)
              \/ CommitReveal(c) \/ ShowSecret(c) \/ CommitRevoke(c)
              \/ LoadPublicDocumentShareSnapshot(c) \/ AuthorizePublicShare(c)
              \/ RecordPublicDocumentShareAccess(c) \/ SendAnswer(c)
              \/ UnlockPublicDocumentShare(c) \/ SignDocumentShareUnlockProof(c)
              \/ WrongPassword(c)
    BY <1>3, Zenon DEF SharePasswordHashed, SaveNewShare, CommitReveal, ShowSecret,
       CommitRevoke, LoadPublicDocumentShareSnapshot, AuthorizePublicShare,
       RecordPublicDocumentShareAccess, SendAnswer, UnlockPublicDocumentShare,
       SignDocumentShareUnlockProof, WrongPassword
  <1> QED BY <1>1, <1>2, <1>3

LEMMA ConversationsLeaveRows ==
    ASSUME ChatNext
    PROVE  UNCHANGED rows
  <1>1. PICK c \in Clients :
              \/ BeginsChat(c) \/ BeginsCreateChat(c) \/ BeginsTest(c) \/ BeginsConfigure(c)
              \/ SaveSession(c) \/ CommitSetting(c) \/ ProviderTested(c)
              \/ AuditAIProviderTest(c) \/ ShowTestResult(c)
              \/ ReserveAIChatGeneration(c) \/ RebuildAIChatRequest(c)
              \/ CancelAIChatRequest(c) \/ StorageFails(c)
              \/ ReadFragment(c) \/ ReadsFinishReason(c) \/ ReadLast(c) \/ BreakOff(c)
              \/ FinishAIChatMessage(c) \/ CompleteAIChatGeneration(c)
              \/ ReleaseAIChatRequest(c)
    BY ChatSteps
  <1>2. CASE BeginsChat(c) \/ BeginsCreateChat(c) \/ BeginsTest(c) \/ BeginsConfigure(c)
    BY <1>2, Zenon DEF BeginsChat, BeginsCreateChat, BeginsTest, BeginsConfigure,
       SendAIChatMessage, CreateAIChatSession, TestAIProvider, Upsert
  <1>3. CASE SaveSession(c) \/ CommitSetting(c) \/ ProviderTested(c)
              \/ AuditAIProviderTest(c) \/ ShowTestResult(c)
              \/ ReserveAIChatGeneration(c) \/ RebuildAIChatRequest(c)
              \/ CancelAIChatRequest(c) \/ StorageFails(c)
              \/ ReadFragment(c) \/ ReadsFinishReason(c) \/ ReadLast(c) \/ BreakOff(c)
              \/ FinishAIChatMessage(c) \/ CompleteAIChatGeneration(c)
              \/ ReleaseAIChatRequest(c)
    BY <1>3, Zenon DEF SaveSession, CommitSetting, ProviderTested, AuditAIProviderTest,
       ShowTestResult, ReserveAIChatGeneration, RebuildAIChatRequest, CancelAIChatRequest,
       StorageFails, ReadFragment, ReadsFinishReason, ReadFinishReason, ReadLast, BreakOff,
       FinishAIChatMessage, CompleteAIChatGeneration, ReleaseAIChatRequest
  <1> QED BY <1>1, <1>2, <1>3

LEMMA LibraryLeavesRows ==
    ASSUME LibraryNext
    PROVE  UNCHANGED rows
  BY LibrarySteps DEF Plans, Plan, SaveLibrary

TokenReads(c) ==
    \/ BeginsCreateToken(c) \/ BeginsRevokeToken(c) \/ BeginsListTokens(c)
    \/ BeginsRevealToken(c) \/ ShowTokenSecret(c)
    \/ ExecuteAuthenticatedTool(c) \/ PrepareToolWrite(c) \/ ReadWithToken(c)
    \/ CommitToolWrite(c) \/ RecordMCPToolCall(c) \/ SendToolAnswer(c)

TokenSaves(c) ==
    \/ SaveNewToken(c) \/ SaveExpired(c) \/ CommitTokenReveal(c)
    \/ SaveRevokedToken(c) \/ BeginsToolCall(c) \/ SaveRotation(c)

LEMMA TokenFrame ==
    ASSUME NEW c \in Clients
    PROVE  /\ TokenReads(c) => UNCHANGED <<rows, token, textual>>
           /\ TokenSaves(c) => UNCHANGED <<rows, textual>>
           /\ RotateCiphertexts(c) => UNCHANGED <<rows, token, textual>>
  <1>1. ASSUME TokenReads(c)
        PROVE  UNCHANGED <<rows, token, textual>>
    BY <1>1, Zenon DEF TokenReads, BeginsCreateToken, BeginsRevokeToken, BeginsListTokens,
       BeginsRevealToken, CreateMCPToken, RevokeMCPToken, ListMCPTokens,
       MCPToken, ShowTokenSecret, ExecuteAuthenticatedTool, PrepareToolWrite,
       ReadWithToken, CommitToolWrite, RecordMCPToolCall, SendToolAnswer, tokenVars
  <1>2. ASSUME TokenSaves(c)
        PROVE  UNCHANGED <<rows, textual>>
    BY <1>2, Zenon DEF TokenSaves, SaveNewToken, SaveExpired, CommitTokenReveal,
       SaveRevokedToken, BeginsToolCall, AuthenticateMCPToken, SaveRotation
  <1> QED BY <1>1, <1>2, Zenon DEF RotateCiphertexts, tokenVars

LEMMA TokensOrRotation ==
    ASSUME TokenNext \/ RotationNext
    PROVE  \E c \in Clients : TokenReads(c) \/ TokenSaves(c) \/ RotateCiphertexts(c)
  BY TokenSteps DEF RotationNext, TokenReads, TokenSaves

LEMMA RotationBegins ==
    ASSUME TokenInvariant, NEW c \in Clients, RotateCiphertexts(c)
    PROVE  TokenInvariant' /\ TokensAdvance
  <1>1. /\ Formed /\ TokenRows /\ UNCHANGED <<rows, token, textual>>
    BY TokenFrame DEF TokenInvariant
  <1>2. /\ TokenRows' /\ TokensAdvance
        /\ \A t \in Tokens : token[t] = None => token'[t] = None
    BY <1>1, TimePassesForTokens, WorkspaceAssumption DEF TokenInvariant, TokenRows, Times, rows
  <1>3. PICK r : r = [kind |-> "rotate", step |-> "ready", tokens |-> token, shares |-> share]
    OBVIOUS
  <1>4. /\ r.kind = "rotate" /\ r.tokens = token /\ {"kind", "step"} \subseteq DOMAIN r
        /\ Enter(c, r)
    BY <1>3 DEF RotateCiphertexts
  <1>5. TokensFollow(r.tokens)'
    BY <1>1, <1>2, <1>4, LoadedTokensFollow
  <1>6. TokenRequest(r)'
    BY <1>4, <1>5 DEF TokenRequest
  <1>7. call'[c] = r /\ (\A d \in Clients \ {c} : call'[d] = call[d]) /\ Formed'
    BY <1>1, <1>4, Entered, EnteredIsFormed
  <1> QED BY <1>1, <1>2, <1>4, <1>6, <1>7, TokenInvariantKept

LEMMA TokenInvariantHoldsOn ==
    ASSUME TokenInvariant, [Next]_vars
    PROVE  TokenInvariant' /\ TokensAdvance
  <1>0. Formed /\ now \in Times /\ now >= now
    BY WorkspaceAssumption DEF TokenInvariant, TokenRows, Times
  <1>1. CASE WorkspaceEvent /\ UNCHANGED <<shareVars, tokenVars, chatVars, libraryVars>>
    BY <1>0, <1>1, EventsMoveTime, EventsKeepTokens DEF tokenVars
  <1>2. CASE ShareNext /\ UNCHANGED <<tokenVars, chatVars, libraryVars>>
    BY <1>0, <1>2, ShareStepsMove, KindsApart, OthersKeepTokens, SharesLeaveRows
    DEF tokenVars, rows
  <1>3. CASE TokenNext \/ RotationNext
    <2>1. PICK c \in Clients : TokenReads(c) \/ TokenSaves(c) \/ RotateCiphertexts(c)
      BY <1>3, TokensOrRotation
    <2>2. CASE TokenReads(c)
      <3>1. UNCHANGED <<rows, token, textual>>
        BY <2>2, TokenFrame
      <3>2. TokenInvariant'
        BY <2>2, <3>1, TokenStepsThatRead DEF TokenReads
      <3> QED BY <3>1, <3>2, UnchangedTokensAdvance DEF TokenInvariant
    <2>3. CASE TokenSaves(c)
      BY <2>3, TokenFrame, TokenStepsThatSave DEF TokenSaves
    <2> QED BY <2>1, <2>2, <2>3, RotationBegins
  <1>5. CASE ChatNext /\ UNCHANGED <<shareVars, tokenVars, libraryVars>>
    BY <1>0, <1>5, ChatStepsMove, KindsApart, OthersKeepTokens, ConversationsLeaveRows
    DEF tokenVars, rows
  <1>6. CASE LibraryNext /\ UNCHANGED <<shareVars, tokenVars, chatVars>>
    BY <1>0, <1>6, LibraryStepsMove, KindsApart, OthersKeepTokens, LibraryLeavesRows
    DEF tokenVars, rows
  <1>7. CASE UNCHANGED vars
    BY <1>0, <1>7, EventsKeepTokens DEF vars, rows, tokenVars
  <1> QED BY <1>1, <1>2, <1>3, <1>5, <1>6, <1>7 DEF Next

LEMMA TokenInvariantHolds == Spec => []TokenInvariant
  <1>1. Init => TokenInvariant
    <2> SUFFICES ASSUME Init PROVE TokenInvariant
      OBVIOUS
    <2>1. /\ call = [c \in Clients |-> Idle]
          /\ \A c \in Clients : call[c].kind = "none" /\ {"kind", "step"} \subseteq DOMAIN call[c]
      BY DEF Init, WorkspaceInit, Idle
    <2>2. TokenRows
      <3>1. token \in TokenTable /\ now \in Times /\ \A t \in Tokens : token[t] = None
        BY WorkspaceAssumption DEF Init, TokenInit, WorkspaceInit, TokenTable, Times
      <3>2. textual \in BOOLEAN
        BY DEF Init, TokenInit
      <3> QED BY <3>1, <3>2 DEF TokenRows
    <2> QED BY <2>1, <2>2 DEF TokenInvariant, Formed, TokenRequest
  <1>2. TokenInvariant /\ [Next]_vars => TokenInvariant'
    BY TokenInvariantHoldsOn
  <1> QED BY <1>1, <1>2, PTL DEF Spec

-----------------------------------------------------------------------------
(* Tokens: rights                                                          *)

\* TokensActWithinTheirRights of one request.
RightsOf(c) ==
    /\ Began(c) => Usable(token[call'[c].token]) /\ IsActive(token[call'[c].token].owner)
    /\ SecretShown(c) => /\ Usable(token[call[c].token])
                         /\ IsActive(token[call[c].token].owner)
    /\ ToolWrote(c) =>
          /\ Usable(token[call[c].token]) /\ LiveDocument
          /\ IF Writes(call[c].tool)
               THEN /\ CanDraft(token[call[c].token].owner)
                    /\ Covers(token[call[c].token].scopes, "apiDraft", "docDraft")
               ELSE /\ CanRead(token[call[c].token].owner)
                    /\ Covers(token[call[c].token].scopes, "apiRead", "docRead")
    /\ ToolRead(c) => /\ CanRead(token[call[c].token].owner)
                      /\ Covers(token[call[c].token].scopes, "apiRead", "docRead")

LEMMA WaitingHasRights ==
    ASSUME NEW c, call'[c] = call[c]
    PROVE  RightsOf(c)
  BY DEF RightsOf, Began, SecretShown, ToolWrote, ToolRead, At, Idle

LEMMA OthersHaveRights ==
    ASSUME NEW kinds, Moves(kinds), kinds \cap (TokenKinds \cup {"rotate"}) = {},
           NEW c \in Clients
    PROVE  RightsOf(c)
  <1>1. \/ call'[c] = call[c]
        \/ call[c].kind \in kinds \cup {"none"} /\ call'[c].kind \in kinds \cup {"none"}
    BY DEF Moves
  <1>2. "revealToken" \notin kinds \cup {"none"} /\ "mcp" \notin kinds \cup {"none"}
    BY DEF TokenKinds
  <1> QED BY <1>1, <1>2, WaitingHasRights
      DEF RightsOf, Began, SecretShown, ToolWrote, ToolRead, At

LEMMA TokenStepsHaveRights ==
    ASSUME TokenInvariant, NEW c \in Clients,
           TokenReads(c) \/ TokenSaves(c) \/ RotateCiphertexts(c)
    PROVE  \A d \in Clients : RightsOf(d)
  <1>0. Formed /\ TokenRequest(call[c]) /\ textual \in BOOLEAN
    BY DEF TokenInvariant, TokenRows
  <1>a. ASSUME NEW r, Enter(c, r), r.kind # "mcp", call[c].kind = "none"
        PROVE  \A d \in Clients : RightsOf(d)
    BY <1>a, <1>0, Entered, WaitingHasRights
    DEF RightsOf, Began, SecretShown, ToolWrote, ToolRead, At
  <1>b. ASSUME Leave(c)
        PROVE  \A d \in Clients : RightsOf(d)
    BY <1>b, <1>0, Left, WaitingHasRights
    DEF RightsOf, Began, SecretShown, ToolWrote, ToolRead, At, Idle
  <1>c. ASSUME NEW s, Go(c, s), call[c].kind # "none", RightsOf(c)
        PROVE  \A d \in Clients : RightsOf(d)
    BY <1>c, <1>0, Gone, WaitingHasRights
  <1>1. CASE BeginsCreateToken(c) \/ BeginsRevokeToken(c) \/ BeginsListTokens(c)
               \/ BeginsRevealToken(c) \/ RotateCiphertexts(c)
    <2>1. call[c].kind = "none"
      BY <1>1, FreeIsNone DEF BeginsCreateToken, BeginsRevokeToken, BeginsListTokens,
         BeginsRevealToken, RotateCiphertexts
    <2>2. CASE BeginsCreateToken(c)
      <3>1. PICK t \in Tokens, u \in Users, scopes \in Grants, expires \in 1 .. Eternal :
               CreateMCPToken(c, u, t, scopes, expires)
        BY <2>2 DEF BeginsCreateToken
      <3> QED BY <3>1, <2>1, <1>a DEF CreateMCPToken
    <2>3. CASE BeginsRevokeToken(c)
      BY <2>3, <2>1, <1>a DEF BeginsRevokeToken, RevokeMCPToken
    <2>4. CASE BeginsListTokens(c)
      BY <2>4, <2>1, <1>a DEF BeginsListTokens, ListMCPTokens
    <2>5. CASE BeginsRevealToken(c)
      BY <2>5, <2>1, <1>a DEF BeginsRevealToken, MCPToken
    <2>6. CASE RotateCiphertexts(c)
      BY <2>6, <2>1, <1>a DEF RotateCiphertexts
    <2> QED BY <1>1, <2>2, <2>3, <2>4, <2>5, <2>6
  <1>2. CASE SaveNewToken(c) \/ SaveExpired(c) \/ SaveRevokedToken(c) \/ ShowTokenSecret(c)
               \/ SendToolAnswer(c) \/ SaveRotation(c)
    BY <1>2, <1>b DEF SaveNewToken, SaveExpired, SaveRevokedToken, ShowTokenSecret,
       SendToolAnswer, SaveRotation
  <1>3. CASE BeginsToolCall(c)
    <2>1. PICK t \in Tokens, tool \in Tools : AuthenticateMCPToken(c, t, tool)
      BY <1>3 DEF BeginsToolCall
    <2>2. call[c].kind = "none"
      BY <1>3, FreeIsNone DEF BeginsToolCall
    <2>3. token[t] \in TokenRow
      BY <2>1 DEF AuthenticateMCPToken, TokenInvariant, TokenRows, TokenTable
    <2>4. CASE UNCHANGED call
      BY <2>4, WaitingHasRights
    <2>5. CASE /\ Usable(token[t])
               /\ IsActive(ExpireIfNeeded(token[t]).owner)
               /\ Enter(c, [kind |-> "mcp", step |-> "authenticated", token |-> t,
                            tool |-> tool, scopes |-> ExpireIfNeeded(token[t]).scopes])
      <3>1. ExpireIfNeeded(token[t]).owner = token[t].owner
        BY <2>3 DEF ExpireIfNeeded, TokenRow
      <3>2. call'[c].token = t /\ \A d \in Clients \ {c} : call'[d] = call[d]
        BY <2>5, <1>0, Entered
      <3>3. RightsOf(c)
        BY <2>2, <2>5, <3>1, <3>2 DEF RightsOf, Began, SecretShown, ToolWrote, ToolRead, At
      <3> QED BY <3>2, <3>3, WaitingHasRights
    <2> QED BY <2>1, <2>4, <2>5 DEF AuthenticateMCPToken
  <1>4. CASE CommitTokenReveal(c)
    <2>1. PICK r : r = call[c]
      OBVIOUS
    <2>2. /\ r \in TokenRevelation /\ r.kind = "revealToken" /\ r.loaded[r.token] # None
          /\ TokenFollows(token[r.token], r.loaded[r.token])
          /\ r.actor = r.loaded[r.token].owner
      BY <1>4, <1>0, <2>1
      DEF CommitTokenReveal, At, TokenRequest, TokensFollow, TokenRevelation
    <2>3. CASE Leave(c)
      BY <2>3, <1>b
    <2>4. CASE /\ Go(c, "revealed") /\ Permitted(r.actor, "authenticated")
               /\ Usable(token[r.token])
      <3>1. IsActive(token[r.token].owner)
        BY <2>2, <2>4 DEF Permitted, TokenFollows
      <3>2. RightsOf(c)
        BY <2>1, <2>2, <2>4, <3>1
        DEF RightsOf, Began, SecretShown, ToolWrote, ToolRead, At, Idle
      <3> QED BY <2>1, <2>2, <2>4, <3>2, <1>c
    <2> QED BY <1>4, <2>1, <2>3, <2>4 DEF CommitTokenReveal
  <1>5. CASE ExecuteAuthenticatedTool(c) \/ RecordMCPToolCall(c)
    <2>1. /\ call[c].kind = "mcp" /\ call[c].step \in {"authenticated", "done"}
          /\ Leave(c) \/ \E s : Go(c, s)
      BY <1>5 DEF ExecuteAuthenticatedTool, RecordMCPToolCall, At
    <2>2. RightsOf(c)
      BY <2>1 DEF RightsOf, Began, SecretShown, ToolWrote, ToolRead, At, Idle
    <2> QED BY <2>1, <2>2, <1>b, <1>c
  <1>6. CASE PrepareToolWrite(c)
    <2>1. call[c].kind = "mcp" /\ call[c].step = "matched" /\ (Leave(c) \/ Go(c, "ready"))
      BY <1>6 DEF PrepareToolWrite, At
    <2>2. CASE Go(c, "ready")
      <3>1. call'[c].step = "ready"
        BY <2>2, <1>0, Gone
      <3>2. RightsOf(c)
        BY <2>1, <3>1 DEF RightsOf, Began, SecretShown, ToolWrote, ToolRead, At, Idle
      <3> QED BY <2>1, <2>2, <3>2, <1>c
    <2> QED BY <2>1, <2>2, <1>b
  <1>7. CASE ReadWithToken(c)
    <2>1. PICK r : r = call[c]
      OBVIOUS
    <2>2. /\ r.kind = "mcp" /\ r.step = "matched" /\ r \in ToolCall /\ Matched(r)
          /\ token[r.token].scopes = r.scopes /\ ~Writes(r.tool) /\ ~Compares(r.tool)
      BY <1>7, <1>0, <2>1 DEF ReadWithToken, At, TokenRequest
    <2>3. CASE Leave(c)
      BY <2>3, <1>b
    <2>4. CASE /\ Go(c, "done") /\ CanRead(token[r.token].owner)
               /\ r.tool = "listDocuments" => Listed(r.scopes)
      <3>1. r.tool \in {"listDocuments", "readApi", "readDoc"}
        BY <2>2 DEF ToolCall, Tools, Writes, Compares
      <3>2. Covers(r.scopes, "apiRead", "docRead")
        <4>1. CASE r.tool = "listDocuments"
          BY <2>4, <4>1 DEF Listed, Covers
        <4>2. CASE r.tool = "readApi"
          BY <2>2, <4>2 DEF Matched, MatchedByTool, ForText, ScopeOf, Covers
        <4>3. CASE r.tool = "readDoc"
          BY <2>2, <4>3 DEF Matched, MatchedByTool, ForText, ScopeOf, Covers
        <4> QED BY <3>1, <4>1, <4>2, <4>3
      <3>3. RightsOf(c)
        BY <2>1, <2>2, <2>4, <3>2
        DEF RightsOf, Began, SecretShown, ToolWrote, ToolRead, At, Idle
      <3> QED BY <2>1, <2>2, <2>4, <3>3, <1>c
    <2> QED BY <1>7, <2>1, <2>3, <2>4 DEF ReadWithToken
  <1>8. CASE CommitToolWrite(c)
    <2>1. PICK r : r = call[c]
      OBVIOUS
    <2>2. r.kind = "mcp" /\ r.step = "ready"
      BY <1>8, <2>1 DEF CommitToolWrite, At
    <2>3. CASE Leave(c)
      BY <2>3, <1>b
    <2>4. CASE Go(c, "done") /\ TokenGuard(r)
      <3>1. /\ Usable(token[r.token]) /\ LiveDocument
            /\ IF Writes(r.tool)
                 THEN /\ CanDraft(token[r.token].owner)
                      /\ Covers(token[r.token].scopes, "apiDraft", "docDraft")
                 ELSE /\ CanRead(token[r.token].owner)
                      /\ Covers(token[r.token].scopes, "apiRead", "docRead")
        BY <2>4 DEF TokenGuard, Permitted, NeededScope, Covers
      <3>2. RightsOf(c)
        BY <2>1, <2>2, <3>1
        DEF RightsOf, Began, SecretShown, ToolWrote, ToolRead, At, Idle
      <3> QED BY <2>1, <2>2, <2>4, <3>2, <1>c
    <2> QED BY <1>8, <2>1, <2>3, <2>4 DEF CommitToolWrite
  <1> QED BY <1>1, <1>2, <1>3, <1>4, <1>5, <1>6, <1>7, <1>8 DEF TokenReads, TokenSaves

\* A tool call begins, reads and writes, and a secret is shown, only with a token,
\* an owner and scopes that allow it then.
THEOREM ToolsActWithinRights == Spec => TokensActWithinTheirRights
  <1> DEFINE Rights ==
        \A c \in Clients : LET r == call[c] row == token[r.token] IN
          /\ Began(c) => LET used == token[call'[c].token] IN
                            Usable(used) /\ IsActive(used.owner)
          /\ SecretShown(c) => Usable(row) /\ IsActive(row.owner)
          /\ ToolWrote(c) =>
                /\ Usable(row) /\ LiveDocument
                /\ IF Writes(r.tool)
                     THEN CanDraft(row.owner) /\ Covers(row.scopes, "apiDraft", "docDraft")
                     ELSE CanRead(row.owner) /\ Covers(row.scopes, "apiRead", "docRead")
          /\ ToolRead(c) => CanRead(row.owner) /\ Covers(row.scopes, "apiRead", "docRead")
  <1>1. ASSUME TokenInvariant, [Next]_vars
        PROVE  \A c \in Clients : RightsOf(c)
    <2>0. Formed
      BY <1>1 DEF TokenInvariant
    <2>1. CASE UNCHANGED call
      BY <2>1, WaitingHasRights
    <2>2. CASE WorkspaceEvent
      BY <1>1, <2>1, <2>2, EventsMoveTime DEF TokenInvariant, TokenRows
    <2>3. CASE ShareNext
      BY <2>0, <2>3, ShareStepsMove, KindsApart, OthersHaveRights
    <2>4. CASE TokenNext \/ RotationNext
      BY <1>1, <2>4, TokensOrRotation, TokenStepsHaveRights
    <2>5. CASE ChatNext
      BY <2>0, <2>5, ChatStepsMove, KindsApart, OthersHaveRights
    <2>6. CASE LibraryNext
      BY <2>0, <2>6, LibraryStepsMove, KindsApart, OthersHaveRights
    <2> QED BY <1>1, <2>1, <2>2, <2>3, <2>4, <2>5, <2>6 DEF Next, vars
  <1>2. TokenInvariant /\ [Next]_vars => [Rights]_<<rows, call, tokenVars>>
    BY <1>1 DEF RightsOf
  <1>3. Spec => [][Rights]_<<rows, call, tokenVars>>
    <2> HIDE DEF Rights
    <2> QED BY <1>2, TokenInvariantHolds, PTL DEF Spec
  <1> QED BY <1>3 DEF TokensActWithinTheirRights

-----------------------------------------------------------------------------
(* Shares: the invariant                                                   *)

ShareTable == [Shares -> ShareRow \cup {None}]

SameSelection(row, loaded) ==
    /\ row.branch = loaded.branch /\ row.scope = loaded.scope /\ row.pin = loaded.pin
    /\ row.protected = loaded.protected /\ row.expires = loaded.expires

\* What a row has become since it was loaded: what is shared never changes, and
\* while the stamp is the same nothing has.
ShareFollows(row, loaded) ==
    /\ row \in ShareRow
    /\ SameSelection(row, loaded)
    /\ row.stamp >= loaded.stamp
    /\ row.stamp = loaded.stamp => row = loaded
    /\ loaded.status = "revoked" => row.status = "revoked" /\ row.by = loaded.by

SharesFollow(loaded) ==
    /\ loaded \in ShareTable
    /\ \A s \in Shares : loaded[s] # None => ShareFollows(share[s], loaded[s])

\* A selection that names something published.
Selects(row) ==
    /\ row.branch \in Branches
    /\ IF row.scope = "fixed" THEN row.pin \in 1 .. published[row.branch]
                              ELSE row.pin = 0 /\ published[row.branch] > 0

ShareCreation ==
    [kind : {"createShare"}, step : {"hashing", "ready"}, actor : Users,
     share : Shares, row : ShareRow]

ReaderSteps == {"share", "project", "document", "branch", "versions", "loaded",
                "admitted", "verifying", "answered"}
HasRow == ReaderSteps \ {"share"}
HasLoaded == {"loaded", "admitted", "verifying", "answered"}
HasAnswer == {"admitted", "answered"}

\* What a reader has seen of a share follows what is there; the count of
\* versions lies between the one at the beginning and the current one.
ReaderRequest(r) ==
    /\ r.step \in ReaderSteps /\ r.share \in Shares /\ share[r.share] # None
    /\ DOMAIN r = {"kind", "step", "share", "want", "proof", "seen", "since", "shown"}
    /\ DOMAIN r.seen = {"row", "closed", "count"}
    /\ r.proof \in proofs \cup {None}
    /\ r.since \in Nat /\ r.since <= published[share[r.share].branch]
    /\ r.step \in HasRow =>
          r.seen.row \in ShareRow /\ ShareFollows(share[r.share], r.seen.row)
    /\ r.step \in HasLoaded =>
          /\ r.seen.count \in Nat /\ r.since <= r.seen.count
          /\ r.seen.count <= published[share[r.share].branch]
    /\ r.step \in HasAnswer =>
          /\ r.shown = Answer(r)
          /\ r.seen.row.protected => r.proof # None /\ r.proof.share = r.share

ShareRequest(r) ==
    /\ r.kind = "createShare" =>
          r \in ShareCreation /\ share[r.share] = None /\ Selects(r.row)
    /\ r.kind = "revokeShare" =>
          /\ r.actor \in Users /\ r.share \in Shares /\ r.row \in ShareRow
          /\ r.row.status = "active" /\ ShareFollows(share[r.share], r.row)
    /\ r.kind = "rotate" => SharesFollow(r.shares)
    /\ r.kind \in AnonymousKinds => ReaderRequest(r)

ShareRows ==
    /\ share \in ShareTable
    /\ published \in [Branches -> Nat]
    /\ now \in Times

ShareInvariant ==
    /\ Formed
    /\ ShareRows
    /\ \A c \in Clients : ShareRequest(call[c])
    /\ \A c, d \in Clients :
          c # d /\ call[c].kind = "createShare" /\ call[d].kind = "createShare" =>
              call[c].share # call[d].share

-----------------------------------------------------------------------------
(* Shares: what every step does to the rows                                *)

SharesAdvance == \A s \in Shares : share[s] # None => ShareFollows(share'[s], share[s])

WorkspaceGrows ==
    /\ \A b \in Branches : published'[b] >= published[b]
    /\ proofs \subseteq proofs'

LEMMA ShareFollowsItself ==
    ASSUME NEW row \in ShareRow
    PROVE  ShareFollows(row, row)
  BY DEF ShareFollows, SameSelection, ShareRow

LEMMA ShareFollowsOn ==
    ASSUME NEW loaded \in ShareRow, NEW row \in ShareRow, NEW new,
           ShareFollows(row, loaded), ShareFollows(new, row)
    PROVE  ShareFollows(new, loaded)
  <1>1. new.stamp \in Nat /\ row.stamp \in Nat /\ loaded.stamp \in Nat
    BY DEF ShareFollows, ShareRow
  <1>2. SameSelection(new, loaded)
    BY DEF ShareFollows, SameSelection
  <1> QED BY <1>1, <1>2 DEF ShareFollows

LEMMA UnchangedSharesAdvance ==
    ASSUME ShareRows, share' = share
    PROVE  SharesAdvance /\ \A s \in Shares : share[s] = None => share'[s] = None
  BY ShareFollowsItself DEF SharesAdvance, ShareRows, ShareTable

LEMMA ShareFollowingGoesOn ==
    ASSUME ShareRows, SharesAdvance, NEW loaded, SharesFollow(loaded)
    PROVE  SharesFollow(loaded)'
  <1>1. ASSUME NEW s \in Shares, loaded[s] # None
        PROVE  ShareFollows(share'[s], loaded[s])
    <2>1. /\ loaded[s] \in ShareRow /\ share[s] \in ShareRow
          /\ ShareFollows(share[s], loaded[s])
      BY <1>1 DEF SharesFollow, ShareFollows, ShareTable
    <2>2. ShareFollows(share'[s], share[s])
      BY <2>1, ShareNoneAssumption DEF SharesAdvance
    <2> QED BY <2>1, <2>2, ShareFollowsOn
  <1> QED BY <1>1 DEF SharesFollow, ShareFollows, ShareTable

LEMMA SelectionStays ==
    ASSUME ShareRows, ShareRows', WorkspaceGrows, NEW row, row.pin \in Nat, Selects(row)
    PROVE  Selects(row)'
  <1>1. /\ published[row.branch] \in Nat /\ published'[row.branch] \in Nat
        /\ published'[row.branch] >= published[row.branch]
    BY DEF Selects, ShareRows, WorkspaceGrows
  <1> QED BY <1>1 DEF Selects

LEMMA WaitingReader ==
    ASSUME ShareRows, ShareRows', SharesAdvance, WorkspaceGrows, NEW r, ReaderRequest(r)
    PROVE  ReaderRequest(r)'
  <1>1. r.share \in Shares /\ share[r.share] # None /\ share[r.share] \in ShareRow
    BY DEF ReaderRequest, ShareRows, ShareTable
  <1>2. /\ ShareFollows(share'[r.share], share[r.share])
        /\ share'[r.share] \in ShareRow /\ share'[r.share] # None
    BY <1>1, ShareNoneAssumption DEF SharesAdvance, ShareFollows
  <1>3. /\ share'[r.share].branch = share[r.share].branch
        /\ share[r.share].branch \in Branches
    BY <1>1, <1>2 DEF ShareFollows, SameSelection, ShareRow
  <1>4. PICK b : b = share[r.share].branch
    OBVIOUS
  <1>5. published[b] \in Nat /\ published'[b] \in Nat /\ published'[b] >= published[b]
    BY <1>3, <1>4 DEF ShareRows, WorkspaceGrows
  <1>6. r.since \in Nat /\ r.since <= published'[share'[r.share].branch]
    BY <1>3, <1>4, <1>5 DEF ReaderRequest
  <1>7. r.step \in HasRow =>
           r.seen.row \in ShareRow /\ ShareFollows(share'[r.share], r.seen.row)
    BY <1>1, <1>2, ShareFollowsOn DEF ReaderRequest
  <1>8. r.step \in HasLoaded =>
          /\ r.seen.count \in Nat /\ r.since <= r.seen.count
          /\ r.seen.count <= published'[share'[r.share].branch]
    BY <1>3, <1>4, <1>5 DEF ReaderRequest
  <1>9. r.proof \in proofs' \cup {None}
    BY DEF ReaderRequest, WorkspaceGrows
  <1>10. r.step \in HasAnswer =>
          /\ r.shown = Answer(r)
          /\ r.seen.row.protected => r.proof # None /\ r.proof.share = r.share
    BY DEF ReaderRequest
  <1>11. /\ r.step \in ReaderSteps
         /\ DOMAIN r = {"kind", "step", "share", "want", "proof", "seen", "since", "shown"}
         /\ DOMAIN r.seen = {"row", "closed", "count"}
    BY DEF ReaderRequest
  <1>12. Answer(r)' = Answer(r)
    BY DEF Answer, PublishedSnapshotVersions, AllowedSnapshotVersion
  <1> QED BY <1>1, <1>2, <1>6, <1>7, <1>8, <1>9, <1>10, <1>11, <1>12 DEF ReaderRequest

LEMMA WaitingShareRequest ==
    ASSUME ShareRows, ShareRows', SharesAdvance, WorkspaceGrows, NEW r, ShareRequest(r),
           r.kind = "createShare" => share'[r.share] = None
    PROVE  ShareRequest(r)'
  <1>1. ASSUME r.kind = "createShare"
        PROVE  r \in ShareCreation /\ share'[r.share] = None /\ Selects(r.row)'
    <2>1. r \in ShareCreation /\ Selects(r.row)
      BY <1>1 DEF ShareRequest
    <2>2. r.row.pin \in Nat
      BY <2>1 DEF ShareCreation, ShareRow, Numbers
    <2> QED BY <1>1, <2>1, <2>2, SelectionStays
  <1>2. ASSUME r.kind = "revokeShare"
        PROVE  /\ r.actor \in Users /\ r.share \in Shares /\ r.row \in ShareRow
               /\ r.row.status = "active" /\ ShareFollows(share'[r.share], r.row)
    <2>1. /\ r.actor \in Users /\ r.share \in Shares /\ r.row \in ShareRow
          /\ r.row.status = "active" /\ ShareFollows(share[r.share], r.row)
      BY <1>2 DEF ShareRequest
    <2>2. share[r.share] \in ShareRow /\ ShareFollows(share'[r.share], share[r.share])
      BY <2>1, ShareNoneAssumption DEF SharesAdvance, ShareFollows
    <2> QED BY <2>1, <2>2, ShareFollowsOn
  <1>3. r.kind = "rotate" => SharesFollow(r.shares)'
    BY ShareFollowingGoesOn DEF ShareRequest
  <1>4. r.kind \in AnonymousKinds => ReaderRequest(r)'
    BY WaitingReader DEF ShareRequest
  <1> QED BY <1>1, <1>2, <1>3, <1>4 DEF ShareRequest

LEMMA ShareInvariantKept ==
    ASSUME ShareInvariant, ShareRows', SharesAdvance, WorkspaceGrows, Formed',
           NEW c \in Clients, \A d \in Clients \ {c} : call'[d] = call[d],
           ShareRequest(call[c])',
           \A s \in Shares : share[s] = None /\ share'[s] # None =>
               call[c].kind = "createShare" /\ call[c].share = s,
           call'[c].kind = "createShare" =>
               \A d \in Clients \ {c} :
                   call[d].kind = "createShare" => call[d].share # call'[c].share
    PROVE  ShareInvariant'
  <1>1. ASSUME NEW d \in Clients \ {c}
        PROVE  ShareRequest(call[d])'
    <2>1. ShareRequest(call[d]) /\ ShareRows
      BY DEF ShareInvariant
    <2>2. call[d].kind = "createShare" => share'[call[d].share] = None
      <3>1. call[d].kind = "createShare" =>
                call[d].share \in Shares /\ share[call[d].share] = None
        BY <2>1 DEF ShareRequest, ShareCreation
      <3> QED BY <3>1 DEF ShareInvariant
    <2> QED BY <2>1, <2>2, WaitingShareRequest
  <1> QED BY <1>1 DEF ShareInvariant

LEMMA NoShareRequest ==
    ASSUME NEW r, r.kind \notin {"createShare", "revokeShare", "rotate"} \cup AnonymousKinds
    PROVE  ShareRequest(r)'
  BY DEF ShareRequest

-----------------------------------------------------------------------------
(* Shares: every step                                                      *)

ShareReads(c) ==
    \/ BeginsCreateShare(c) \/ BeginsRevealShare(c) \/ BeginsRevokeShare(c)
    \/ BeginsVisit(c)
    \/ SharePasswordHashed(c) \/ CommitReveal(c) \/ ShowSecret(c)
    \/ LoadPublicDocumentShareSnapshot(c) \/ AuthorizePublicShare(c)
    \/ RecordPublicDocumentShareAccess(c) \/ SendAnswer(c)
    \/ UnlockPublicDocumentShare(c) \/ SignDocumentShareUnlockProof(c)
    \/ WrongPassword(c)

LEMMA ShareFrame ==
    ASSUME NEW c \in Clients, ShareReads(c)
    PROVE  UNCHANGED <<rows, share>> /\ proofs \subseteq proofs'
  <1>1. CASE BeginsCreateShare(c) \/ BeginsRevealShare(c) \/ BeginsRevokeShare(c)
               \/ BeginsVisit(c)
    BY <1>1, Zenon DEF BeginsCreateShare, BeginsRevealShare, BeginsRevokeShare, BeginsVisit,
       CreateDocumentShare, RevealDocumentShare, RevokeDocumentShare, Visit, shareVars
  <1>2. CASE SharePasswordHashed(c) \/ CommitReveal(c) \/ ShowSecret(c)
              \/ LoadPublicDocumentShareSnapshot(c) \/ AuthorizePublicShare(c)
              \/ RecordPublicDocumentShareAccess(c) \/ SendAnswer(c)
              \/ UnlockPublicDocumentShare(c) \/ WrongPassword(c)
    BY <1>2, Zenon DEF SharePasswordHashed, CommitReveal, ShowSecret,
       LoadPublicDocumentShareSnapshot, AuthorizePublicShare,
       RecordPublicDocumentShareAccess, SendAnswer, UnlockPublicDocumentShare,
       WrongPassword, shareVars
  <1>3. CASE SignDocumentShareUnlockProof(c)
    BY <1>3 DEF SignDocumentShareUnlockProof
  <1> QED BY <1>1, <1>2, <1>3 DEF ShareReads

LEMMA RowsAreStill ==
    ASSUME ShareRows, UNCHANGED rows, share' \in ShareTable, proofs \subseteq proofs'
    PROVE  ShareRows' /\ WorkspaceGrows
  BY DEF ShareRows, WorkspaceGrows, rows, Times

\* A step of one request that leaves the rows of shares alone and has not begun
\* to create one.
LEMMA ShareStepKeeps ==
    ASSUME ShareInvariant, UNCHANGED <<rows, share>>, proofs \subseteq proofs', Formed',
           NEW c \in Clients, \A d \in Clients \ {c} : call'[d] = call[d],
           ShareRequest(call[c])',
           call'[c].kind = "createShare" =>
               call[c].kind = "createShare" /\ call'[c].share = call[c].share
    PROVE  ShareInvariant' /\ SharesAdvance
  <1>1. /\ ShareRows' /\ WorkspaceGrows /\ SharesAdvance
        /\ \A s \in Shares : share[s] = None => share'[s] = None
    BY RowsAreStill, UnchangedSharesAdvance DEF ShareInvariant, ShareRows
  <1>2. call'[c].kind = "createShare" =>
            \A d \in Clients \ {c} :
                call[d].kind = "createShare" => call[d].share # call'[c].share
    BY DEF ShareInvariant
  <1> QED BY <1>1, <1>2, ShareInvariantKept

LEMMA CreationBegins ==
    ASSUME ShareInvariant, NEW c \in Clients, BeginsCreateShare(c)
    PROVE  ShareInvariant'
  <1>0. /\ UNCHANGED <<rows, share>> /\ proofs \subseteq proofs' /\ ShareRows /\ Formed
        /\ ShareRows' /\ WorkspaceGrows /\ SharesAdvance
        /\ \A s \in Shares : share[s] = None => share'[s] = None
    BY ShareFrame, RowsAreStill, UnchangedSharesAdvance DEF ShareInvariant, ShareReads, ShareRows
  <1>1. PICK u \in Users, s \in Shares, b \in Branches, scope \in Scopes,
          pin \in {0} \cup Numbers, protected \in Protections, expires \in Expiries :
          CreateDocumentShare(c, u, s, b, scope, pin, protected, expires)
    BY Zenon DEF BeginsCreateShare
  <1>2. PICK row : row = Creation(b, scope, pin, protected, expires)
    OBVIOUS
  <1>3. PICK r : r = [kind |-> "createShare", step |-> IF protected THEN "hashing" ELSE "ready",
                      actor |-> u, share |-> s, row |-> row]
    OBVIOUS
  <1>4. Enter(c, r) /\ Unused(s) /\ ValidSelection(b, scope, pin)
    BY <1>1, <1>2, <1>3 DEF CreateDocumentShare
  <1>5. row \in ShareRow
    <2>1. expires \in 1 .. Never
      BY <1>0, LifeAssumption, WorkspaceAssumption
      DEF Expiries, Never, ShareRows, Times
    <2>2. protected \in BOOLEAN
      BY DEF Protections
    <2>3. scope \in {"latest", "fixed", "all"}
      BY ScopesAssumption
    <2> QED BY <1>2, <2>1, <2>2, <2>3 DEF Creation, ShareRow
  <1>6. Selects(row)
    BY <1>2, <1>4 DEF Creation, Selects, ValidSelection
  <1>7. r \in ShareCreation /\ r.kind = "createShare" /\ r.share = s /\ r.row = row
        /\ {"kind", "step"} \subseteq DOMAIN r
    BY <1>3, <1>5 DEF ShareCreation
  <1>8. ShareRequest(r)'
    <2>1. share'[s] = None
      BY <1>0, <1>4 DEF Unused
    <2>2. Selects(row)'
      BY <1>0, <1>5, <1>6, SelectionStays DEF ShareRow, Numbers
    <2>3. r.kind \notin AnonymousKinds
      BY <1>7 DEF AnonymousKinds, ReadKinds
    <2> QED BY <1>7, <2>1, <2>2, <2>3 DEF ShareRequest
  <1>9. call'[c] = r /\ (\A d \in Clients \ {c} : call'[d] = call[d]) /\ Formed'
    BY <1>0, <1>4, <1>7, Entered, EnteredIsFormed
  <1>10. \A d \in Clients \ {c} : call[d].kind = "createShare" => call[d].share # s
    BY <1>4 DEF Unused
  <1> QED BY <1>0, <1>7, <1>8, <1>9, <1>10, ShareInvariantKept

LEMMA VisitBegins ==
    ASSUME ShareInvariant, NEW c \in Clients, BeginsVisit(c)
    PROVE  ShareInvariant'
  <1>0. UNCHANGED <<rows, share>> /\ proofs \subseteq proofs' /\ ShareRows /\ Formed
    BY ShareFrame DEF ShareInvariant, ShareReads
  <1>1. PICK kind \in AnonymousKinds, s \in Shares, want \in {0} \cup Numbers,
             proof \in proofs \cup {None} : Visit(c, kind, s, want, proof)
    BY DEF BeginsVisit
  <1>2. PICK r : r = [kind |-> kind, step |-> "share", share |-> s, want |-> want,
                 proof |-> proof, seen |-> Nothing,
                 since |-> published[share[s].branch], shown |-> {}]
    OBVIOUS
  <1>3. Enter(c, r) /\ share[s] \in ShareRow /\ share[s] # None
    BY <1>0, <1>1, <1>2 DEF Visit, ShareRows, ShareTable
  <1>4. /\ r.kind = kind /\ r.step = "share" /\ r.share = s /\ r.proof = proof
        /\ r.since = published[share[s].branch] /\ r.seen = Nothing
        /\ DOMAIN r = {"kind", "step", "share", "want", "proof", "seen", "since", "shown"}
        /\ DOMAIN Nothing = {"row", "closed", "count"}
    BY <1>2 DEF Nothing
  <1>5. published[share[s].branch] \in Nat /\ published' = published
    BY <1>0, <1>3 DEF ShareRows, ShareRow, rows
  <1>6. ReaderRequest(r)'
    <2>1. r.step \in ReaderSteps /\ r.step \notin HasRow \cup HasLoaded \cup HasAnswer
      BY <1>4 DEF ReaderSteps, HasRow, HasLoaded, HasAnswer
    <2>2. share'[r.share] = share[s] /\ proof \in proofs' \cup {None}
      BY <1>0, <1>4
    <2> QED BY <1>3, <1>4, <1>5, <2>1, <2>2 DEF ReaderRequest
  <1>7. ShareRequest(r)' /\ r.kind # "createShare"
    <2>1. kind \notin {"createShare", "revokeShare", "rotate"}
      BY DEF AnonymousKinds, ReadKinds
    <2> QED BY <1>4, <1>6, <2>1 DEF ShareRequest
  <1>8. call'[c] = r /\ (\A d \in Clients \ {c} : call'[d] = call[d]) /\ Formed'
    BY <1>0, <1>3, <1>4, Entered, EnteredIsFormed
  <1> QED BY <1>0, <1>7, <1>8, ShareStepKeeps

LEMMA AdministrationReads ==
    ASSUME ShareInvariant, NEW c \in Clients,
           BeginsRevealShare(c) \/ BeginsRevokeShare(c) \/ SharePasswordHashed(c)
             \/ CommitReveal(c) \/ ShowSecret(c)
    PROVE  ShareInvariant'
  <1>0. /\ UNCHANGED <<rows, share>> /\ proofs \subseteq proofs' /\ ShareRows /\ Formed
        /\ ShareRequest(call[c])
        /\ ShareRows' /\ WorkspaceGrows /\ SharesAdvance
        /\ \A s \in Shares : share[s] = None => share'[s] = None
    BY ShareFrame, RowsAreStill, UnchangedSharesAdvance DEF ShareInvariant, ShareReads, ShareRows
  <1>a. ASSUME Leave(c)
        PROVE  ShareInvariant'
    <2>1. call'[c].kind = "none" /\ (\A d \in Clients \ {c} : call'[d] = call[d]) /\ Formed'
      BY <1>0, <1>a, Left
    <2>2. ShareRequest(call[c])'
      BY <2>1, NoShareRequest DEF AnonymousKinds, ReadKinds
    <2> QED BY <1>0, <2>1, <2>2, ShareStepKeeps
  <1>1. CASE BeginsRevealShare(c)
    <2>1. PICK u \in Users, s \in Shares : RevealDocumentShare(c, u, s)
      BY <1>1 DEF BeginsRevealShare
    <2>2. PICK r : r = [kind |-> "revealShare", step |-> "ready", actor |-> u, share |-> s]
      OBVIOUS
    <2>3. Enter(c, r) /\ r.kind = "revealShare" /\ {"kind", "step"} \subseteq DOMAIN r
      BY <2>1, <2>2 DEF RevealDocumentShare
    <2>4. call'[c] = r /\ (\A d \in Clients \ {c} : call'[d] = call[d]) /\ Formed'
      BY <1>0, <2>3, Entered, EnteredIsFormed
    <2>5. ShareRequest(r)'
      BY <2>3, NoShareRequest DEF AnonymousKinds, ReadKinds
    <2> QED BY <1>0, <2>3, <2>4, <2>5, ShareStepKeeps
  <1>2. CASE BeginsRevokeShare(c)
    <2>1. PICK u \in Users, s \in Shares : RevokeDocumentShare(c, u, s)
      BY <1>2 DEF BeginsRevokeShare
    <2>2. PICK r : r = [kind |-> "revokeShare", step |-> "ready", actor |-> u, share |-> s,
                        row |-> share[s]]
      OBVIOUS
    <2>3. /\ Enter(c, r) /\ r.kind = "revokeShare" /\ {"kind", "step"} \subseteq DOMAIN r
          /\ r.actor = u /\ r.share = s /\ r.row = share[s]
          /\ share[s] \in ShareRow /\ Open(share[s])
      BY <1>0, <2>1, <2>2 DEF RevokeDocumentShare, ShareRows, ShareTable
    <2>4. call'[c] = r /\ (\A d \in Clients \ {c} : call'[d] = call[d]) /\ Formed'
      BY <1>0, <2>3, Entered, EnteredIsFormed
    <2>5. share[s].status = "active"
      BY <2>3 DEF Open, EffectiveStatus, ShareRow
    <2>6. ShareFollows(share'[s], share[s])
      BY <1>0, <2>3, ShareFollowsItself
    <2>7. ShareRequest(r)'
      BY <2>3, <2>5, <2>6 DEF ShareRequest, AnonymousKinds, ReadKinds
    <2> QED BY <1>0, <2>3, <2>4, <2>7, ShareStepKeeps
  <1>3. CASE SharePasswordHashed(c)
    <2>1. call[c].kind = "createShare" /\ (Go(c, "ready") \/ Leave(c))
      BY <1>3 DEF SharePasswordHashed, At
    <2>2. CASE Go(c, "ready")
      <3>1. PICK q : q = call[c]
        OBVIOUS
      <3>2. PICK r : r = [q EXCEPT !.step = "ready"]
        OBVIOUS
      <3>3. /\ q \in ShareCreation /\ q.kind = "createShare" /\ share[q.share] = None
            /\ Selects(q.row) /\ q.share \in Shares /\ q.row.pin \in Nat
        BY <1>0, <2>1, <3>1 DEF ShareRequest, ShareCreation, ShareRow, Numbers
      <3>4. /\ r \in ShareCreation /\ r.kind = "createShare" /\ r.share = q.share
            /\ r.row = q.row
        BY <3>2, <3>3 DEF ShareCreation
      <3>5. ShareRequest(r)'
        BY <1>0, <3>3, <3>4, SelectionStays DEF ShareRequest, AnonymousKinds, ReadKinds
      <3>6. call'[c] = r /\ (\A d \in Clients \ {c} : call'[d] = call[d]) /\ Formed'
        BY <1>0, <2>2, <3>1, <3>2, Gone
      <3> QED BY <1>0, <2>1, <3>1, <3>4, <3>5, <3>6, ShareStepKeeps
    <2> QED BY <2>1, <2>2, <1>a
  <1>4. CASE CommitReveal(c) \/ ShowSecret(c)
    <2>1. call[c].kind = "revealShare" /\ (Go(c, "revealed") \/ Leave(c))
      BY <1>4 DEF CommitReveal, ShowSecret, At
    <2>2. CASE Go(c, "revealed")
      <3>1. call'[c].kind = "revealShare" /\ (\A d \in Clients \ {c} : call'[d] = call[d])
            /\ Formed'
        BY <1>0, <2>1, <2>2, Gone
      <3>2. ShareRequest(call[c])'
        BY <3>1, NoShareRequest DEF AnonymousKinds, ReadKinds
      <3> QED BY <1>0, <3>1, <3>2, ShareStepKeeps
    <2> QED BY <2>1, <2>2, <1>a
  <1> QED BY <1>1, <1>2, <1>3, <1>4

LEMMA Loads ==
    ASSUME ShareInvariant, NEW c \in Clients, LoadPublicDocumentShareSnapshot(c)
    PROVE  ShareInvariant'
  <1>0. /\ UNCHANGED <<rows, share>> /\ proofs' = proofs /\ ShareRows /\ Formed
        /\ call[c].kind \in AnonymousKinds /\ ReaderRequest(call[c])
        /\ call[c].step \in DOMAIN ReadOrder
    <2>1. ShareRequest(call[c]) /\ Formed /\ ShareRows
      BY DEF ShareInvariant
    <2>2. UNCHANGED <<rows, share>> /\ proofs' = proofs
      BY Zenon DEF LoadPublicDocumentShareSnapshot, shareVars
    <2> QED BY <2>1, <2>2
        DEF LoadPublicDocumentShareSnapshot, AnonymousKinds, ShareRequest
  <1>1. PICK q : q = call[c]
    OBVIOUS
  <1>2. PICK b : b = share[q.share].branch
    OBVIOUS
  <1>3. /\ q.kind \in AnonymousKinds /\ q.share \in Shares /\ share[q.share] # None
        /\ share[q.share] \in ShareRow /\ b \in Branches /\ published[b] \in Nat
        /\ DOMAIN q = {"kind", "step", "share", "want", "proof", "seen", "since", "shown"}
        /\ DOMAIN q.seen = {"row", "closed", "count"}
        /\ q.proof \in proofs \cup {None}
        /\ q.since \in Nat /\ q.since <= published[b]
        /\ q.step \in DOMAIN ReadOrder
    BY <1>0, <1>1, <1>2 DEF ReaderRequest, ShareRows, ShareTable, ShareRow
  <1> DEFINE place == IF q.step = "branch" THEN q.seen.row.branch ELSE q.step
             seen == CASE q.step = "share" -> [q.seen EXCEPT !.row = share[q.share]]
                       [] q.step = "versions" ->
                            [q.seen EXCEPT !.count = published[q.seen.row.branch]]
                       [] OTHER -> [q.seen EXCEPT !.closed = @ \cup ({place} \cap archived)]
             new == [q EXCEPT !.step = ReadOrder[q.step], !.seen = seen]
  <1>4. Enter(c, new)
    BY <1>1 DEF LoadPublicDocumentShareSnapshot
  <1>5. PICK r : r = new
    OBVIOUS
  <1>6. /\ r.kind = q.kind /\ r.step = ReadOrder[q.step] /\ r.share = q.share
        /\ r.proof = q.proof /\ r.since = q.since /\ r.seen = seen
        /\ DOMAIN r = {"kind", "step", "share", "want", "proof", "seen", "since", "shown"}
    BY <1>3, <1>5
  <1>7. /\ r.step \in ReaderSteps /\ r.step \notin HasAnswer
        /\ r.step \in HasLoaded => q.step = "versions"
        /\ q.step # "share" => q.step \in HasRow
        /\ DOMAIN r.seen = {"row", "closed", "count"}
    BY <1>3, <1>6 DEF ReadOrder, ReaderSteps, HasRow, HasLoaded, HasAnswer
  <1>8. r.seen.row \in ShareRow /\ ShareFollows(share[q.share], r.seen.row)
    <2>1. CASE q.step = "share"
      BY <1>3, <1>6, <2>1, ShareFollowsItself
    <2>2. CASE q.step # "share"
      <3>1. r.seen.row = q.seen.row
        BY <1>3, <1>6, <2>2
      <3>2. q.step \in HasRow
        BY <2>2, <1>7
      <3> QED BY <1>0, <1>1, <3>1, <3>2 DEF ReaderRequest
    <2> QED BY <2>1, <2>2
  <1>9. ASSUME r.step \in HasLoaded
        PROVE  r.seen.count = published[b]
    <2>1. q.step = "versions" /\ q.step \in HasRow
      BY <1>7, <1>9
    <2>2. q.seen.row.branch = b
      BY <1>0, <1>1, <1>2, <2>1 DEF ReaderRequest, ShareFollows, SameSelection
    <2> QED BY <1>3, <1>6, <2>1, <2>2
  <1> HIDE DEF seen, new, place
  <1>10. share' = share /\ published' = published
    BY <1>0 DEF rows
  <1>11. ReaderRequest(r)'
    BY <1>0, <1>2, <1>3, <1>6, <1>7, <1>8, <1>9, <1>10 DEF ReaderRequest
  <1>12. ShareRequest(r)' /\ r.kind # "createShare"
    BY <1>3, <1>6, <1>11 DEF ShareRequest, AnonymousKinds, ReadKinds
  <1>13. call'[c] = r /\ (\A d \in Clients \ {c} : call'[d] = call[d]) /\ Formed'
    BY <1>0, <1>4, <1>5, <1>6, Entered, EnteredIsFormed
  <1> QED BY <1>0, <1>12, <1>13, ShareStepKeeps

\* A reader's request goes on and keeps what it has seen.
LEMMA ReaderGoesOn ==
    ASSUME ShareInvariant, UNCHANGED <<rows, share>>, proofs \subseteq proofs',
           NEW c \in Clients, call[c].kind \in AnonymousKinds, NEW s, Go(c, s),
           \/ call[c].step = "admitted" /\ s = "answered"
           \/ call[c].step = "loaded" /\ s = "verifying"
    PROVE  ShareInvariant'
  <1>1. /\ ShareRows /\ Formed /\ ReaderRequest(call[c])
        /\ ShareRows' /\ WorkspaceGrows /\ SharesAdvance
    BY RowsAreStill, UnchangedSharesAdvance DEF ShareInvariant, ShareRequest, ShareRows
  <1>2. PICK q : q = call[c]
    OBVIOUS
  <1>3. PICK r : r = [q EXCEPT !.step = s]
    OBVIOUS
  <1>4. ReaderRequest(q)'
    BY <1>1, <1>2, WaitingReader
  <1>5. /\ r.kind = q.kind /\ r.step = s /\ r.share = q.share /\ r.want = q.want
        /\ r.proof = q.proof /\ r.since = q.since /\ r.seen = q.seen /\ r.shown = q.shown
        /\ DOMAIN r = DOMAIN q
    BY <1>1, <1>2, <1>3 DEF ReaderRequest, Formed
  <1>6. Answer(r) = Answer(q)
    BY <1>5 DEF Answer
  <1>7. /\ s \in ReaderSteps /\ s \in HasRow /\ s \in HasLoaded
        /\ q.step \in HasRow /\ q.step \in HasLoaded
        /\ s \in HasAnswer => q.step \in HasAnswer
    BY <1>2 DEF ReaderSteps, HasRow, HasLoaded, HasAnswer
  <1>8. ReaderRequest(r)'
    BY <1>4, <1>5, <1>6, <1>7 DEF ReaderRequest
  <1>9. ShareRequest(r)' /\ r.kind # "createShare"
    BY <1>2, <1>5, <1>8 DEF ShareRequest, AnonymousKinds, ReadKinds
  <1>10. call'[c] = r /\ (\A d \in Clients \ {c} : call'[d] = call[d]) /\ Formed'
    BY <1>1, <1>2, <1>3, Gone
  <1> QED BY <1>9, <1>10, ShareStepKeeps

LEMMA Authorizes ==
    ASSUME ShareInvariant, NEW c \in Clients, UNCHANGED <<rows, share>>, proofs' = proofs,
           At(c, ReadKinds, "loaded"), Unlocked(call[c]),
           Enter(c, [call[c] EXCEPT !.step = "admitted", !.shown = Answer(call[c])])
    PROVE  ShareInvariant'
  <1>1. /\ ShareRows /\ Formed /\ ReaderRequest(call[c])
        /\ ShareRows' /\ WorkspaceGrows /\ SharesAdvance
    <2>1. ShareRequest(call[c]) /\ ShareRows /\ Formed /\ share' \in ShareTable
      BY DEF ShareInvariant, ShareRows
    <2>2. ReaderRequest(call[c])
      BY <2>1 DEF ShareRequest, At, AnonymousKinds
    <2> QED BY <2>1, <2>2, RowsAreStill, UnchangedSharesAdvance
  <1>2. PICK q : q = call[c]
    OBVIOUS
  <1>3. PICK r : r = [q EXCEPT !.step = "admitted", !.shown = Answer(q)]
    OBVIOUS
  <1>4. ReaderRequest(q)'
    BY <1>1, <1>2, WaitingReader
  <1>5. /\ r.kind = q.kind /\ r.step = "admitted" /\ r.share = q.share /\ r.want = q.want
        /\ r.proof = q.proof /\ r.since = q.since /\ r.seen = q.seen
        /\ r.shown = Answer(q) /\ DOMAIN r = DOMAIN q
    BY <1>1, <1>2, <1>3 DEF ReaderRequest
  <1>6. Answer(r) = Answer(q)
    BY <1>5 DEF Answer
  <1>7. r.seen.row.protected => r.proof # None /\ r.proof.share = r.share
    BY <1>2, <1>5 DEF Unlocked, ValidProof
  <1>8. /\ "admitted" \in ReaderSteps /\ q.step \in HasRow /\ q.step \in HasLoaded
    BY <1>2 DEF ReaderSteps, HasRow, HasLoaded, At
  <1>9. ReaderRequest(r)'
    BY <1>4, <1>5, <1>6, <1>7, <1>8 DEF ReaderRequest
  <1>10. ShareRequest(r)' /\ r.kind # "createShare" /\ {"kind", "step"} \subseteq DOMAIN r
    BY <1>1, <1>2, <1>5, <1>9
    DEF ShareRequest, AnonymousKinds, ReadKinds, At, ReaderRequest
  <1>11. call'[c] = r /\ (\A d \in Clients \ {c} : call'[d] = call[d]) /\ Formed'
    BY <1>1, <1>2, <1>3, <1>10, Entered, EnteredIsFormed
  <1> QED BY <1>10, <1>11, ShareStepKeeps

LEMMA ReadersRead ==
    ASSUME ShareInvariant, NEW c \in Clients,
           AuthorizePublicShare(c) \/ RecordPublicDocumentShareAccess(c) \/ SendAnswer(c)
             \/ UnlockPublicDocumentShare(c) \/ SignDocumentShareUnlockProof(c)
             \/ WrongPassword(c)
    PROVE  ShareInvariant'
  <1>0. UNCHANGED <<rows, share>> /\ proofs \subseteq proofs' /\ Formed
    BY ShareFrame DEF ShareInvariant, ShareReads
  <1>a. ASSUME Leave(c)
        PROVE  ShareInvariant'
    <2>1. call'[c].kind = "none" /\ (\A d \in Clients \ {c} : call'[d] = call[d]) /\ Formed'
      BY <1>0, <1>a, Left
    <2>2. ShareRequest(call[c])'
      BY <2>1, NoShareRequest DEF AnonymousKinds, ReadKinds
    <2> QED BY <1>0, <2>1, <2>2, ShareStepKeeps
  <1>1. CASE SendAnswer(c) \/ SignDocumentShareUnlockProof(c) \/ WrongPassword(c)
    BY <1>1, <1>a DEF SendAnswer, SignDocumentShareUnlockProof, WrongPassword
  <1>2. CASE RecordPublicDocumentShareAccess(c) \/ UnlockPublicDocumentShare(c)
    <2>1. call[c].kind \in AnonymousKinds
      BY <1>2 DEF RecordPublicDocumentShareAccess, UnlockPublicDocumentShare, At,
         AnonymousKinds
    <2>2. \/ Leave(c)
          \/ call[c].step = "admitted" /\ Go(c, "answered")
          \/ call[c].step = "loaded" /\ Go(c, "verifying")
      BY <1>2 DEF RecordPublicDocumentShareAccess, UnlockPublicDocumentShare, At
    <2> QED BY <1>0, <1>a, <2>1, <2>2, ReaderGoesOn
  <1>3. CASE AuthorizePublicShare(c)
    <2>1. proofs' = proofs /\ At(c, ReadKinds, "loaded")
      BY <1>3 DEF AuthorizePublicShare, shareVars
    <2> QED BY <1>0, <1>3, <1>a, <2>1, Authorizes DEF AuthorizePublicShare
  <1> QED BY <1>1, <1>2, <1>3

-----------------------------------------------------------------------------
(* Shares: steps that write rows                                           *)

LEMMA RevokeFollows ==
    ASSUME NEW row \in ShareRow, NEW u \in Users, row.status = "active"
    PROVE  ShareFollows(Revoked(row, u), row)
  <1>1. PICK new : new = Revoked(row, u)
    OBVIOUS
  <1>2. /\ DOMAIN row = {"branch", "scope", "pin", "protected", "expires", "status", "by",
                        "sealed", "stamp"}
        /\ row = [k \in DOMAIN row |-> row[k]]
        /\ row.stamp \in Nat
    BY DEF ShareRow
  <1>3. /\ DOMAIN new = DOMAIN row /\ new = [k \in DOMAIN row |-> new[k]]
        /\ new.stamp = row.stamp + 1
    BY <1>1, <1>2 DEF Revoked
  <1>4. /\ new.branch = row.branch /\ new.scope = row.scope /\ new.pin = row.pin
        /\ new.expires = row.expires
    BY <1>1, <1>2 DEF Revoked
  <1>5. new.protected = row.protected
    BY <1>1, <1>2, Zenon DEF Revoked
  <1>6. new.status = "revoked" /\ new.by = u /\ new.sealed = row.sealed
    BY <1>1, <1>2 DEF Revoked
  <1>7. /\ row.branch \in Branches /\ row.scope \in {"latest", "fixed", "all"}
        /\ row.pin \in {0} \cup Numbers /\ row.expires \in 1 .. Never
        /\ row.sealed \in {"old", "new"}
    BY DEF ShareRow
  <1>8. row.protected \in BOOLEAN
    BY Zenon DEF ShareRow
  <1>9. new \in ShareRow
    BY <1>2, <1>3, <1>4, <1>5, <1>6, <1>7, <1>8 DEF ShareRow
  <1> QED BY <1>1, <1>2, <1>3, <1>4, <1>5, <1>6, <1>9 DEF ShareFollows, SameSelection

LEMMA ResealedFollows ==
    ASSUME NEW row \in ShareRow
    PROVE  ShareFollows(Resealed(row), row)
  <1>1. PICK new : new = Resealed(row)
    OBVIOUS
  <1>2. /\ DOMAIN row = {"branch", "scope", "pin", "protected", "expires", "status", "by",
                        "sealed", "stamp"}
        /\ row = [k \in DOMAIN row |-> row[k]]
        /\ row.stamp \in Nat
    BY DEF ShareRow
  <1>3. /\ DOMAIN new = DOMAIN row /\ new = [k \in DOMAIN row |-> new[k]]
        /\ new.stamp = row.stamp + 1
    BY <1>1, <1>2 DEF Resealed
  <1>4. /\ new.branch = row.branch /\ new.scope = row.scope /\ new.pin = row.pin
        /\ new.expires = row.expires
    BY <1>1, <1>2 DEF Resealed
  <1>5. new.protected = row.protected
    BY <1>1, <1>2, Zenon DEF Resealed
  <1>6. new.status = row.status /\ new.by = row.by /\ new.sealed = "new"
    BY <1>1, <1>2 DEF Resealed
  <1>7. /\ row.branch \in Branches /\ row.scope \in {"latest", "fixed", "all"}
        /\ row.pin \in {0} \cup Numbers /\ row.expires \in 1 .. Never
        /\ row.status \in {"active", "revoked"} /\ row.by \in Users \cup {None}
    BY DEF ShareRow
  <1>8. row.protected \in BOOLEAN
    BY Zenon DEF ShareRow
  <1>9. new \in ShareRow
    BY <1>2, <1>3, <1>4, <1>5, <1>6, <1>7, <1>8 DEF ShareRow
  <1> QED BY <1>1, <1>2, <1>3, <1>4, <1>5, <1>6, <1>9 DEF ShareFollows, SameSelection

LEMMA NewShareSaved ==
    ASSUME ShareInvariant, NEW c \in Clients, SaveNewShare(c)
    PROVE  ShareInvariant' /\ SharesAdvance
  <1>0. /\ UNCHANGED <<rows, proofs>> /\ ShareRows /\ Formed /\ ShareRequest(call[c])
        /\ share = [s \in Shares |-> share[s]]
    BY DEF SaveNewShare, ShareInvariant, ShareRows, ShareTable
  <1>1. call'[c].kind = "none" /\ (\A d \in Clients \ {c} : call'[d] = call[d]) /\ Formed'
    BY <1>0, Left DEF SaveNewShare
  <1>2. ShareRequest(call[c])'
    BY <1>1, NoShareRequest DEF AnonymousKinds, ReadKinds
  <1>3. CASE share' = share
    <2>1. SharesAdvance
      BY <1>0, <1>3, UnchangedSharesAdvance
    <2> QED BY <1>0, <1>1, <1>2, <1>3, <2>1, ShareStepKeeps
  <1>4. CASE share' = [share EXCEPT ![call[c].share] = call[c].row]
    <2>1. PICK q : q = call[c]
      OBVIOUS
    <2>2. /\ q.kind = "createShare" /\ q.share \in Shares /\ q.row \in ShareRow
          /\ share[q.share] = None
      BY <1>0, <2>1 DEF SaveNewShare, At, ShareRequest, ShareCreation
    <2>3. \A s \in Shares : IF s = q.share THEN share'[s] = q.row ELSE share'[s] = share[s]
      BY <1>0, <1>4, <2>1, <2>2
    <2>4. share' \in ShareTable
      BY <1>0, <1>4, <2>1, <2>2 DEF ShareRows, ShareTable
    <2>5. SharesAdvance
      BY <1>0, <2>2, <2>3, ShareFollowsItself DEF SharesAdvance, ShareRows, ShareTable
    <2>6. ShareRows' /\ WorkspaceGrows
      BY <1>0, <2>4, RowsAreStill
    <2> QED BY <1>1, <1>2, <2>1, <2>2, <2>3, <2>5, <2>6, ShareInvariantKept
  <1> QED BY <1>3, <1>4 DEF SaveNewShare

LEMMA RevokeSaved ==
    ASSUME ShareInvariant, NEW c \in Clients, CommitRevoke(c)
    PROVE  ShareInvariant' /\ SharesAdvance
  <1>0. /\ UNCHANGED <<rows, proofs>> /\ ShareRows /\ Formed /\ ShareRequest(call[c])
        /\ share = [s \in Shares |-> share[s]]
    BY DEF CommitRevoke, ShareInvariant, ShareRows, ShareTable
  <1>1. call'[c].kind = "none" /\ (\A d \in Clients \ {c} : call'[d] = call[d]) /\ Formed'
    BY <1>0, Left DEF CommitRevoke
  <1>2. ShareRequest(call[c])'
    BY <1>1, NoShareRequest DEF AnonymousKinds, ReadKinds
  <1>3. CASE share' = share
    <2>1. SharesAdvance
      BY <1>0, <1>3, UnchangedSharesAdvance
    <2> QED BY <1>0, <1>1, <1>2, <1>3, <2>1, ShareStepKeeps
  <1>4. CASE /\ share[call[c].share].stamp = call[c].row.stamp
             /\ share' = [share EXCEPT ![call[c].share] = Revoked(call[c].row, call[c].actor)]
    <2>1. PICK q : q = call[c]
      OBVIOUS
    <2>2. /\ q.share \in Shares /\ q.row \in ShareRow /\ q.actor \in Users
          /\ q.row.status = "active" /\ ShareFollows(share[q.share], q.row)
      BY <1>0, <2>1 DEF CommitRevoke, At, ShareRequest
    <2>3. share[q.share] = q.row /\ share[q.share] \in ShareRow
      BY <1>4, <2>1, <2>2 DEF ShareFollows
    <2>4. PICK new : new = Revoked(q.row, q.actor)
      OBVIOUS
    <2>5. ShareFollows(new, share[q.share]) /\ new \in ShareRow
      BY <2>2, <2>3, <2>4, RevokeFollows DEF ShareFollows
    <2>6. \A s \in Shares : IF s = q.share THEN share'[s] = new ELSE share'[s] = share[s]
      BY <1>0, <1>4, <2>1, <2>2, <2>4
    <2>7. share' \in ShareTable
      BY <1>0, <1>4, <2>1, <2>4, <2>5 DEF ShareRows, ShareTable
    <2>8. SharesAdvance
      BY <1>0, <2>5, <2>6, ShareFollowsItself DEF SharesAdvance, ShareRows, ShareTable
    <2>9. ShareRows' /\ WorkspaceGrows
      BY <1>0, <2>7, RowsAreStill
    <2>10. \A s \in Shares : share[s] = None => share'[s] = None
      BY <2>3, <2>6, ShareNoneAssumption
    <2> QED BY <1>1, <1>2, <2>8, <2>9, <2>10, ShareInvariantKept
  <1> QED BY <1>3, <1>4 DEF CommitRevoke

LEMMA RotationSaved ==
    ASSUME ShareInvariant, NEW c \in Clients, SaveRotation(c)
    PROVE  ShareInvariant' /\ SharesAdvance
  <1>0. /\ UNCHANGED <<rows, proofs>> /\ ShareRows /\ Formed /\ ShareRequest(call[c])
    BY DEF SaveRotation, ShareInvariant
  <1>1. call'[c].kind = "none" /\ (\A d \in Clients \ {c} : call'[d] = call[d]) /\ Formed'
    BY <1>0, Left DEF SaveRotation
  <1>2. ShareRequest(call[c])'
    BY <1>1, NoShareRequest DEF AnonymousKinds, ReadKinds
  <1>3. CASE share' = share
    <2>1. SharesAdvance
      BY <1>0, <1>3, UnchangedSharesAdvance
    <2> QED BY <1>0, <1>1, <1>2, <1>3, <2>1, ShareStepKeeps
  <1>4. CASE /\ LoadedIsCurrent(call[c])
             /\ share' = [s \in Shares |-> IF s \in Stale(call[c].shares)
                                  THEN Resealed(call[c].shares[s]) ELSE share[s]]
    <2>1. PICK loaded : loaded = call[c].shares
      OBVIOUS
    <2>2. SharesFollow(loaded)
      BY <1>0, <2>1 DEF SaveRotation, At, ShareRequest
    <2>3. ASSUME NEW s \in Stale(loaded)
          PROVE  /\ s \in Shares /\ share[s] \in ShareRow /\ share'[s] \in ShareRow
                 /\ ShareFollows(share'[s], share[s])
      <3>1. s \in Shares /\ loaded[s] \in ShareRow /\ ShareFollows(share[s], loaded[s])
        BY <2>2 DEF SharesFollow, Stale, ShareTable
      <3>2. share[s].stamp = loaded[s].stamp
        BY <1>4, <2>1 DEF LoadedIsCurrent
      <3>3. share[s] = loaded[s]
        BY <3>1, <3>2 DEF ShareFollows
      <3>4. share'[s] = Resealed(loaded[s])
        BY <1>4, <2>1, <3>1
      <3> QED BY <3>1, <3>3, <3>4, ResealedFollows DEF ShareFollows
    <2>4. ASSUME NEW s \in Shares \ Stale(loaded)
          PROVE  share'[s] = share[s]
      BY <1>4, <2>1
    <2>5. share' \in ShareTable
      BY <1>0, <1>4, <2>1, <2>3, <2>4 DEF ShareRows, ShareTable
    <2>6. SharesAdvance
      BY <1>0, <2>3, <2>4, ShareFollowsItself DEF SharesAdvance, ShareRows, ShareTable
    <2>7. ShareRows' /\ WorkspaceGrows
      BY <1>0, <2>5, RowsAreStill
    <2>8. \A s \in Shares : share[s] = None => share'[s] = None
      BY <2>3, <2>4, ShareNoneAssumption
    <2> QED BY <1>1, <1>2, <2>6, <2>7, <2>8, ShareInvariantKept
  <1> QED BY <1>3, <1>4 DEF SaveRotation

LEMMA RotationReadsShares ==
    ASSUME ShareInvariant, NEW c \in Clients, RotateCiphertexts(c)
    PROVE  ShareInvariant'
  <1>0. /\ UNCHANGED <<rows, share, proofs>> /\ ShareRows /\ Formed
    BY DEF RotateCiphertexts, ShareInvariant, shareVars
  <1>1. PICK r : r = [kind |-> "rotate", step |-> "ready", tokens |-> token, shares |-> share]
    OBVIOUS
  <1>2. /\ r.kind = "rotate" /\ r.shares = share /\ {"kind", "step"} \subseteq DOMAIN r
        /\ Enter(c, r)
    BY <1>1 DEF RotateCiphertexts
  <1>3. SharesFollow(r.shares)'
    BY <1>0, <1>2, ShareFollowsItself DEF SharesFollow, ShareRows, ShareTable
  <1>4. ShareRequest(r)'
    BY <1>2, <1>3 DEF ShareRequest, AnonymousKinds, ReadKinds
  <1>5. call'[c] = r /\ (\A d \in Clients \ {c} : call'[d] = call[d]) /\ Formed'
    BY <1>0, <1>2, Entered, EnteredIsFormed
  <1> QED BY <1>0, <1>2, <1>4, <1>5, ShareStepKeeps

-----------------------------------------------------------------------------
(* Shares: all steps                                                       *)

LEMMA EventsGrow ==
    ASSUME WorkspaceEvent, ShareRows
    PROVE  /\ published' \in [Branches -> Nat] /\ now' \in Times
           /\ \A b \in Branches : published'[b] >= published[b]
  <1>1. now' \in Times
    BY EventsMoveTime DEF ShareRows
  <1>2. CASE \E b \in Branches : Publish(b)
    <2>1. PICK b \in Branches : Publish(b)
      BY <1>2
    <2>2. published' = [published EXCEPT ![b] = @ + 1] /\ published \in [Branches -> Nat]
      BY <2>1 DEF Publish, ShareRows
    <2> QED BY <1>1, <2>2
  <1>3. CASE published' = published
    BY <1>1, <1>3 DEF ShareRows
  <1> QED BY <1>2, <1>3 DEF WorkspaceEvent, SwitchAccount, ChangeRole, Archive, Tick

\* An event, or nothing.
LEMMA EventsKeepShares ==
    ASSUME ShareInvariant, UNCHANGED <<call, shareVars>>,
           published' \in [Branches -> Nat], now' \in Times,
           \A b \in Branches : published'[b] >= published[b]
    PROVE  ShareInvariant' /\ SharesAdvance
  <1>1. Formed' /\ ShareRows' /\ WorkspaceGrows /\ SharesAdvance /\ share' = share
    BY UnchangedSharesAdvance
    DEF ShareInvariant, Formed, ShareRows, WorkspaceGrows, shareVars
  <1>2. ASSUME NEW d \in Clients
        PROVE  ShareRequest(call[d])'
    <2>1. ShareRequest(call[d]) /\ ShareRows
      BY DEF ShareInvariant
    <2>2. call[d].kind = "createShare" => share'[call[d].share] = None
      BY <1>1, <2>1 DEF ShareRequest
    <2> QED BY <1>1, <2>1, <2>2, WaitingShareRequest
  <1> QED BY <1>1, <1>2 DEF ShareInvariant

\* Requests that have nothing to do with shares.
LEMMA OthersKeepShares ==
    ASSUME ShareInvariant, UNCHANGED <<rows, shareVars>>,
           NEW kinds, Moves(kinds), kinds \cap (ShareKinds \cup {"rotate"}) = {}
    PROVE  ShareInvariant' /\ SharesAdvance
  <1>1. PICK c \in Clients : /\ call'[c].kind \in kinds \cup {"none"}
                             /\ \A d \in Clients \ {c} : call'[d] = call[d]
    BY DEF Moves
  <1>2. call'[c].kind \notin {"createShare", "revokeShare", "rotate"} \cup AnonymousKinds
    BY <1>1 DEF ShareKinds, AnonymousKinds, ReadKinds
  <1>3. ShareRequest(call[c])' /\ Formed' /\ call'[c].kind # "createShare"
    BY <1>2, NoShareRequest DEF Moves
  <1>4. UNCHANGED <<rows, share>> /\ proofs \subseteq proofs'
    BY DEF shareVars
  <1> QED BY <1>1, <1>3, <1>4, ShareStepKeeps

LEMMA TokensLeaveRows ==
    ASSUME TokenNext
    PROVE  UNCHANGED rows
  <1>1. PICK c \in Clients : TokenReads(c) \/ TokenSaves(c)
    BY TokenSteps DEF TokenReads, TokenSaves
  <1> QED BY <1>1, TokenFrame

LEMMA ShareInvariantHoldsOn ==
    ASSUME ShareInvariant, [Next]_vars
    PROVE  ShareInvariant' /\ SharesAdvance
  <1>0. Formed /\ ShareRows
    BY DEF ShareInvariant
  <1>1. CASE WorkspaceEvent /\ UNCHANGED <<shareVars, tokenVars, chatVars, libraryVars>>
    <2>1. UNCHANGED call
      BY <1>0, <1>1, EventsMoveTime DEF ShareRows
    <2> QED BY <1>0, <1>1, <2>1, EventsGrow, EventsKeepShares
  <1>2. CASE ShareNext
    <2>1. PICK c \in Clients : ShareReads(c) \/ SaveNewShare(c) \/ CommitRevoke(c)
      BY <1>2, ShareSteps DEF ShareReads
    <2>2. CASE ShareReads(c)
      <3>1. SharesAdvance
        BY <1>0, <2>2, ShareFrame, UnchangedSharesAdvance
      <3> QED BY <2>2, <3>1, CreationBegins, VisitBegins, AdministrationReads, Loads,
                 ReadersRead DEF ShareReads
    <2> QED BY <2>1, <2>2, NewShareSaved, RevokeSaved
  <1>3. CASE TokenNext /\ UNCHANGED <<shareVars, chatVars, libraryVars>>
    <2>1. CASE UNCHANGED call
      BY <1>0, <1>3, <2>1, TokensLeaveRows, EventsKeepShares DEF ShareRows, rows, Times
    <2>2. CASE Moves(TokenKinds)
      BY <1>3, <2>2, TokensLeaveRows, OthersKeepShares
      DEF TokenKinds, ShareKinds, AnonymousKinds, ReadKinds
    <2> QED BY <1>0, <1>3, <2>1, <2>2, TokenStepsMove
  <1>4. CASE RotationNext
    <2>1. PICK c \in Clients : RotateCiphertexts(c) \/ SaveRotation(c)
      BY <1>4 DEF RotationNext
    <2>2. CASE RotateCiphertexts(c)
      <3>1. SharesAdvance
        BY <1>0, <2>2, UnchangedSharesAdvance DEF RotateCiphertexts, shareVars
      <3> QED BY <2>2, <3>1, RotationReadsShares
    <2> QED BY <2>1, <2>2, RotationSaved
  <1>5. CASE ChatNext /\ UNCHANGED <<shareVars, tokenVars, libraryVars>>
    <2>1. ChatKinds \cap (ShareKinds \cup {"rotate"}) = {}
      BY DEF ChatKinds, ShareKinds, AnonymousKinds, ReadKinds
    <2> QED BY <1>0, <1>5, <2>1, ChatStepsMove, ConversationsLeaveRows, OthersKeepShares
  <1>6. CASE LibraryNext /\ UNCHANGED <<shareVars, tokenVars, chatVars>>
    <2>1. LibraryKinds \cap (ShareKinds \cup {"rotate"}) = {}
      BY DEF LibraryKinds, ShareKinds, AnonymousKinds, ReadKinds
    <2> QED BY <1>0, <1>6, <2>1, LibraryStepsMove, LibraryLeavesRows, OthersKeepShares
  <1>7. CASE UNCHANGED vars
    BY <1>0, <1>7, EventsKeepShares DEF vars, rows, ShareRows, Times
  <1> QED BY <1>1, <1>2, <1>3, <1>4, <1>5, <1>6, <1>7 DEF Next

LEMMA ShareInvariantHolds == Spec => []ShareInvariant
  <1>1. Init => ShareInvariant
    <2> SUFFICES ASSUME Init PROVE ShareInvariant
      OBVIOUS
    <2>1. /\ call = [c \in Clients |-> Idle]
          /\ \A c \in Clients : call[c].kind = "none" /\ {"kind", "step"} \subseteq DOMAIN call[c]
      BY DEF Init, WorkspaceInit, Idle
    <2>2. ShareRows
      BY WorkspaceAssumption DEF Init, ShareInit, WorkspaceInit, ShareRows, ShareTable, Times
    <2> QED BY <2>1, <2>2 DEF ShareInvariant, Formed, ShareRequest, AnonymousKinds, ReadKinds
  <1>2. ShareInvariant /\ [Next]_vars => ShareInvariant'
    BY ShareInvariantHoldsOn
  <1> QED BY <1>1, <1>2, PTL DEF Spec

-----------------------------------------------------------------------------
(* Shares: withdrawn                                                       *)

\* A share that was withdrawn stays withdrawn, by whom it was; a token that was
\* revoked stays revoked, and the time of its last use does not go back: lists that
\* mark what expired, calls that keep the time of use, a second revocation and the
\* rotation of ciphertexts all save rows they loaded before.
THEOREM WithdrawnIsFinal == Spec => WithdrawnStaysWithdrawn
  <1>1. ShareInvariant /\ [Next]_vars =>
           [\A s \in Shares : share[s] # None /\ share[s].status = "revoked" =>
              share'[s].status = "revoked" /\ share'[s].by = share[s].by]_share
    BY ShareInvariantHoldsOn DEF SharesAdvance, ShareFollows
  <1>2. TokenInvariant /\ [Next]_vars =>
           [\A t \in Tokens : token[t] # None =>
              /\ token[t].status = "revoked" => token'[t].status = "revoked"
              /\ token'[t].used >= token[t].used]_token
    BY TokenInvariantHoldsOn DEF TokensAdvance, TokenFollows
  <1>3. Spec => RevokedShares
    BY <1>1, ShareInvariantHolds, PTL DEF Spec, RevokedShares
  <1>4. Spec => RevokedTokens
    BY <1>2, TokenInvariantHolds, PTL DEF Spec, RevokedTokens
  <1> QED BY <1>3, <1>4 DEF WithdrawnStaysWithdrawn

-----------------------------------------------------------------------------
(* Shares: only what is shared                                             *)

\* SharesOpenOnlyWhatIsShared of one request and of one share.
AccessOf(c) ==
    /\ Answered(c) =>
          /\ IsAvailable(call[c].share)
          /\ \A n \in call[c].shown : WithinScope(call[c], n)
          /\ share[call[c].share].protected => \E p \in proofs : p.share = call[c].share
    /\ Shown(c) => IsAvailable(call[c].share) /\ CanPublish(call[c].actor)

CreationOf(s) ==
    Created(s) =>
        /\ \E c \in Clients : At(c, {"createShare"}, "ready") /\ CanPublish(call[c].actor)
        /\ Live(share'[s].branch)
        /\ \E n \in 1 .. published[share'[s].branch] : share'[s].pin \in {0, n}

LEMMA WaitingAccess ==
    ASSUME NEW c, call'[c] = call[c]
    PROVE  AccessOf(c)
  BY DEF AccessOf, Answered, Shown, At

LEMMA OtherAccess ==
    ASSUME NEW c, call[c].kind \notin ReadKinds \cup {"revealShare"}
    PROVE  AccessOf(c)
  BY DEF AccessOf, Answered, Shown, At

LEMMA MovedOthersAccess ==
    ASSUME NEW kinds, Moves(kinds), kinds \cap ShareKinds = {}, NEW c \in Clients
    PROVE  AccessOf(c)
  <1>1. call'[c] = call[c] \/ call[c].kind \in kinds \cup {"none"}
    BY DEF Moves
  <1>2. ReadKinds \cup {"revealShare"} \subseteq ShareKinds /\ "none" \notin ShareKinds
    BY DEF ShareKinds, AnonymousKinds, ReadKinds
  <1> QED BY <1>1, <1>2, WaitingAccess, OtherAccess

LEMMA NothingCreated ==
    ASSUME ShareRows, \A s \in Shares : share[s] = None => share'[s] = None, NEW s \in Shares
    PROVE  CreationOf(s)
  BY DEF CreationOf, Created

LEMMA ShareStepOfOne ==
    ASSUME Formed, NEW c \in Clients, ShareReads(c) \/ SaveNewShare(c) \/ CommitRevoke(c)
    PROVE  \A d \in Clients \ {c} : call'[d] = call[d]
  <1>1. CASE BeginsCreateShare(c)
    <2>1. PICK u, s, b, scope, pin, protected, expires :
              CreateDocumentShare(c, u, s, b, scope, pin, protected, expires)
      BY <1>1, Zenon DEF BeginsCreateShare
    <2> QED BY <2>1, Entered DEF CreateDocumentShare
  <1>2. CASE BeginsRevealShare(c) \/ BeginsRevokeShare(c) \/ BeginsVisit(c)
    BY <1>2, Entered
    DEF BeginsRevealShare, BeginsRevokeShare, BeginsVisit, RevealDocumentShare,
        RevokeDocumentShare, Visit
  <1>3. CASE SharePasswordHashed(c) \/ CommitReveal(c) \/ UnlockPublicDocumentShare(c)
               \/ RecordPublicDocumentShareAccess(c)
    BY <1>3, Gone, Left DEF SharePasswordHashed, CommitReveal, UnlockPublicDocumentShare,
       RecordPublicDocumentShareAccess
  <1>4. CASE SaveNewShare(c) \/ ShowSecret(c) \/ CommitRevoke(c) \/ SendAnswer(c)
               \/ SignDocumentShareUnlockProof(c) \/ WrongPassword(c)
    BY <1>4, Left DEF SaveNewShare, ShowSecret, CommitRevoke, SendAnswer,
       SignDocumentShareUnlockProof, WrongPassword
  <1>5. CASE LoadPublicDocumentShareSnapshot(c)
    <2>1. PICK r : Enter(c, r)
      BY <1>5, Zenon DEF LoadPublicDocumentShareSnapshot
    <2> QED BY <2>1, Entered
  <1>6. CASE AuthorizePublicShare(c)
    <2>1. Leave(c) \/ \E r : Enter(c, r)
      BY <1>6, Zenon DEF AuthorizePublicShare
    <2> QED BY <2>1, Entered, Left
  <1> QED BY <1>1, <1>2, <1>3, <1>4, <1>5, <1>6 DEF ShareReads

\* What a request that is to be answered shows is covered by its share.
LEMMA ShownIsShared ==
    ASSUME ShareRows, NEW r, ReaderRequest(r), r.kind \in ReadKinds, r.step = "admitted",
           NEW n \in r.shown
    PROVE  WithinScope(r, n)
  <1>1. PICK row : row = share[r.share]
    OBVIOUS
  <1>2. PICK seen : seen = r.seen
    OBVIOUS
  <1>3. /\ row \in ShareRow /\ published[row.branch] \in Nat
        /\ r.step \in HasRow /\ r.step \in HasLoaded /\ r.step \in HasAnswer
    BY <1>1 DEF ReaderRequest, ShareRows, ShareTable, ShareRow, ReaderSteps, HasRow,
       HasLoaded, HasAnswer
  <1>4. /\ seen.row.scope = row.scope /\ seen.row.pin = row.pin
        /\ seen.count \in Nat /\ r.since \in Nat /\ r.since <= seen.count
        /\ seen.count <= published[row.branch] /\ r.shown = Answer(r)
    BY <1>1, <1>2, <1>3 DEF ReaderRequest, ShareFollows, SameSelection
  <1>5. Answer(r) \subseteq PublishedSnapshotVersions(seen)
    BY <1>2 DEF Answer, AllowedSnapshotVersion
  <1>6. /\ n \in 1 .. seen.count
        /\ seen.row.scope = "fixed" => n = seen.row.pin
    BY <1>4, <1>5 DEF PublishedSnapshotVersions
  <1>7. ASSUME seen.row.scope = "latest"
        PROVE  n = seen.count
    <2>1. PublishedSnapshotVersions(seen) = 1 .. seen.count
      BY <1>7 DEF PublishedSnapshotVersions
    <2>2. CASE r.kind = "metadata"
      <3>1. \A m \in 1 .. seen.count : m <= n
        BY <1>2, <1>4, <2>1, <2>2 DEF Answer
      <3>2. seen.count \in 1 .. seen.count
        BY <1>4, <1>6
      <3> QED BY <1>4, <1>6, <3>1, <3>2
    <2>3. CASE r.kind = "versions"
      BY <1>2, <1>4, <1>7, <2>3 DEF Answer
    <2>4. CASE r.kind \notin {"metadata", "versions"}
      BY <1>2, <1>4, <1>7, <2>4 DEF Answer, AllowedSnapshotVersion
    <2> QED BY <2>2, <2>3, <2>4
  <1> QED BY <1>1, <1>3, <1>4, <1>6, <1>7 DEF WithinScope

LEMMA AnswersAreShared ==
    ASSUME ShareInvariant, NEW c \in Clients, RecordPublicDocumentShareAccess(c)
    PROVE  AccessOf(c)
  <1>0. Formed /\ ShareRows /\ ShareRequest(call[c])
    BY DEF ShareInvariant
  <1>1. PICK r : r = call[c]
    OBVIOUS
  <1>2. r.kind \in ReadKinds /\ r.step = "admitted" /\ ReaderRequest(r)
    BY <1>0, <1>1
    DEF RecordPublicDocumentShareAccess, At, ShareRequest, AnonymousKinds
  <1>3. ~Shown(c)
    BY <1>1, <1>2 DEF Shown, At
  <1>4. CASE Leave(c)
    <2>1. ~Answered(c)
      BY <1>0, <1>4, Left DEF Answered, Idle
    <2> QED BY <1>3, <2>1 DEF AccessOf
  <1>5. CASE StillAvailable(r)
    <2>1. IsAvailable(r.share)
      BY <1>5 DEF StillAvailable, IsAvailable
    <2>2. \A n \in r.shown : WithinScope(r, n)
      BY <1>0, <1>2, ShownIsShared
    <2>3. share[r.share].protected => \E p \in proofs : p.share = r.share
      <3>1. /\ r.step \in HasRow /\ r.step \in HasAnswer
        BY <1>2 DEF HasRow, HasAnswer, ReaderSteps
      <3>2. share[r.share].protected = r.seen.row.protected
        BY <1>2, <3>1, Zenon DEF ReaderRequest, ShareFollows, SameSelection
      <3> QED BY <1>2, <3>1, <3>2 DEF ReaderRequest
    <2> QED BY <1>1, <1>3, <2>1, <2>2, <2>3 DEF AccessOf
  <1> QED BY <1>1, <1>4, <1>5 DEF RecordPublicDocumentShareAccess

LEMMA SecretsAreShownToAdministrators ==
    ASSUME ShareInvariant, NEW c \in Clients, CommitReveal(c)
    PROVE  AccessOf(c)
  <1>0. Formed
    BY DEF ShareInvariant
  <1>1. ~Answered(c)
    BY DEF CommitReveal, Answered, At, ReadKinds
  <1>2. CASE Leave(c)
    <2>1. ~Shown(c)
      BY <1>0, <1>2, Left DEF Shown, Idle
    <2> QED BY <1>1, <2>1 DEF AccessOf
  <1>3. CASE /\ Permitted(call[c].actor, "admin") /\ Live(share[call[c].share].branch)
             /\ Open(share[call[c].share])
    BY <1>1, <1>3 DEF AccessOf, Permitted, IsAvailable
  <1> QED BY <1>2, <1>3 DEF CommitReveal

LEMMA SharesAreCreatedByAdministrators ==
    ASSUME ShareInvariant, NEW c \in Clients, SaveNewShare(c), NEW s \in Shares
    PROVE  CreationOf(s)
  <1>1. PICK r : r = call[c]
    OBVIOUS
  <1>2. CASE share' = share
    BY <1>2 DEF CreationOf, Created
  <1>3. CASE /\ Permitted(r.actor, "admin") /\ ActiveParents(r.row)
             /\ share' = [share EXCEPT ![r.share] = r.row]
    <2>1. /\ r \in ShareCreation /\ Selects(r.row) /\ At(c, {"createShare"}, "ready")
          /\ share = [x \in Shares |-> share[x]]
      BY <1>1 DEF SaveNewShare, At, ShareInvariant, ShareRequest, ShareRows, ShareTable
    <2>2. CASE s # r.share
      BY <1>3, <2>1, <2>2 DEF CreationOf, Created
    <2>3. CASE s = r.share
      <3>1. share'[s] = r.row
        BY <1>3, <2>1, <2>3 DEF ShareCreation
      <3>2. CanPublish(call[c].actor) /\ Live(r.row.branch)
        BY <1>1, <1>3 DEF Permitted, ActiveParents
      <3>3. published[r.row.branch] \in Nat
        BY <2>1 DEF Selects, ShareInvariant, ShareRows
      <3>4. \E n \in 1 .. published[r.row.branch] : r.row.pin \in {0, n}
        BY <2>1, <3>3 DEF Selects
      <3> QED BY <2>1, <3>1, <3>2, <3>4 DEF CreationOf
    <2> QED BY <2>2, <2>3
  <1> QED BY <1>1, <1>2, <1>3 DEF SaveNewShare

LEMMA ShareStepsAreWithinRights ==
    ASSUME ShareInvariant, [Next]_vars
    PROVE  (\A c \in Clients : AccessOf(c)) /\ (\A s \in Shares : CreationOf(s))
  <1>0. Formed /\ ShareRows
    BY DEF ShareInvariant
  <1>1. CASE WorkspaceEvent /\ UNCHANGED <<shareVars, tokenVars, chatVars, libraryVars>>
    BY <1>0, <1>1, EventsMoveTime, WaitingAccess, NothingCreated DEF ShareRows, shareVars
  <1>2. CASE ShareNext
    <2>1. PICK c \in Clients : ShareReads(c) \/ SaveNewShare(c) \/ CommitRevoke(c)
      BY <1>2, ShareSteps DEF ShareReads
    <2>2. \A d \in Clients \ {c} : AccessOf(d)
      BY <1>0, <2>1, ShareStepOfOne, WaitingAccess
    <2>3. AccessOf(c)
      <3>1. CASE BeginsCreateShare(c) \/ BeginsRevealShare(c) \/ BeginsRevokeShare(c)
                   \/ BeginsVisit(c)
        <4>1. call[c].kind = "none"
          BY <3>1, FreeIsNone DEF BeginsCreateShare, BeginsRevealShare, BeginsRevokeShare,
             BeginsVisit
        <4> QED BY <4>1, OtherAccess DEF ReadKinds
      <3>2. CASE SharePasswordHashed(c) \/ SaveNewShare(c) \/ CommitRevoke(c)
                   \/ UnlockPublicDocumentShare(c) \/ SignDocumentShareUnlockProof(c)
                   \/ WrongPassword(c)
        <4>1. call[c].kind \in {"createShare", "revokeShare", "unlock"}
          BY <3>2 DEF SharePasswordHashed, SaveNewShare, CommitRevoke,
             UnlockPublicDocumentShare, SignDocumentShareUnlockProof, WrongPassword, At
        <4> QED BY <4>1, OtherAccess DEF ReadKinds
      <3>3. CASE LoadPublicDocumentShareSnapshot(c) \/ AuthorizePublicShare(c)
                   \/ SendAnswer(c)
        <4>1. call[c].kind # "revealShare" /\ call[c].step # "admitted"
          BY <3>3 DEF LoadPublicDocumentShareSnapshot, AuthorizePublicShare, SendAnswer, At,
             ReadOrder, ReadKinds
        <4> QED BY <4>1 DEF AccessOf, Answered, Shown, At
      <3>4. CASE ShowSecret(c)
        BY <3>4 DEF ShowSecret, AccessOf, Answered, Shown, At, ReadKinds
      <3> QED BY <2>1, <3>1, <3>2, <3>3, <3>4, AnswersAreShared,
                 SecretsAreShownToAdministrators DEF ShareReads
    <2>4. ASSUME NEW s \in Shares
          PROVE  CreationOf(s)
      <3>1. CASE ShareReads(c)
        BY <1>0, <3>1, ShareFrame DEF CreationOf, Created
      <3>2. CASE CommitRevoke(c)
        <4>1. call[c].share \in Shares /\ ShareFollows(share[call[c].share], call[c].row)
          BY <3>2 DEF CommitRevoke, At, ShareInvariant, ShareRequest
        <4>2. share[call[c].share] # None
          BY <4>1, ShareNoneAssumption DEF ShareFollows
        <4>3. s # call[c].share => share'[s] = share[s]
          BY <1>0, <3>2 DEF CommitRevoke, ShareRows, ShareTable
        <4> QED BY <4>2, <4>3 DEF CreationOf, Created
      <3> QED BY <2>1, <3>1, <3>2, SharesAreCreatedByAdministrators
    <2> QED BY <2>2, <2>3, <2>4
  <1>3. CASE TokenNext /\ UNCHANGED <<shareVars, chatVars, libraryVars>>
    <2>1. TokenKinds \cap ShareKinds = {}
      BY KindsApart
    <2> QED BY <1>0, <1>3, <2>1, TokenStepsMove, WaitingAccess, MovedOthersAccess,
               NothingCreated DEF shareVars
  <1>4. CASE RotationNext
    <2>1. {"rotate"} \cap ShareKinds = {}
      BY KindsApart
    <2>2. \A c \in Clients : AccessOf(c)
      BY <1>0, <1>4, <2>1, RotationStepsMove, MovedOthersAccess
    <2>3. PICK c \in Clients : RotateCiphertexts(c) \/ SaveRotation(c)
      BY <1>4 DEF RotationNext
    <2>4. \A s \in Shares : share[s] = None => share'[s] = None
      <3>1. CASE share' = share
        BY <3>1
      <3>2. CASE /\ SaveRotation(c)
                 /\ share' = [s \in Shares |-> IF s \in Stale(call[c].shares)
                                  THEN Resealed(call[c].shares[s]) ELSE share[s]]
        <4>1. SharesFollow(call[c].shares)
          BY <3>2 DEF SaveRotation, At, ShareInvariant, ShareRequest
        <4>2. \A s \in Stale(call[c].shares) : s \in Shares /\ share[s] # None
          BY <4>1, ShareNoneAssumption DEF SharesFollow, Stale, ShareTable, ShareFollows
        <4> QED BY <3>2, <4>2
      <3> QED BY <2>3, <3>1, <3>2 DEF RotateCiphertexts, SaveRotation, shareVars
    <2> QED BY <1>0, <2>2, <2>4, NothingCreated
  <1>5. CASE ChatNext /\ UNCHANGED <<shareVars, tokenVars, libraryVars>>
    <2>1. ChatKinds \cap ShareKinds = {}
      BY KindsApart
    <2> QED BY <1>0, <1>5, <2>1, ChatStepsMove, MovedOthersAccess, NothingCreated
        DEF shareVars
  <1>6. CASE LibraryNext /\ UNCHANGED <<shareVars, tokenVars, chatVars>>
    <2>1. LibraryKinds \cap ShareKinds = {}
      BY KindsApart
    <2> QED BY <1>0, <1>6, <2>1, LibraryStepsMove, MovedOthersAccess, NothingCreated
        DEF shareVars
  <1>7. CASE UNCHANGED vars
    BY <1>0, <1>7, WaitingAccess, NothingCreated DEF vars, shareVars
  <1> QED BY <1>1, <1>2, <1>3, <1>4, <1>5, <1>6, <1>7 DEF Next

\* Whatever is withdrawn, archived, published or changed while requests run, a reader
\* is answered only through a share that is then neither withdrawn nor expired, with
\* versions that its scope covers, and secrets are shown and shares created only by
\* those who then administer the project: what RecordPublicDocumentShareAccess and the
\* guards of the other transactions decide again.
THEOREM SharesOpenWithinScope == Spec => SharesOpenOnlyWhatIsShared
  <1> DEFINE Body ==
       /\ \A c \in Clients : LET r == call[c] IN
            /\ Answered(c) =>
                  /\ IsAvailable(r.share)
                  /\ \A n \in r.shown : WithinScope(r, n)
                  /\ share[r.share].protected => \E p \in proofs : p.share = r.share
            /\ Shown(c) => IsAvailable(r.share) /\ CanPublish(r.actor)
       /\ \A s \in Shares : Created(s) =>
            /\ \E c \in Clients : At(c, {"createShare"}, "ready") /\ CanPublish(call[c].actor)
            /\ Live(share'[s].branch)
            /\ \E n \in 1 .. published[share'[s].branch] : share'[s].pin \in {0, n}
  <1>1. ShareInvariant /\ [Next]_vars => [Body]_<<rows, call, shareVars>>
    BY ShareStepsAreWithinRights DEF AccessOf, CreationOf
  <1>2. Spec => [][Body]_<<rows, call, shareVars>>
    <2> HIDE DEF Body
    <2> QED BY <1>1, ShareInvariantHolds, PTL DEF Spec
  <1> QED BY <1>2 DEF SharesOpenOnlyWhatIsShared

=============================================================================
