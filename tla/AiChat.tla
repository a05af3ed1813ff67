-------------------------------- MODULE AiChat ---------------------------------
(***************************************************************************)
(* Conversations with a language model about a document or one of its      *)
(* versions, and the configuration they use.                               *)
(*                                                                         *)
(* A message reserves its session under a fresh token, the latest one      *)
(* winning; reads the session again; asks the provider, passing fragments  *)
(* of the answer on to the reader; and stores question and answer together *)
(* in a transaction that gives the reservation up.  Rights, sources,       *)
(* configuration and the conversation so far must then be what the answer  *)
(* was made from.  Anything else only gives up a reservation that is the   *)
(* request's own.                                                          *)
(*                                                                         *)
(* serial stands for time stamps and fresh ids: it orders reservations,    *)
(* questions and answers.                                                  *)
(***************************************************************************)
EXTENDS Workspace

CONSTANTS
    Sessions,
    Modes,          \* how providers answer: "stream", "responses", "whole"
    MaxSerial,      \* bound: reservations, questions and answers
    MaxRevision,    \* bound: writes of a setting
    MaxFragments    \* bound: fragments of an answer

ASSUME ChatAssumption ==
    /\ Modes \subseteq {"stream", "responses", "whole"}
    /\ MaxSerial \in Nat /\ MaxRevision \in Nat \ {0} /\ MaxFragments \in Nat \ {0}

VARIABLES
    session,    \* ai_chat_sessions: what each is about and who reserved it
    messages,   \* ai_chat_messages
    settings,   \* ai_providers and ai_prompt_overrides of the chat page
    serial

chatVars == <<session, messages, settings, serial>>

Targets == {"document"} \cup Branches
Stamps == 1 .. MaxSerial
Parts == {"provider", "prompt"}
Owners == {"system", "project"}

\* A revision is a content that requests tell apart.
Setting == [enabled : BOOLEAN, revision : 1 .. MaxRevision]
Session == [target : Targets, token : {0} \cup Stamps]

ASSUME ChatNoneAssumption == None \notin Session

\* knew: the messages an answer was made with.
Message == [session : Sessions, role : {"user", "assistant"}, at : Stamps,
            knew : SUBSET Stamps]

\* The provider and the prompt that apply, and the sources of an answer.
Basis ==
    [provider : {None} \cup (Owners \X Setting), prompt : {None} \cup (Owners \X Setting),
     published : [Branches -> 0 .. MaxVersions] \cup {None},
     archived : SUBSET Branches]

ChatCall ==
    [kind : {"createChat"}, step : {"ready"}, actor : Users, session : Sessions,
     target : Targets, basis : Basis] \cup
    [kind : {"chat"},
     step : {"reserving", "rebuilding", "asking", "finishing", "saving", "releasing"},
     actor : Users, session : Sessions, basis : Basis, token : {0} \cup Stamps,
     asked : {0} \cup Stamps, knew : SUBSET Stamps, mode : Modes,
     heard : 0 .. MaxFragments, ended : {"no", "stop", "length"},
     answered : BOOLEAN, checked : {0} \cup 1 .. MaxTime + 1] \cup
    [kind : {"configure"}, step : {"ready"}, actor : Users, owner : Owners,
     part : Parts, enabled : BOOLEAN, loaded : Setting \cup {None}] \cup
    [kind : {"testProvider"}, step : {"asking", "auditing", "audited"}, actor : Users,
     owner : Owners]

ChatTypeOK ==
    /\ session \in [Sessions -> Session \cup {None}]
    /\ messages \subseteq Message
    /\ settings \in [Owners -> [Parts -> Setting \cup {None}]]
    /\ serial \in 0 .. MaxSerial

\* The system has a provider and the built-in prompt.
ChatInit ==
    /\ session = [s \in Sessions |-> None]
    /\ messages = {}
    /\ settings = [o \in Owners |-> [p \in Parts |->
                      IF o = "system" /\ p = "provider"
                        THEN [enabled |-> TRUE, revision |-> 1] ELSE None]]
    /\ serial = 0

-----------------------------------------------------------------------------
(* Configuration                                                           *)

IsOn(setting) == setting # None /\ setting.enabled

\* A project's provider applies while it is enabled, and the system's otherwise.
EffectiveProvider ==
    CASE IsOn(settings["project"]["provider"]) -> <<"project", settings["project"]["provider"]>>
      [] ~IsOn(settings["project"]["provider"]) /\ IsOn(settings["system"]["provider"]) ->
            <<"system", settings["system"]["provider"]>>
      [] OTHER -> None

\* A project's prompt applies even when it is disabled; None is the built-in one.
EffectivePrompt ==
    CASE settings["project"]["prompt"] # None -> <<"project", settings["project"]["prompt"]>>
      [] settings["project"]["prompt"] = None /\ settings["system"]["prompt"] # None ->
            <<"system", settings["system"]["prompt"]>>
      [] OTHER -> None

PromptEnabled == EffectivePrompt # None => EffectivePrompt[2].enabled

MayConfigure(u, owner) == IF owner = "system" THEN IsSuper(u) ELSE CanPublish(u)
OwnerActive(owner) == owner = "project" => "project" \notin archived

Upsert(c, u, owner, part, enabled) ==
    /\ MayConfigure(u, owner)
    /\ OwnerActive(owner)
    /\ settings[owner][part] # None => settings[owner][part].revision < MaxRevision
    /\ Enter(c, [kind |-> "configure", step |-> "ready", actor |-> u, owner |-> owner,
                 part |-> part, enabled |-> enabled, loaded |-> settings[owner][part]])
    /\ UNCHANGED <<rows, workload, chatVars>>

Written(loaded, enabled) ==
    [enabled |-> enabled, revision |-> IF loaded = None THEN 1 ELSE loaded.revision + 1]

\* The row is written if it is the one that was loaded.
CommitSetting(c) ==
    LET r == call[c] IN
    /\ At(c, {"configure"}, "ready")
    /\ settings' = IF /\ MayConfigure(r.actor, r.owner)
                      /\ OwnerActive(r.owner)
                      /\ settings[r.owner][r.part] = r.loaded
                     THEN [settings EXCEPT ![r.owner][r.part] = Written(r.loaded, r.enabled)]
                     ELSE settings
    /\ Leave(c)
    /\ UNCHANGED <<rows, workload, session, messages, serial>>

\* A provider is tried out: the one that applies, or one that is not saved yet.
TestAIProvider(c, u, owner) ==
    /\ MayConfigure(u, owner)
    /\ OwnerActive(owner)
    /\ Enter(c, [kind |-> "testProvider", step |-> "asking", actor |-> u, owner |-> owner])
    /\ UNCHANGED <<rows, workload, chatVars>>

ProviderTested(c) ==
    /\ At(c, {"testProvider"}, "asking")
    /\ Go(c, "auditing")
    /\ UNCHANGED <<rows, workload, chatVars>>

\* The result waits for its audit entry, which takes the same rights again.
AuditAIProviderTest(c) ==
    LET r == call[c] IN
    /\ At(c, {"testProvider"}, "auditing")
    /\ IF MayConfigure(r.actor, r.owner) /\ OwnerActive(r.owner)
         THEN Go(c, "audited") ELSE Leave(c)
    /\ UNCHANGED <<rows, workload, chatVars>>

ShowTestResult(c) ==
    /\ At(c, {"testProvider"}, "audited")
    /\ Leave(c)
    /\ UNCHANGED <<rows, workload, chatVars>>

-----------------------------------------------------------------------------
(* Sessions                                                                *)

TargetLive(target) == IF target = "document" THEN LiveDocument ELSE Live(target)

\* AIDocumentRevision; a version's content does not change.
Sources(target) ==
    IF target = "document" THEN <<published, archived \cap Branches>> ELSE <<None, {}>>

CurrentBasis(target) ==
    [provider |-> EffectiveProvider, prompt |-> EffectivePrompt,
     published |-> Sources(target)[1], archived |-> Sources(target)[2]]

SameSources(basis, target) == <<basis.published, basis.archived>> = Sources(target)

CreateAIChatSession(c, u, s, target) ==
    /\ CanRead(u) /\ TargetLive(target)
    /\ session[s] = None
    /\ \A d \in Clients : call[d].kind = "createChat" => call[d].session # s
    /\ Enter(c, [kind |-> "createChat", step |-> "ready", actor |-> u, session |-> s,
                 target |-> target, basis |-> CurrentBasis(target)])
    /\ UNCHANGED <<rows, workload, chatVars>>

SaveSession(c) ==
    LET r == call[c] IN
    /\ At(c, {"createChat"}, "ready")
    /\ session' = IF /\ Permitted(r.actor, "reader")
                     /\ TargetLive(r.target)
                     /\ SameSources(r.basis, r.target)
                    THEN [session EXCEPT ![r.session] = [target |-> r.target, token |-> 0]]
                    ELSE session
    /\ Leave(c)
    /\ UNCHANGED <<rows, workload, messages, settings, serial>>

-----------------------------------------------------------------------------
(* Sending a message                                                       *)

Conversation(s) == {m \in messages : m.session = s}
Known(s) == {m.at : m \in Conversation(s)}

Configured == EffectiveProvider # None /\ PromptEnabled

\* buildAIChatRequestLocked
CanAsk(u, target) == CanRead(u) /\ TargetLive(target) /\ Configured

\* validateAICompletionContext, in the transactions of a reservation and of an answer.
ContextValid(r) ==
    LET target == session[r.session].target IN
    /\ Permitted(r.actor, "reader")
    /\ TargetLive(target)
    /\ r.basis = CurrentBasis(target)

SendAIChatMessage(c, u, s, mode) ==
    /\ session[s] # None
    /\ CanAsk(u, session[s].target)
    /\ serial + 3 <= MaxSerial
    /\ Enter(c, [kind |-> "chat", step |-> "reserving", actor |-> u, session |-> s,
                 basis |-> CurrentBasis(session[s].target), token |-> 0, asked |-> 0,
                 knew |-> {}, mode |-> mode, heard |-> 0, ended |-> "no",
                 answered |-> FALSE, checked |-> 0])
    /\ UNCHANGED <<rows, workload, chatVars>>

\* Whoever held the session loses it; nothing waits.
ReserveAIChatGeneration(c) ==
    LET r == call[c] IN
    /\ At(c, {"chat"}, "reserving")
    /\ serial < MaxSerial
    /\ IF ContextValid(r)
         THEN /\ serial' = serial + 1
              /\ session' = [session EXCEPT ![r.session].token = serial']
              /\ Enter(c, [r EXCEPT !.step = "rebuilding", !.token = serial'])
         ELSE Leave(c) /\ UNCHANGED <<session, serial>>
    /\ UNCHANGED <<rows, workload, messages, settings>>

Holds(r) == session[r.session].token = r.token

\* The request is built again from what was committed meanwhile.
RebuildAIChatRequest(c) ==
    LET r == call[c] target == session[r.session].target IN
    /\ At(c, {"chat"}, "rebuilding")
    /\ serial < MaxSerial
    /\ IF Holds(r) /\ CanAsk(r.actor, target)
         THEN /\ serial' = serial + 1
              /\ Enter(c, [r EXCEPT !.step = "asking", !.asked = serial',
                                    !.knew = Known(r.session),
                                    !.basis = CurrentBasis(target)])
         ELSE Go(c, "releasing") /\ UNCHANGED serial
    /\ UNCHANGED <<rows, workload, session, messages, settings>>

\* The reader has gone: what the request holds is given up without it.
CancelAIChatRequest(c) ==
    /\ \E s \in {"rebuilding", "finishing", "saving"} : At(c, {"chat"}, s)
    /\ Go(c, "releasing")
    /\ UNCHANGED <<rows, workload, chatVars>>

\* The store cannot be read or written: the reservation stays until the next one.
StorageFails(c) ==
    /\ \E s \in {"reserving", "finishing", "saving", "releasing"} : At(c, {"chat"}, s)
    /\ Leave(c)
    /\ UNCHANGED <<rows, workload, chatVars>>

-----------------------------------------------------------------------------
(* The provider's answer                                                   *)

\* validateAIChatStream: at the first fragment, and when time has passed since.
StreamValid(r) ==
    /\ Holds(r)
    /\ CanRead(r.actor)
    /\ TargetLive(session[r.session].target)
    /\ <<r.basis.provider, r.basis.prompt>> = <<EffectiveProvider, EffectivePrompt>>

ReadFragment(c) ==
    LET r == call[c] IN
    /\ At(c, {"chat"}, "asking")
    /\ r.mode # "whole" /\ r.ended = "no" /\ r.heard < MaxFragments
    /\ IF r.checked = now + 1 \/ StreamValid(r)
         THEN Enter(c, [r EXCEPT !.heard = @ + 1, !.checked = now + 1])
         ELSE Go(c, "finishing")
    /\ UNCHANGED <<rows, workload, chatVars>>

\* The reason for which the last fragment was the last.
ReadFinishReason(c, reason) ==
    /\ At(c, {"chat"}, "asking")
    /\ call[c].mode = "stream" /\ call[c].ended = "no"
    /\ Enter(c, [call[c] EXCEPT !.ended = reason])
    /\ UNCHANGED <<rows, workload, chatVars>>

\* A stream is complete with its end mark, after it was finished; otherwise the
\* last event, or the only body, is the answer.
Complete(r) == IF r.mode = "stream" THEN r.ended = "stop" /\ r.heard > 0 ELSE TRUE

ReadLast(c) ==
    /\ At(c, {"chat"}, "asking")
    /\ Enter(c, [call[c] EXCEPT !.step = "finishing", !.answered = Complete(call[c])])
    /\ UNCHANGED <<rows, workload, chatVars>>

\* A provider's error, a timeout, or the reader's leaving.
BreakOff(c) ==
    /\ At(c, {"chat"}, "asking")
    /\ Go(c, "finishing")
    /\ UNCHANGED <<rows, workload, chatVars>>

-----------------------------------------------------------------------------
(* Storing the answer                                                      *)

\* validateAIChatCompletionLocked
StillCurrent(r) ==
    LET target == session[r.session].target IN
    /\ CanRead(r.actor)
    /\ TargetLive(target)
    /\ r.basis = CurrentBasis(target)
    /\ Configured
    /\ r.knew = Known(r.session)

FinishAIChatMessage(c) ==
    /\ At(c, {"chat"}, "finishing")
    /\ Go(c, IF Holds(call[c]) /\ StillCurrent(call[c]) THEN "saving" ELSE "releasing")
    /\ UNCHANGED <<rows, workload, chatVars>>

Unreserved(s) == [session EXCEPT ![s].token = 0]

Exchange(r, at) ==
    {[session |-> r.session, role |-> "user", at |-> r.asked, knew |-> r.knew],
     [session |-> r.session, role |-> "assistant", at |-> at, knew |-> r.knew]}

\* A faulty variant: one half of what storing an answer requires.
UnheldAnswer(r) == ContextValid(r)
UnguardedAnswer(r) == Holds(r)

\* The guard of the answer, and the row that still has the request's token.
MayStore(r) == ContextValid(r) /\ Holds(r)

\* One transaction gives the reservation up and stores the exchange, if there is
\* an answer.
CompleteAIChatGeneration(c) ==
    LET r == call[c] IN
    /\ At(c, {"chat"}, "saving")
    /\ serial < MaxSerial
    /\ IF MayStore(r)
         THEN /\ session' = Unreserved(r.session)
              /\ serial' = IF r.answered THEN serial + 1 ELSE serial
              /\ messages' = IF r.answered THEN messages \cup Exchange(r, serial') ELSE messages
              /\ Leave(c)
         ELSE Go(c, "releasing") /\ UNCHANGED <<session, messages, serial>>
    /\ UNCHANGED <<rows, workload, settings>>

\* Needs no rights; a reservation that is someone else's by now stays.
ReleaseAIChatRequest(c) ==
    LET r == call[c] IN
    /\ At(c, {"chat"}, "releasing")
    /\ session' = IF Holds(r) THEN Unreserved(r.session) ELSE session
    /\ Leave(c)
    /\ UNCHANGED <<rows, workload, messages, settings, serial>>

-----------------------------------------------------------------------------
\* Answers come in fragments where time passes.
AnswerModes == IF "time" \in workload THEN Modes ELSE Modes \cap {"whole"}

ChatNext ==
    \E c \in Clients :
        \/ /\ Free(c, "createChat")
           /\ \E u \in Users, s \in Sessions, target \in Targets :
                 CreateAIChatSession(c, u, s, target)
        \/ /\ Free(c, "chat")
           /\ \E u \in Users, s \in Sessions, mode \in AnswerModes :
                 SendAIChatMessage(c, u, s, mode)
        \/ /\ Free(c, "testProvider")
           /\ \E u \in Users, owner \in Owners : TestAIProvider(c, u, owner)
        \/ /\ Free(c, "configure")
           /\ \E u \in Users, owner \in Owners, part \in Parts, enabled \in BOOLEAN :
                 Upsert(c, u, owner, part, enabled)
        \/ SaveSession(c) \/ CommitSetting(c) \/ ProviderTested(c) \/ AuditAIProviderTest(c)
        \/ ShowTestResult(c)
        \/ ReserveAIChatGeneration(c) \/ RebuildAIChatRequest(c)
        \/ CancelAIChatRequest(c) \/ StorageFails(c)
        \/ ReadFragment(c) \/ \E reason \in {"stop", "length"} : ReadFinishReason(c, reason)
        \/ ReadLast(c) \/ BreakOff(c)
        \/ FinishAIChatMessage(c) \/ CompleteAIChatGeneration(c) \/ ReleaseAIChatRequest(c)

-----------------------------------------------------------------------------
(* Correctness                                                             *)

\* However messages to a session overlap, its conversation, in the order of its
\* time stamps, is a sequence of questions each followed by its answer, and every
\* answer was made with all that comes before its question and nothing else
\* (reserveAIChatRequestLocked, the rebuilt request, CompleteAIChatGeneration).
ConversationIsWhole ==
    \A m \in messages :
        LET same == Conversation(m.session)
            before == {n \in same : n.at < m.at}
            after == {n \in same : n.at > m.at}
        IN IF m.role = "user"
             THEN /\ m.knew = {n.at : n \in before}
                  /\ \E a \in after : a.role = "assistant" /\ \A n \in after : a.at <= n.at
             ELSE \E q \in before :
                     /\ q.role = "user" /\ m.knew = q.knew
                     /\ \A n \in before : n.at <= q.at

Stored(c) == At(c, {"chat"}, "saving") /\ call'[c] = Idle /\ messages' # messages
TestShown(c) == At(c, {"testProvider"}, "auditing") /\ call'[c].step = "audited"
FirstFragment(c) == At(c, {"chat"}, "asking") /\ call[c].heard = 0 /\ call'[c].heard = 1

\* Whatever changes while the provider answers: messages are stored only for a
\* complete answer, by someone who may then read the document, from the sources,
\* the provider and the prompt that then apply; no fragment is passed on for a
\* request that was superseded or lost its rights before the first; and a
\* reservation ends only through the request that holds it, or through a later one
\* (validateAICompletionContext and validateAIChatCompletionLocked).
AnswersAreCurrent ==
    [][/\ messages' # messages => \E c \in Clients : Stored(c)
       /\ \A c \in Clients : LET r == call[c] IN
            /\ Stored(c) =>
                  /\ r.answered /\ (r.mode = "stream" => r.ended = "stop")
                  /\ CanRead(r.actor) /\ TargetLive(session[r.session].target)
                  /\ r.basis = CurrentBasis(session[r.session].target)
            /\ FirstFragment(c) => Holds(r) /\ CanRead(r.actor)
            /\ TestShown(c) => MayConfigure(r.actor, r.owner)
       /\ \A s \in Sessions : session[s] # None => LET held == session[s].token IN
            /\ session'[s].target = session[s].target
            /\ session'[s].token = 0 /\ held # 0 =>
                  \E c \in Clients : /\ call[c].kind = "chat" /\ call[c].session = s
                                      /\ call[c].token = held /\ call'[c] = Idle
            /\ session'[s].token \in {0} \cup held .. serial'
      ]_<<rows, call, chatVars>>

=============================================================================
