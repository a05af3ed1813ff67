---------------------------- MODULE AiChatProofs -----------------------------
(***************************************************************************)
(* For any number of clients, users, sessions and messages: the messages   *)
(* of a session are questions each followed by its answer; an answer is    *)
(* stored only from what then applies, for someone who may then read the   *)
(* document; and a reservation is given up only by the request that holds  *)
(* the session.                                                            *)
(***************************************************************************)
EXTENDS DocumentServicesProofs

-----------------------------------------------------------------------------
(* The invariant                                                           *)

ReservedSteps == {"rebuilding", "asking", "finishing", "saving", "releasing"}
AskedSteps == {"asking", "finishing", "saving"}
ChatFields ==
    {"kind", "step", "actor", "session", "basis", "token", "asked", "knew", "mode",
     "heard", "ended", "answered", "checked"}

\* While a request that has asked holds its session, the conversation is the one it
\* was built from, and all of it is older than its question.
KnowsAll(r) ==
    /\ r.knew = Known(r.session)
    /\ \A m \in Conversation(r.session) : m.at < r.asked

MessageRequest(r) ==
    /\ DOMAIN r = ChatFields
    /\ r.session \in Sessions /\ session[r.session] # None
    /\ r.token \in Nat /\ r.token <= serial
    /\ r.asked \in Nat /\ r.asked <= serial
    /\ r.heard \in Nat /\ (r.heard = 0 => r.checked = 0)
    /\ r.answered = TRUE /\ r.mode = "stream" => r.ended = "stop"
    /\ r.step \in ReservedSteps => r.token # 0
    /\ r.step \in AskedSteps /\ Holds(r) => KnowsAll(r)

ChatRequest(r) ==
    /\ r.kind = "createChat" =>
          r.session \in Sessions /\ session[r.session] = None /\ r.target \in Targets
    /\ r.kind = "chat" => MessageRequest(r)

ChatRows ==
    /\ session \in [Sessions -> Session \cup {None}]
    /\ serial \in 0 .. MaxSerial
    /\ \A s \in Sessions : session[s] # None => session[s].token <= serial
    /\ \A m \in messages : m.at \in Nat /\ m.at <= serial

ChatInvariant ==
    /\ Formed
    /\ ChatRows
    /\ ConversationIsWhole
    /\ \A c \in Clients : ChatRequest(call[c])
    /\ \A c, d \in Clients : c # d =>
          /\ call[c].kind = "createChat" /\ call[d].kind = "createChat" =>
                call[c].session # call[d].session
          /\ call[c].kind = "chat" /\ call[d].kind = "chat" /\ call[c].token # 0 =>
                call[c].token # call[d].token

-----------------------------------------------------------------------------
(* What a step does to sessions                                            *)

\* A session is as it was, or its reservation is given up or is a new one.
SessionsAdvance ==
    \A s \in Sessions : session[s] # None =>
        /\ session'[s] # None
        /\ session'[s].target = session[s].target
        /\ \/ session'[s].token = session[s].token /\ Conversation(s)' = Conversation(s)
           \/ session'[s].token = 0
           \/ session'[s].token > serial

LEMMA HeldBefore ==
    ASSUME ChatRows, SessionsAdvance, NEW r, MessageRequest(r), r.token # 0, Holds(r)'
    PROVE  Holds(r) /\ Conversation(r.session)' = Conversation(r.session)
  <1>1. /\ r.session \in Sessions /\ session[r.session] # None
        /\ r.token \in Nat /\ r.token <= serial /\ serial \in Nat
        /\ session'[r.session].token = r.token
    BY WorkspaceAssumption, ChatAssumption DEF MessageRequest, ChatRows, Holds
  <1>2. ~(r.token > serial)
    BY <1>1
  <1> QED BY <1>1, <1>2 DEF SessionsAdvance, Holds

LEMMA WaitingMessage ==
    ASSUME ChatRows, ChatRows', SessionsAdvance, serial' >= serial,
           NEW r, MessageRequest(r)
    PROVE  MessageRequest(r)'
  <1>1. serial \in Nat /\ serial' \in Nat
    BY ChatAssumption DEF ChatRows
  <1>2. /\ r.session \in Sessions /\ session'[r.session] # None
        /\ r.token \in Nat /\ r.token <= serial'
        /\ r.asked \in Nat /\ r.asked <= serial'
    BY <1>1 DEF MessageRequest, SessionsAdvance
  <1>3. r.step \in AskedSteps /\ Holds(r)' => KnowsAll(r)'
    <2> SUFFICES ASSUME r.step \in AskedSteps, Holds(r)'
                 PROVE  KnowsAll(r)'
      OBVIOUS
    <2>1. r.token # 0
      BY DEF MessageRequest, AskedSteps, ReservedSteps
    <2>2. Holds(r) /\ Conversation(r.session)' = Conversation(r.session)
      BY <2>1, HeldBefore
    <2>3. KnowsAll(r)
      BY <2>2 DEF MessageRequest
    <2> QED BY <2>2, <2>3 DEF KnowsAll, Known
  <1> QED BY <1>2, <1>3 DEF MessageRequest

LEMMA ChatInvariantKept ==
    ASSUME ChatInvariant, ChatRows', SessionsAdvance, serial' >= serial,
           ConversationIsWhole', Formed',
           NEW c \in Clients, \A d \in Clients \ {c} : call'[d] = call[d],
           ChatRequest(call[c])',
           \A s \in Sessions : session[s] = None /\ session'[s] # None =>
               call[c].kind = "createChat" /\ call[c].session = s,
           call'[c].kind = "createChat" =>
               \A d \in Clients \ {c} :
                   call[d].kind = "createChat" => call[d].session # call'[c].session,
           call'[c].kind = "chat" /\ call'[c].token # 0 =>
               \A d \in Clients \ {c} :
                   call[d].kind = "chat" => call[d].token # call'[c].token
    PROVE  ChatInvariant'
  <1>1. ASSUME NEW d \in Clients \ {c}
        PROVE  ChatRequest(call[d])'
    <2>1. ChatRequest(call[d]) /\ ChatRows /\ call'[d] = call[d]
      BY DEF ChatInvariant
    <2>2. ASSUME call[d].kind = "createChat"
          PROVE  /\ call[d].session \in Sessions /\ session'[call[d].session] = None
                 /\ call[d].target \in Targets
      <3>1. /\ call[d].session \in Sessions /\ session[call[d].session] = None
            /\ call[d].target \in Targets
        BY <2>1, <2>2 DEF ChatRequest
      <3>2. call[c].kind = "createChat" => call[c].session # call[d].session
        BY <2>2 DEF ChatInvariant
      <3> QED BY <3>1, <3>2
    <2>3. call[d].kind = "chat" => MessageRequest(call[d])'
      <3>1. PICK r : r = call[d]
        OBVIOUS
      <3>2. r.kind = "chat" => MessageRequest(r)'
        BY <2>1, <3>1, WaitingMessage DEF ChatRequest
      <3> QED BY <2>1, <3>1, <3>2
    <2> QED BY <2>1, <2>2, <2>3 DEF ChatRequest
  <1>2. \A d, e \in Clients : d # e =>
          /\ call'[d].kind = "createChat" /\ call'[e].kind = "createChat" =>
                call'[d].session # call'[e].session
          /\ call'[d].kind = "chat" /\ call'[e].kind = "chat" /\ call'[d].token # 0 =>
                call'[d].token # call'[e].token
    <2> SUFFICES ASSUME NEW d \in Clients, NEW e \in Clients, d # e
                 PROVE  /\ call'[d].kind = "createChat" /\ call'[e].kind = "createChat" =>
                              call'[d].session # call'[e].session
                        /\ call'[d].kind = "chat" /\ call'[e].kind = "chat"
                              /\ call'[d].token # 0 => call'[d].token # call'[e].token
      OBVIOUS
    <2>1. CASE d # c /\ e # c
      BY <2>1 DEF ChatInvariant
    <2>2. CASE d = c
      BY <2>2
    <2>3. CASE e = c
      BY <2>3
    <2> QED BY <2>1, <2>2, <2>3
  <1>3. \A d \in Clients : ChatRequest(call[d])'
    BY <1>1
  <1> QED BY <1>2, <1>3 DEF ChatInvariant

LEMMA StillSessions ==
    ASSUME ChatRows, UNCHANGED <<session, messages, serial>>
    PROVE  /\ ChatRows' /\ SessionsAdvance /\ serial' >= serial
           /\ ConversationIsWhole => ConversationIsWhole'
  <1>1. ChatRows' /\ serial' >= serial
    BY ChatAssumption DEF ChatRows, Conversation
  <1>2. SessionsAdvance
    BY DEF SessionsAdvance, Conversation
  <1>3. ConversationIsWhole => ConversationIsWhole'
    BY DEF ConversationIsWhole, Conversation
  <1> QED BY <1>1, <1>2, <1>3

\* A step of one request that leaves the sessions alone.
LEMMA ChatStepKeeps ==
    ASSUME ChatInvariant, UNCHANGED <<session, messages, serial>>, Formed',
           NEW c \in Clients, \A d \in Clients \ {c} : call'[d] = call[d],
           ChatRequest(call[c])',
           call'[c].kind = "createChat" =>
               \A d \in Clients \ {c} :
                   call[d].kind = "createChat" => call[d].session # call'[c].session,
           call'[c].kind = "chat" /\ call'[c].token # 0 =>
               call[c].kind = "chat" /\ call[c].token = call'[c].token
    PROVE  ChatInvariant'
  <1>1. /\ ChatRows' /\ SessionsAdvance /\ serial' >= serial /\ ConversationIsWhole'
    BY StillSessions DEF ChatInvariant
  <1>2. call'[c].kind = "chat" /\ call'[c].token # 0 =>
            \A d \in Clients \ {c} : call[d].kind = "chat" => call[d].token # call'[c].token
    BY DEF ChatInvariant
  <1> QED BY <1>1, <1>2, ChatInvariantKept

-----------------------------------------------------------------------------
(* Steps that leave the sessions alone                                     *)

LEMMA NoChatRequest ==
    ASSUME NEW r, r.kind \notin {"createChat", "chat"}
    PROVE  ChatRequest(r)'
  BY DEF ChatRequest

LEMMA MovesOnElsewhere ==
    ASSUME ChatInvariant, UNCHANGED <<session, messages, serial>>, Formed',
           NEW c \in Clients, \A d \in Clients \ {c} : call'[d] = call[d],
           call'[c].kind \notin {"createChat", "chat"}
    PROVE  ChatInvariant'
  BY NoChatRequest, ChatStepKeeps

LEMMA StillMessage ==
    ASSUME ChatInvariant, UNCHANGED <<session, messages, serial>>, NEW c \in Clients,
           call[c].kind = "chat"
    PROVE  MessageRequest(call[c]) /\ \A r : r = call[c] => MessageRequest(r)'
  <1>1. MessageRequest(call[c]) /\ ChatRows
    BY DEF ChatInvariant, ChatRequest
  <1> QED BY <1>1, StillSessions, WaitingMessage

\* A message that goes on and keeps what it has.
LEMMA MessageGoesOn ==
    ASSUME ChatInvariant, UNCHANGED <<session, messages, serial>>, NEW c \in Clients,
           call[c].kind = "chat", NEW s, Go(c, s), s \in ReservedSteps,
           call[c].step \in ReservedSteps, s \in AskedSteps => call[c].step \in AskedSteps
    PROVE  ChatInvariant'
  <1>1. PICK q : q = call[c]
    OBVIOUS
  <1>2. PICK r : r = [q EXCEPT !.step = s]
    OBVIOUS
  <1>3. MessageRequest(q) /\ MessageRequest(q)' /\ Formed
    BY <1>1, StillMessage DEF ChatInvariant
  <1>4. /\ r.kind = "chat" /\ r.step = s /\ r.session = q.session /\ r.token = q.token
        /\ r.asked = q.asked /\ r.knew = q.knew /\ r.mode = q.mode /\ r.heard = q.heard
        /\ r.ended = q.ended /\ r.checked = q.checked /\ DOMAIN r = ChatFields
    BY <1>1, <1>2, <1>3 DEF MessageRequest, ChatFields
  <1>5. r.answered = q.answered
    BY <1>2, <1>3, Zenon DEF MessageRequest, ChatFields
  <1>6. Holds(r) <=> Holds(q)
    BY <1>4 DEF Holds
  <1>7. Holds(r)' <=> Holds(q)'
    BY <1>4 DEF Holds
  <1>8. KnowsAll(r)' <=> KnowsAll(q)'
    BY <1>4 DEF KnowsAll
  <1>9. MessageRequest(r)'
    <2>1. r.answered = TRUE /\ r.mode = "stream" => r.ended = "stop"
      BY <1>3, <1>4, <1>5, Zenon DEF MessageRequest
    <2>2. /\ r.step \in ReservedSteps => r.token # 0
          /\ r.step \in AskedSteps /\ Holds(r)' => KnowsAll(r)'
      BY <1>1, <1>3, <1>4, <1>7, <1>8 DEF MessageRequest
    <2> QED BY <1>3, <1>4, <2>1, <2>2 DEF MessageRequest
  <1>10. ChatRequest(r)'
    BY <1>4, <1>9 DEF ChatRequest
  <1>11. call'[c] = r /\ (\A d \in Clients \ {c} : call'[d] = call[d]) /\ Formed'
    BY <1>1, <1>2, <1>3, Gone
  <1> QED BY <1>1, <1>4, <1>10, <1>11, ChatStepKeeps

LEMMA LeavesChat ==
    ASSUME ChatInvariant, UNCHANGED <<session, messages, serial>>, NEW c \in Clients, Leave(c)
    PROVE  ChatInvariant'
  BY Left, MovesOnElsewhere DEF ChatInvariant

LEMMA MessageBegins ==
    ASSUME ChatInvariant, NEW c \in Clients, BeginsChat(c)
    PROVE  ChatInvariant'
  <1>1. PICK u \in Users, s \in Sessions, mode \in AnswerModes : SendAIChatMessage(c, u, s, mode)
    BY DEF BeginsChat
  <1>2. PICK r : r = [kind |-> "chat", step |-> "reserving", actor |-> u, session |-> s,
                 basis |-> CurrentBasis(session[s].target), token |-> 0, asked |-> 0,
                 knew |-> {}, mode |-> mode, heard |-> 0, ended |-> "no",
                 answered |-> FALSE, checked |-> 0]
    OBVIOUS
  <1>3. /\ Enter(c, r) /\ session[s] # None /\ UNCHANGED <<session, messages, serial>>
        /\ Formed /\ serial \in Nat
    BY <1>1, <1>2, ChatAssumption DEF SendAIChatMessage, chatVars, ChatInvariant, ChatRows
  <1>4. /\ DOMAIN r = ChatFields /\ r.kind = "chat" /\ r.step = "reserving"
        /\ r.session = s /\ r.token = 0 /\ r.asked = 0 /\ r.heard = 0 /\ r.checked = 0
    BY <1>2 DEF ChatFields
  <1>5. ~(r.answered = TRUE)
    BY <1>2
  <1>6. MessageRequest(r)'
    BY <1>3, <1>4, <1>5 DEF MessageRequest, ReservedSteps, AskedSteps
  <1>7. ChatRequest(r)'
    BY <1>4, <1>6 DEF ChatRequest
  <1>8. call'[c] = r /\ (\A d \in Clients \ {c} : call'[d] = call[d]) /\ Formed'
    BY <1>3, <1>4, Entered, EnteredIsFormed DEF ChatFields
  <1> QED BY <1>3, <1>4, <1>7, <1>8, ChatStepKeeps

LEMMA SessionBegins ==
    ASSUME ChatInvariant, NEW c \in Clients, BeginsCreateChat(c)
    PROVE  ChatInvariant'
  <1>1. PICK u \in Users, s \in Sessions, target \in Targets :
            CreateAIChatSession(c, u, s, target)
    BY DEF BeginsCreateChat
  <1>2. PICK r : r = [kind |-> "createChat", step |-> "ready", actor |-> u, session |-> s,
                 target |-> target, basis |-> CurrentBasis(target)]
    OBVIOUS
  <1>3. /\ Enter(c, r) /\ session[s] = None /\ UNCHANGED <<session, messages, serial>>
        /\ Formed
        /\ \A d \in Clients : call[d].kind = "createChat" => call[d].session # s
    BY <1>1, <1>2 DEF CreateAIChatSession, chatVars, ChatInvariant
  <1>4. /\ {"kind", "step"} \subseteq DOMAIN r /\ r.kind = "createChat"
        /\ r.session = s /\ r.target = target
    BY <1>2
  <1>5. ChatRequest(r)'
    BY <1>3, <1>4 DEF ChatRequest
  <1>6. call'[c] = r /\ (\A d \in Clients \ {c} : call'[d] = call[d]) /\ Formed'
    BY <1>3, <1>4, Entered, EnteredIsFormed
  <1> QED BY <1>3, <1>4, <1>5, <1>6, ChatStepKeeps

LEMMA ConfigurationMoves ==
    ASSUME ChatInvariant, NEW c \in Clients,
           BeginsTest(c) \/ BeginsConfigure(c) \/ CommitSetting(c) \/ ProviderTested(c)
             \/ AuditAIProviderTest(c) \/ ShowTestResult(c)
    PROVE  ChatInvariant' /\ UNCHANGED <<session, messages, serial>>
  <1>0. Formed
    BY DEF ChatInvariant
  <1>1. CASE BeginsTest(c)
    <2>1. PICK u \in Users, owner \in Owners : TestAIProvider(c, u, owner)
      BY <1>1 DEF BeginsTest
    <2>2. PICK r : r = [kind |-> "testProvider", step |-> "asking", actor |-> u, owner |-> owner]
      OBVIOUS
    <2>3. /\ Enter(c, r) /\ r.kind = "testProvider" /\ {"kind", "step"} \subseteq DOMAIN r
          /\ UNCHANGED <<session, messages, serial>>
      BY <2>1, <2>2 DEF TestAIProvider, chatVars
    <2>4. call'[c] = r /\ (\A d \in Clients \ {c} : call'[d] = call[d]) /\ Formed'
      BY <1>0, <2>3, Entered, EnteredIsFormed
    <2> QED BY <2>3, <2>4, MovesOnElsewhere
  <1>2. CASE BeginsConfigure(c)
    <2>1. PICK u \in Users, owner \in Owners, part \in Parts, enabled \in BOOLEAN :
            Upsert(c, u, owner, part, enabled)
      BY <1>2 DEF BeginsConfigure
    <2>2. PICK r : r = [kind |-> "configure", step |-> "ready", actor |-> u, owner |-> owner,
                 part |-> part, enabled |-> enabled, loaded |-> settings[owner][part]]
      OBVIOUS
    <2>3. /\ Enter(c, r) /\ r.kind = "configure" /\ {"kind", "step"} \subseteq DOMAIN r
          /\ UNCHANGED <<session, messages, serial>>
      BY <2>1, <2>2 DEF Upsert, chatVars
    <2>4. call'[c] = r /\ (\A d \in Clients \ {c} : call'[d] = call[d]) /\ Formed'
      BY <1>0, <2>3, Entered, EnteredIsFormed
    <2> QED BY <2>3, <2>4, MovesOnElsewhere
  <1>3. CASE CommitSetting(c) \/ ShowTestResult(c)
    <2>1. Leave(c) /\ UNCHANGED <<session, messages, serial>>
      BY <1>3, Zenon DEF CommitSetting, ShowTestResult, chatVars
    <2> QED BY <2>1, LeavesChat
  <1>4. CASE ProviderTested(c) \/ AuditAIProviderTest(c)
    <2>1. /\ UNCHANGED <<session, messages, serial>> /\ call[c].kind = "testProvider"
          /\ Leave(c) \/ \E s : Go(c, s)
      BY <1>4 DEF ProviderTested, AuditAIProviderTest, chatVars, At
    <2>2. CASE Leave(c)
      BY <2>1, <2>2, LeavesChat
    <2>3. CASE \E s : Go(c, s)
      <3>1. /\ call'[c].kind = "testProvider" /\ Formed'
            /\ \A d \in Clients \ {c} : call'[d] = call[d]
        BY <1>0, <2>1, <2>3, Gone
      <3> QED BY <2>1, <3>1, MovesOnElsewhere
    <2> QED BY <2>1, <2>2, <2>3
  <1> QED BY <1>1, <1>2, <1>3, <1>4

LEMMA MessageMoves ==
    ASSUME ChatInvariant, NEW c \in Clients,
           CancelAIChatRequest(c) \/ StorageFails(c) \/ BreakOff(c) \/ FinishAIChatMessage(c)
    PROVE  ChatInvariant'
  <1>0. UNCHANGED <<session, messages, serial>> /\ call[c].kind = "chat"
    BY DEF CancelAIChatRequest, StorageFails, BreakOff, FinishAIChatMessage, chatVars, At
  <1>1. CASE CancelAIChatRequest(c)
    <2>1. Go(c, "releasing") /\ call[c].step \in ReservedSteps
      BY <1>1 DEF CancelAIChatRequest, At, ReservedSteps
    <2> QED BY <1>0, <2>1, MessageGoesOn DEF ReservedSteps, AskedSteps
  <1>2. CASE StorageFails(c)
    BY <1>0, <1>2, LeavesChat DEF StorageFails
  <1>3. CASE BreakOff(c)
    <2>1. Go(c, "finishing") /\ call[c].step = "asking"
      BY <1>3 DEF BreakOff, At
    <2> QED BY <1>0, <2>1, MessageGoesOn DEF ReservedSteps, AskedSteps
  <1>4. CASE FinishAIChatMessage(c)
    <2>1. /\ Go(c, "saving") \/ Go(c, "releasing")
          /\ call[c].step = "finishing"
      BY <1>4 DEF FinishAIChatMessage, At
    <2> QED BY <1>0, <2>1, MessageGoesOn DEF ReservedSteps, AskedSteps
  <1> QED BY <1>1, <1>2, <1>3, <1>4

\* What comes from the provider changes no more than what was heard of it.
LEMMA HearingKeeps ==
    ASSUME ChatInvariant, UNCHANGED <<session, messages, serial>>, NEW c \in Clients,
           At(c, {"chat"}, "asking"), NEW r, Enter(c, r),
           r.kind = "chat", r.step \in {"asking", "finishing"}, DOMAIN r = ChatFields,
           r.session = call[c].session, r.token = call[c].token, r.asked = call[c].asked,
           r.knew = call[c].knew, r.heard \in Nat, r.heard = 0 => r.checked = 0,
           r.answered = TRUE /\ r.mode = "stream" => r.ended = "stop"
    PROVE  ChatInvariant'
  <1>1. PICK q : q = call[c]
    OBVIOUS
  <1>2. MessageRequest(q) /\ MessageRequest(q)' /\ Formed
    BY <1>1, StillMessage DEF ChatInvariant, At
  <1>3. Holds(r)' <=> Holds(q)'
    BY <1>1 DEF Holds
  <1>4. KnowsAll(r)' <=> KnowsAll(q)'
    BY <1>1 DEF KnowsAll
  <1>5. q.step \in ReservedSteps /\ q.step \in AskedSteps
    BY <1>1 DEF At, ReservedSteps, AskedSteps
  <1>6. MessageRequest(r)'
    BY <1>1, <1>2, <1>3, <1>4, <1>5 DEF MessageRequest
  <1>7. ChatRequest(r)'
    BY <1>6 DEF ChatRequest
  <1>8. call'[c] = r /\ (\A d \in Clients \ {c} : call'[d] = call[d]) /\ Formed'
    BY <1>2, Entered, EnteredIsFormed DEF ChatFields
  <1> QED BY <1>1, <1>7, <1>8, ChatStepKeeps DEF At

LEMMA FragmentHeard ==
    ASSUME ChatInvariant, NEW c \in Clients, ReadFragment(c)
    PROVE  ChatInvariant'
  <1>0. /\ UNCHANGED <<session, messages, serial>> /\ At(c, {"chat"}, "asking")
        /\ MessageRequest(call[c])
    BY DEF ReadFragment, chatVars, At, ChatInvariant, ChatRequest
  <1>1. CASE Go(c, "finishing")
    BY <1>0, <1>1, MessageGoesOn DEF At, ReservedSteps, AskedSteps
  <1>2. CASE Enter(c, [call[c] EXCEPT !.heard = @ + 1, !.checked = now + 1])
    <2>1. PICK q : q = call[c]
      OBVIOUS
    <2>2. PICK r : r = [q EXCEPT !.heard = @ + 1, !.checked = now + 1]
      OBVIOUS
    <2>3. MessageRequest(q) /\ q.heard \in Nat /\ q.kind = "chat" /\ q.step = "asking"
      BY <1>0, <2>1 DEF MessageRequest, At
    <2>4. /\ r.kind = "chat" /\ r.step = "asking" /\ DOMAIN r = ChatFields
          /\ r.session = q.session /\ r.token = q.token /\ r.asked = q.asked
          /\ r.knew = q.knew /\ r.heard = q.heard + 1 /\ r.mode = q.mode /\ r.ended = q.ended
      BY <2>2, <2>3 DEF MessageRequest, ChatFields
    <2>5. r.answered = q.answered
      BY <2>2, <2>3, Zenon DEF MessageRequest, ChatFields
    <2>6. r.heard \in Nat /\ r.heard # 0
      BY <2>3, <2>4
    <2>7. r.answered = TRUE /\ r.mode = "stream" => r.ended = "stop"
      BY <2>3, <2>4, <2>5, Zenon DEF MessageRequest
    <2>8. Enter(c, r)
      BY <1>2, <2>1, <2>2
    <2> QED BY <1>0, <2>1, <2>4, <2>6, <2>7, <2>8, HearingKeeps
  <1> QED BY <1>1, <1>2 DEF ReadFragment

LEMMA EndHeard ==
    ASSUME ChatInvariant, NEW c \in Clients, ReadsFinishReason(c)
    PROVE  ChatInvariant'
  <1>1. PICK reason \in {"stop", "length"} : ReadFinishReason(c, reason)
    BY DEF ReadsFinishReason
  <1>2. PICK q : q = call[c]
    OBVIOUS
  <1>3. PICK r : r = [q EXCEPT !.ended = reason]
    OBVIOUS
  <1>4. /\ UNCHANGED <<session, messages, serial>> /\ At(c, {"chat"}, "asking")
        /\ MessageRequest(q) /\ Enter(c, r) /\ q.mode = "stream" /\ q.ended = "no"
        /\ q.kind = "chat" /\ q.step = "asking"
    BY <1>1, <1>2, <1>3 DEF ReadFinishReason, chatVars, At, ChatInvariant, ChatRequest
  <1>5. /\ r.kind = "chat" /\ r.step = "asking" /\ DOMAIN r = ChatFields
        /\ r.session = q.session /\ r.token = q.token /\ r.asked = q.asked
        /\ r.knew = q.knew /\ r.heard = q.heard /\ r.checked = q.checked
        /\ q.heard \in Nat /\ (q.heard = 0 => q.checked = 0)
    BY <1>3, <1>4 DEF MessageRequest, ChatFields
  <1>6. r.answered = q.answered
    BY <1>3, <1>4, Zenon DEF MessageRequest, ChatFields
  <1>7. ~(q.answered = TRUE)
    BY <1>4 DEF MessageRequest
  <1>8. ~(r.answered = TRUE)
    BY <1>6, <1>7, Zenon
  <1> QED BY <1>2, <1>4, <1>5, <1>8, HearingKeeps

LEMMA LastHeard ==
    ASSUME ChatInvariant, NEW c \in Clients, ReadLast(c)
    PROVE  ChatInvariant'
  <1>1. PICK q : q = call[c]
    OBVIOUS
  <1>2. PICK r : r = [q EXCEPT !.step = "finishing", !.answered = Complete(q)]
    OBVIOUS
  <1>3. /\ UNCHANGED <<session, messages, serial>> /\ At(c, {"chat"}, "asking")
        /\ MessageRequest(q) /\ Enter(c, r) /\ q.kind = "chat"
    BY <1>1, <1>2 DEF ReadLast, chatVars, At, ChatInvariant, ChatRequest
  <1>4. /\ r.kind = "chat" /\ r.step = "finishing" /\ DOMAIN r = ChatFields
        /\ r.session = q.session /\ r.token = q.token /\ r.asked = q.asked
        /\ r.knew = q.knew /\ r.heard = q.heard /\ r.checked = q.checked
        /\ r.mode = q.mode /\ r.ended = q.ended
        /\ q.heard \in Nat /\ (q.heard = 0 => q.checked = 0)
    BY <1>2, <1>3 DEF MessageRequest, ChatFields
  <1>5. r.answered = Complete(q)
    BY <1>2, <1>3, Zenon DEF MessageRequest, ChatFields
  <1>6. Complete(q) /\ q.mode = "stream" => q.ended = "stop"
    BY DEF Complete
  <1>7. r.answered = TRUE /\ r.mode = "stream" => r.ended = "stop"
    BY <1>4, <1>5, <1>6, Zenon
  <1> QED BY <1>1, <1>3, <1>4, <1>7, HearingKeeps

-----------------------------------------------------------------------------
(* Steps that change sessions                                              *)

LEMMA SameMessagesStayWhole ==
    ASSUME messages' = messages, ConversationIsWhole
    PROVE  ConversationIsWhole' /\ \A s : Conversation(s)' = Conversation(s)
  BY DEF ConversationIsWhole, Conversation

LEMMA SessionSaved ==
    ASSUME ChatInvariant, NEW c \in Clients, SaveSession(c)
    PROVE  ChatInvariant' /\ SessionsAdvance /\ serial' >= serial
  <1>1. PICK q : q = call[c]
    OBVIOUS
  <1>2. /\ q.session \in Sessions /\ session[q.session] = None /\ q.target \in Targets
        /\ q.kind = "createChat" /\ UNCHANGED <<messages, serial>> /\ Leave(c)
        /\ Formed /\ ChatRows /\ ConversationIsWhole
        /\ session = [s \in Sessions |-> session[s]]
    BY <1>1 DEF SaveSession, At, ChatInvariant, ChatRequest, ChatRows
  <1>3. /\ call'[c].kind = "none" /\ (\A d \in Clients \ {c} : call'[d] = call[d]) /\ Formed'
        /\ ChatRequest(call[c])'
    BY <1>2, Left, NoChatRequest
  <1>4. serial \in Nat /\ serial' = serial /\ serial' >= serial
    BY <1>2, ChatAssumption DEF ChatRows
  <1>5. PICK new \in Session \cup {None} :
            /\ session' = [session EXCEPT ![q.session] = new]
            /\ new # None => new.token = 0
    <2>1. PICK row : row = [target |-> q.target, token |-> 0]
      OBVIOUS
    <2>2. CASE session' = [session EXCEPT ![q.session] = [target |-> q.target, token |-> 0]]
      <3>1. row \in Session /\ row.token = 0
        BY <1>2, <2>1 DEF Session
      <3>2. session' = [session EXCEPT ![q.session] = row]
        BY <2>1, <2>2
      <3> QED BY <3>1, <3>2
    <2>3. CASE session' = session
      <3>1. session' = [session EXCEPT ![q.session] = None]
        BY <1>2, <2>3
      <3> QED BY <3>1
    <2> QED BY <1>1, <2>2, <2>3 DEF SaveSession
  <1>6. \A s \in Sessions : IF s = q.session THEN session'[s] = new
                                             ELSE session'[s] = session[s]
    BY <1>2, <1>5
  <1>7. ConversationIsWhole' /\ \A s : Conversation(s)' = Conversation(s)
    BY <1>2, SameMessagesStayWhole
  <1>8. SessionsAdvance
    BY <1>2, <1>6, <1>7 DEF SessionsAdvance
  <1>9. ChatRows'
    <2>1. session' \in [Sessions -> Session \cup {None}]
      BY <1>2, <1>5 DEF ChatRows
    <2>2. \A s \in Sessions : session'[s] # None => session'[s].token <= serial'
      BY <1>2, <1>4, <1>5, <1>6 DEF ChatRows
    <2> QED BY <1>2, <2>1, <2>2 DEF ChatRows
  <1>10. \A s \in Sessions : session[s] = None /\ session'[s] # None =>
            call[c].kind = "createChat" /\ call[c].session = s
    BY <1>1, <1>2, <1>6
  <1> QED BY <1>3, <1>4, <1>7, <1>8, <1>9, <1>10, ChatInvariantKept

\* A session's reservation becomes another one.
LEMMA TokenChanges ==
    ASSUME ChatRows, NEW s \in Sessions, session[s] # None, NEW t \in {0} \cup Stamps,
           session' = [session EXCEPT ![s].token = t], serial' \in 0 .. MaxSerial,
           serial' >= serial, t <= serial', t = 0 \/ t > serial,
           \A x \in Sessions \ {s} : Conversation(x)' = Conversation(x),
           \A m \in messages' : m.at \in Nat /\ m.at <= serial'
    PROVE  /\ ChatRows' /\ SessionsAdvance /\ session'[s].token = t
           /\ \A x \in Sessions : session[x] = None => session'[x] = None
  <1>1. session[s] \in Session /\ session = [x \in Sessions |-> session[x]]
    BY DEF ChatRows
  <1>2. PICK new : new = [session[s] EXCEPT !.token = t]
    OBVIOUS
  <1>3. new \in Session /\ new.token = t /\ new.target = session[s].target
    BY <1>1, <1>2 DEF Session
  <1>4. session' = [session EXCEPT ![s] = new]
    BY <1>2
  <1>5. \A x \in Sessions : IF x = s THEN session'[x] = new ELSE session'[x] = session[x]
    BY <1>1, <1>4
  <1>6. serial \in Nat /\ serial' \in Nat
    BY ChatAssumption DEF ChatRows
  <1>7. \A x \in Sessions : session[x] # None =>
            session[x].token \in Nat /\ session[x].token <= serial
    BY DEF ChatRows, Session, Stamps
  <1>8. ChatRows'
    <2>1. session' \in [Sessions -> Session \cup {None}]
      BY <1>1, <1>3, <1>4 DEF ChatRows
    <2>2. \A x \in Sessions : session'[x] # None => session'[x].token <= serial'
      BY <1>3, <1>5, <1>6, <1>7
    <2> QED BY <2>1, <2>2 DEF ChatRows
  <1>9. SessionsAdvance
    BY <1>3, <1>5, ChatNoneAssumption DEF SessionsAdvance
  <1> QED BY <1>3, <1>5, <1>8, <1>9

LEMMA MessageReserves ==
    ASSUME ChatInvariant, NEW c \in Clients, ReserveAIChatGeneration(c)
    PROVE  ChatInvariant' /\ SessionsAdvance /\ serial' >= serial
  <1>1. PICK q : q = call[c]
    OBVIOUS
  <1>2. /\ q.kind = "chat" /\ MessageRequest(q) /\ Formed /\ ChatRows
        /\ ConversationIsWhole /\ messages' = messages
        /\ serial \in Nat /\ serial + 1 \in Stamps /\ MaxSerial \in Nat
    BY <1>1, ChatAssumption
    DEF ReserveAIChatGeneration, At, ChatInvariant, ChatRequest, ChatRows, Stamps
  <1>3. CASE Leave(c) /\ UNCHANGED <<session, serial>>
    BY <1>2, <1>3, LeavesChat, StillSessions
  <1>4. CASE /\ serial' = serial + 1
             /\ session' = [session EXCEPT ![q.session].token = serial']
             /\ Enter(c, [q EXCEPT !.step = "rebuilding", !.token = serial'])
    <2>1. PICK r : r = [q EXCEPT !.step = "rebuilding", !.token = serial']
      OBVIOUS
    <2>2. /\ r.kind = "chat" /\ r.step = "rebuilding" /\ r.session = q.session
          /\ r.token = serial + 1 /\ r.asked = q.asked /\ r.heard = q.heard
          /\ r.checked = q.checked /\ r.mode = q.mode /\ r.ended = q.ended
          /\ DOMAIN r = ChatFields
      BY <1>2, <1>4, <2>1 DEF MessageRequest, ChatFields
    <2>3. r.answered = q.answered
      BY <1>2, <2>1, Zenon DEF MessageRequest, ChatFields
    <2>4. /\ serial' \in 0 .. MaxSerial /\ serial' >= serial /\ serial' > serial
          /\ serial + 1 <= serial' /\ serial' \in Nat
          /\ session' = [session EXCEPT ![q.session].token = serial + 1]
      BY <1>2, <1>4 DEF Stamps
    <2>5. /\ q.session \in Sessions /\ session[q.session] # None
          /\ \A m \in messages' : m.at \in Nat /\ m.at <= serial'
      BY <1>2, <2>4 DEF MessageRequest, ChatRows
    <2>6. ConversationIsWhole' /\ \A s : Conversation(s)' = Conversation(s)
      BY <1>2, SameMessagesStayWhole
    <2>7. /\ ChatRows' /\ SessionsAdvance
          /\ \A x \in Sessions : session[x] = None => session'[x] = None
      <3>1. PICK t : t = serial + 1
        OBVIOUS
      <3>2. t \in {0} \cup Stamps /\ t <= serial' /\ t > serial
            /\ session' = [session EXCEPT ![q.session].token = t]
        BY <1>2, <2>4, <3>1
      <3> QED BY <1>2, <2>4, <2>5, <2>6, <3>2, TokenChanges
    <2>8. session'[q.session] # None
      BY <2>5, <2>7 DEF SessionsAdvance
    <2>9. MessageRequest(r)'
      <3>1. r.answered = TRUE /\ r.mode = "stream" => r.ended = "stop"
        BY <1>2, <2>2, <2>3, Zenon DEF MessageRequest
      <3>2. r.asked \in Nat /\ r.asked <= serial' /\ r.token \in Nat /\ r.token <= serial'
            /\ r.token # 0
        BY <1>2, <2>2, <2>4 DEF MessageRequest
      <3> QED BY <1>2, <2>2, <2>8, <3>1, <3>2 DEF MessageRequest, AskedSteps
    <2>10. ChatRequest(r)'
      BY <2>2, <2>9 DEF ChatRequest
    <2>11. \A d \in Clients : call[d].kind = "chat" => call[d].token # r.token
      BY <1>2, <2>2 DEF ChatInvariant, ChatRequest, MessageRequest
    <2>12. call'[c] = r /\ (\A d \in Clients \ {c} : call'[d] = call[d]) /\ Formed'
      BY <1>2, <1>4, <2>1, <2>2, Entered, EnteredIsFormed DEF ChatFields
    <2> QED BY <2>2, <2>4, <2>6, <2>7, <2>10, <2>11, <2>12, ChatInvariantKept
  <1> QED BY <1>1, <1>3, <1>4 DEF ReserveAIChatGeneration

LEMMA MessageRebuilt ==
    ASSUME ChatInvariant, NEW c \in Clients, RebuildAIChatRequest(c)
    PROVE  ChatInvariant' /\ SessionsAdvance /\ serial' >= serial
  <1>1. PICK q : q = call[c]
    OBVIOUS
  <1>2. /\ q.kind = "chat" /\ q.step = "rebuilding" /\ MessageRequest(q) /\ Formed /\ ChatRows
        /\ ConversationIsWhole /\ messages' = messages /\ session' = session
        /\ serial \in Nat /\ serial + 1 \in Stamps /\ MaxSerial \in Nat
    BY <1>1, ChatAssumption
    DEF RebuildAIChatRequest, At, ChatInvariant, ChatRequest, ChatRows, Stamps
  <1>3. CASE Go(c, "releasing") /\ UNCHANGED serial
    <2>1. ChatInvariant'
      BY <1>1, <1>2, <1>3, MessageGoesOn DEF ReservedSteps, AskedSteps
    <2> QED BY <1>2, <1>3, <2>1, StillSessions
  <1>4. CASE /\ serial' = serial + 1
             /\ Enter(c, [q EXCEPT !.step = "asking", !.asked = serial',
                                    !.knew = Known(q.session),
                                    !.basis = CurrentBasis(session[q.session].target)])
    <2>1. PICK r : r = [q EXCEPT !.step = "asking", !.asked = serial',
                                    !.knew = Known(q.session),
                                    !.basis = CurrentBasis(session[q.session].target)]
      OBVIOUS
    <2>2. /\ r.kind = "chat" /\ r.step = "asking" /\ r.session = q.session
          /\ r.token = q.token /\ r.asked = serial + 1 /\ r.heard = q.heard
          /\ r.knew = Known(q.session)
          /\ r.checked = q.checked /\ r.mode = q.mode /\ r.ended = q.ended
          /\ DOMAIN r = ChatFields
      BY <1>2, <1>4, <2>1 DEF MessageRequest, ChatFields
    <2>3. r.answered = q.answered
      BY <1>2, <2>1, Zenon DEF MessageRequest, ChatFields
    <2>4. /\ serial' \in 0 .. MaxSerial /\ serial' >= serial /\ serial' \in Nat
          /\ serial' = serial + 1
      BY <1>2, <1>4 DEF Stamps
    <2>5. ConversationIsWhole' /\ \A s : Conversation(s)' = Conversation(s)
      BY <1>2, SameMessagesStayWhole
    <2>6. SessionsAdvance
      BY <1>2, <2>5 DEF SessionsAdvance
    <2>7. ChatRows'
      <3>1. \A s \in Sessions : session[s] # None =>
                session[s].token \in Nat /\ session[s].token <= serial
        BY <1>2 DEF ChatRows, Session, Stamps
      <3> QED BY <1>2, <2>4, <3>1 DEF ChatRows
    <2>8. KnowsAll(r)'
      <3>1. Known(q.session)' = Known(q.session)
        BY <2>5 DEF Known
      <3>2. \A m \in Conversation(q.session) : m.at < serial + 1
        BY <1>2 DEF ChatRows, Conversation
      <3> QED BY <2>2, <2>5, <3>1, <3>2 DEF KnowsAll
    <2>9. MessageRequest(r)'
      <3>1. r.answered = TRUE /\ r.mode = "stream" => r.ended = "stop"
        BY <1>2, <2>2, <2>3, Zenon DEF MessageRequest
      <3>2. /\ r.asked \in Nat /\ r.asked <= serial' /\ r.token \in Nat /\ r.token <= serial'
            /\ r.token # 0
        BY <1>2, <2>2, <2>4 DEF MessageRequest, ReservedSteps
      <3> QED BY <1>2, <2>2, <2>8, <3>1, <3>2 DEF MessageRequest
    <2>10. ChatRequest(r)'
      BY <2>2, <2>9 DEF ChatRequest
    <2>11. \A d \in Clients \ {c} : call[d].kind = "chat" => call[d].token # r.token
      BY <1>1, <1>2, <2>2 DEF ChatInvariant, MessageRequest, ReservedSteps
    <2>12. call'[c] = r /\ (\A d \in Clients \ {c} : call'[d] = call[d]) /\ Formed'
      BY <1>2, <1>4, <2>1, <2>2, Entered, EnteredIsFormed, ZenonT(30) DEF ChatFields
    <2> QED BY <1>2, <2>2, <2>4, <2>5, <2>6, <2>7, <2>10, <2>11, <2>12, ChatInvariantKept
  <1> QED BY <1>1, <1>3, <1>4 DEF RebuildAIChatRequest

LEMMA MessageReleased ==
    ASSUME ChatInvariant, NEW c \in Clients, ReleaseAIChatRequest(c)
    PROVE  ChatInvariant' /\ SessionsAdvance /\ serial' >= serial
  <1>1. PICK q : q = call[c]
    OBVIOUS
  <1>2. /\ q.kind = "chat" /\ MessageRequest(q) /\ Formed /\ ChatRows
        /\ ConversationIsWhole /\ UNCHANGED <<messages, serial>> /\ Leave(c)
        /\ serial \in Nat /\ serial' >= serial /\ serial' \in 0 .. MaxSerial
    BY <1>1, ChatAssumption
    DEF ReleaseAIChatRequest, At, ChatInvariant, ChatRequest, ChatRows
  <1>3. CASE session' = session
    BY <1>2, <1>3, LeavesChat, StillSessions
  <1>4. CASE session' = Unreserved(q.session)
    <2>1. session' = [session EXCEPT ![q.session].token = 0]
      BY <1>4 DEF Unreserved
    <2>2. /\ q.session \in Sessions /\ session[q.session] # None
          /\ \A m \in messages' : m.at \in Nat /\ m.at <= serial'
      BY <1>2 DEF MessageRequest, ChatRows
    <2>3. ConversationIsWhole' /\ \A s : Conversation(s)' = Conversation(s)
      BY <1>2, SameMessagesStayWhole
    <2>4. /\ ChatRows' /\ SessionsAdvance
          /\ \A x \in Sessions : session[x] = None => session'[x] = None
      <3>1. PICK t : t = 0
        OBVIOUS
      <3>2. session' = [session EXCEPT ![q.session].token = t] /\ t <= serial'
            /\ t \in {0} \cup Stamps
        BY <1>2, <2>1, <3>1
      <3> QED BY <1>2, <2>2, <2>3, <3>1, <3>2, TokenChanges
    <2>5. /\ call'[c].kind = "none" /\ (\A d \in Clients \ {c} : call'[d] = call[d]) /\ Formed'
          /\ ChatRequest(call[c])'
      BY <1>2, Left, NoChatRequest
    <2> QED BY <1>2, <2>3, <2>4, <2>5, ChatInvariantKept
  <1> QED BY <1>1, <1>3, <1>4 DEF ReleaseAIChatRequest

\* A question and its answer are put at the end of a conversation.
LEMMA WholeWithExchange ==
    ASSUME ConversationIsWhole, \A m \in messages : m.at \in Nat,
           NEW r, NEW at \in Nat, r.asked \in Nat, r.asked < at, KnowsAll(r),
           messages' = messages \cup Exchange(r, at)
    PROVE  /\ ConversationIsWhole'
           /\ \A s : s # r.session => Conversation(s)' = Conversation(s)
  <1>1. PICK q : q = [session |-> r.session, role |-> "user", at |-> r.asked, knew |-> r.knew]
    OBVIOUS
  <1>2. PICK a : a = [session |-> r.session, role |-> "assistant", at |-> at, knew |-> r.knew]
    OBVIOUS
  <1>3. /\ q.session = r.session /\ q.role = "user" /\ q.at = r.asked /\ q.knew = r.knew
        /\ a.session = r.session /\ a.role = "assistant" /\ a.at = at /\ a.knew = r.knew
        /\ messages' = messages \cup {q, a}
    BY <1>1, <1>2 DEF Exchange
  <1>4. PICK old : old = Conversation(r.session)
    OBVIOUS
  <1>5. /\ Conversation(r.session)' = old \cup {q, a} /\ old \subseteq messages
        /\ \A m \in old : m.at \in Nat /\ m.at < r.asked /\ m.session = r.session
        /\ r.knew = {m.at : m \in old}
    BY <1>3, <1>4 DEF Conversation, KnowsAll, Known
  <1>6. \A s : s # r.session => Conversation(s)' = Conversation(s)
    BY <1>3 DEF Conversation
  <1> DEFINE Fitting(m, same) ==
        LET before == {n \in same : n.at < m.at}
            after == {n \in same : n.at > m.at}
        IN IF m.role = "user"
             THEN /\ m.knew = {n.at : n \in before}
                  /\ \E b \in after : b.role = "assistant" /\ \A n \in after : b.at <= n.at
             ELSE \E b \in before :
                     /\ b.role = "user" /\ m.knew = b.knew
                     /\ \A n \in before : n.at <= b.at
  <1>7. \A m \in messages : Fitting(m, Conversation(m.session))
    BY DEF ConversationIsWhole
  <1>8. ASSUME NEW m \in messages, m.session # r.session
        PROVE  Fitting(m, Conversation(m.session)')
    BY <1>6, <1>7, <1>8
  <1>9. ASSUME NEW m \in old
        PROVE  Fitting(m, old \cup {q, a})
    <2>1. m.at \in Nat /\ m.at < q.at /\ m.at < a.at /\ Fitting(m, old)
      BY <1>3, <1>4, <1>5, <1>7
    <2>2. {n \in old \cup {q, a} : n.at < m.at} = {n \in old : n.at < m.at}
      BY <1>3, <1>5, <2>1
    <2>3. CASE m.role = "user"
      <3>1. PICK b \in old : b.at > m.at /\ b.role = "assistant"
                             /\ \A n \in old : n.at > m.at => b.at <= n.at
        BY <2>1, <2>3
      <3>2. b.at \in Nat /\ b.at < q.at /\ b.at < a.at
        BY <1>3, <1>5
      <3>3. \A n \in old \cup {q, a} : n.at > m.at => b.at <= n.at
        BY <1>3, <3>1, <3>2
      <3>4. m.knew = {n.at : n \in {n \in old \cup {q, a} : n.at < m.at}}
        BY <2>1, <2>2, <2>3
      <3>5. \E x \in {n \in old \cup {q, a} : n.at > m.at} : x.role = "assistant"
               /\ \A n \in {n \in old \cup {q, a} : n.at > m.at} : x.at <= n.at
        BY <3>1, <3>3
      <3> QED BY <2>3, <3>4, <3>5
    <2>4. CASE m.role # "user"
      <3>1. \E b \in {n \in old : n.at < m.at} : b.role = "user" /\ m.knew = b.knew
               /\ \A n \in {n \in old : n.at < m.at} : n.at <= b.at
        BY <2>1, <2>4
      <3> QED BY <2>2, <2>4, <3>1
    <2> QED BY <2>3, <2>4
  <1>10. Fitting(q, old \cup {q, a})
    <2>1. {n \in old \cup {q, a} : n.at < q.at} = old
      BY <1>3, <1>5
    <2>2. {n \in old \cup {q, a} : n.at > q.at} = {a}
      BY <1>3, <1>5
    <2> QED BY <1>3, <1>5, <2>1, <2>2
  <1>11. Fitting(a, old \cup {q, a})
    <2>1. {n \in old \cup {q, a} : n.at < a.at} = old \cup {q}
      BY <1>3, <1>5
    <2>2. \A n \in old \cup {q} : n.at <= q.at
      BY <1>3, <1>5
    <2>3. a.role # "user" /\ a.knew = q.knew /\ q.role = "user" /\ q \in old \cup {q}
      BY <1>3
    <2>4. \E b \in {n \in old \cup {q, a} : n.at < a.at} : b.role = "user" /\ a.knew = b.knew
             /\ \A n \in {n \in old \cup {q, a} : n.at < a.at} : n.at <= b.at
      BY <2>1, <2>2, <2>3
    <2> QED BY <2>3, <2>4
  <1>12. \A m \in messages' : Fitting(m, Conversation(m.session)')
    <2> SUFFICES ASSUME NEW m \in messages'
                 PROVE  Fitting(m, Conversation(m.session)')
      OBVIOUS
    <2>1. m \in messages \/ m = q \/ m = a
      BY <1>3
    <2>2. CASE m \in messages /\ m.session # r.session
      BY <2>2, <1>8
    <2>3. CASE m.session = r.session
      <3>1. Conversation(m.session)' = old \cup {q, a}
        BY <1>5, <2>3
      <3>2. m \in messages => m \in old
        BY <1>4, <2>3 DEF Conversation
      <3>3. Fitting(m, old \cup {q, a})
        BY <1>9, <1>10, <1>11, <2>1, <3>2
      <3> HIDE DEF Fitting
      <3> QED BY <3>1, <3>3
    <2> HIDE DEF Fitting
    <2> QED BY <1>3, <2>1, <2>2, <2>3
  <1>13. ConversationIsWhole'
    BY <1>12 DEF ConversationIsWhole
  <1> QED BY <1>6, <1>13

LEMMA MessageCompletes ==
    ASSUME ChatInvariant, NEW c \in Clients, CompleteAIChatGeneration(c)
    PROVE  ChatInvariant' /\ SessionsAdvance /\ serial' >= serial
  <1>1. PICK q : q = call[c]
    OBVIOUS
  <1>2. /\ q.kind = "chat" /\ q.step = "saving" /\ MessageRequest(q) /\ Formed /\ ChatRows
        /\ ConversationIsWhole
        /\ serial \in Nat /\ serial + 1 \in Nat /\ serial + 1 <= MaxSerial /\ MaxSerial \in Nat
    BY <1>1, ChatAssumption
    DEF CompleteAIChatGeneration, At, ChatInvariant, ChatRequest, ChatRows
  <1>3. CASE Go(c, "releasing") /\ UNCHANGED <<session, messages, serial>>
    <2>1. ChatInvariant'
      BY <1>1, <1>2, <1>3, MessageGoesOn DEF ReservedSteps, AskedSteps
    <2> QED BY <1>2, <1>3, <2>1, StillSessions
  <1>4. CASE /\ MayStore(q)
             /\ session' = Unreserved(q.session)
             /\ serial' = IF q.answered THEN serial + 1 ELSE serial
             /\ messages' = IF q.answered THEN messages \cup Exchange(q, serial') ELSE messages
             /\ Leave(c)
    <2>1. /\ session' = [session EXCEPT ![q.session].token = 0]
          /\ q.session \in Sessions /\ session[q.session] # None
          /\ KnowsAll(q) /\ q.asked \in Nat /\ q.asked <= serial
          /\ \A m \in messages : m.at \in Nat /\ m.at <= serial
      BY <1>2, <1>4 DEF Unreserved, MayStore, MessageRequest, AskedSteps, ChatRows
    <2>2. /\ serial' >= serial /\ serial' \in 0 .. MaxSerial /\ serial' \in Nat
      BY <1>2, <1>4 DEF ChatRows
    <2>3. /\ ConversationIsWhole'
          /\ \A s : s # q.session => Conversation(s)' = Conversation(s)
          /\ \A m \in messages' : m.at \in Nat /\ m.at <= serial'
      <3>1. CASE messages' = messages
        BY <1>2, <2>1, <2>2, <3>1, SameMessagesStayWhole
      <3>2. CASE serial' = serial + 1 /\ messages' = messages \cup Exchange(q, serial')
        <4>1. PICK at : at = serial'
          OBVIOUS
        <4>2. at \in Nat /\ q.asked < at /\ messages' = messages \cup Exchange(q, at)
          BY <1>2, <2>1, <2>2, <3>2, <4>1
        <4>3. \A m \in Exchange(q, at) : m.at \in Nat /\ m.at <= serial'
          BY <2>1, <4>1, <4>2 DEF Exchange
        <4> QED BY <1>2, <2>1, <2>2, <3>2, <4>2, <4>3, WholeWithExchange
      <3> QED BY <1>4, <3>1, <3>2
    <2>4. /\ ChatRows' /\ SessionsAdvance
          /\ \A x \in Sessions : session[x] = None => session'[x] = None
      <3>1. PICK t : t = 0
        OBVIOUS
      <3>2. session' = [session EXCEPT ![q.session].token = t] /\ t <= serial'
            /\ t \in {0} \cup Stamps
        BY <2>1, <2>2, <3>1
      <3> QED BY <1>2, <2>1, <2>2, <2>3, <3>1, <3>2, TokenChanges
    <2>5. /\ call'[c].kind = "none" /\ (\A d \in Clients \ {c} : call'[d] = call[d]) /\ Formed'
          /\ ChatRequest(call[c])'
      BY <1>2, <1>4, Left, NoChatRequest
    <2> QED BY <2>2, <2>3, <2>4, <2>5, ChatInvariantKept
  <1> QED BY <1>1, <1>3, <1>4 DEF CompleteAIChatGeneration

-----------------------------------------------------------------------------
(* All steps                                                               *)

ChatReads(c) ==
    \/ BeginsChat(c) \/ BeginsCreateChat(c) \/ BeginsTest(c) \/ BeginsConfigure(c)
    \/ CommitSetting(c) \/ ProviderTested(c) \/ AuditAIProviderTest(c) \/ ShowTestResult(c)
    \/ CancelAIChatRequest(c) \/ StorageFails(c) \/ ReadFragment(c) \/ ReadsFinishReason(c)
    \/ ReadLast(c) \/ BreakOff(c) \/ FinishAIChatMessage(c)

ChatSaves(c) ==
    \/ SaveSession(c) \/ ReserveAIChatGeneration(c) \/ RebuildAIChatRequest(c)
    \/ CompleteAIChatGeneration(c) \/ ReleaseAIChatRequest(c)

LEMMA ChatStepOfOne ==
    ASSUME ChatNext
    PROVE  \E c \in Clients : ChatReads(c) \/ ChatSaves(c)
  BY ChatSteps DEF ChatReads, ChatSaves

LEMMA ChatFrame ==
    ASSUME NEW c, ChatReads(c)
    PROVE  UNCHANGED <<session, messages, serial>>
  <1>1. CASE BeginsChat(c) \/ BeginsCreateChat(c) \/ BeginsTest(c) \/ BeginsConfigure(c)
    BY <1>1, Zenon DEF BeginsChat, BeginsCreateChat, BeginsTest, BeginsConfigure,
       SendAIChatMessage, CreateAIChatSession, TestAIProvider, Upsert, chatVars
  <1>2. CASE \/ CommitSetting(c) \/ ProviderTested(c) \/ AuditAIProviderTest(c)
             \/ ShowTestResult(c) \/ CancelAIChatRequest(c) \/ StorageFails(c)
             \/ ReadFragment(c) \/ ReadsFinishReason(c) \/ ReadLast(c) \/ BreakOff(c)
             \/ FinishAIChatMessage(c)
    BY <1>2, Zenon DEF CommitSetting, ProviderTested, AuditAIProviderTest, ShowTestResult,
       CancelAIChatRequest, StorageFails, ReadFragment, ReadsFinishReason,
       ReadFinishReason, ReadLast, BreakOff, FinishAIChatMessage, chatVars
  <1> QED BY <1>1, <1>2 DEF ChatReads

LEMMA ChatInvariantHoldsOn ==
    ASSUME ChatInvariant, [Next]_vars
    PROVE  ChatInvariant' /\ SessionsAdvance /\ serial' >= serial
  <1>0. Formed /\ ChatRows /\ ConversationIsWhole
    BY DEF ChatInvariant
  <1>a. ASSUME UNCHANGED call, UNCHANGED chatVars
        PROVE  ChatInvariant' /\ SessionsAdvance /\ serial' >= serial
    <2>1. /\ UNCHANGED <<session, messages, serial>> /\ Formed'
          /\ ChatRows' /\ SessionsAdvance /\ serial' >= serial /\ ConversationIsWhole'
      BY <1>0, <1>a, StillSessions DEF chatVars, Formed
    <2>2. ASSUME NEW d \in Clients
          PROVE  ChatRequest(call[d])'
      <3>1. ChatRequest(call[d])
        BY DEF ChatInvariant
      <3>2. PICK r : r = call[d]
        OBVIOUS
      <3>3. r.kind = "chat" => MessageRequest(r)'
        BY <1>0, <2>1, <3>1, <3>2, WaitingMessage DEF ChatRequest
      <3>4. ChatRequest(r)'
        BY <2>1, <3>1, <3>2, <3>3 DEF ChatRequest
      <3> QED BY <1>a, <3>2, <3>4
    <2> QED BY <1>a, <2>1, <2>2 DEF ChatInvariant
  <1>b. ASSUME NEW kinds, Moves(kinds), kinds \cap ChatKinds = {}, UNCHANGED chatVars
        PROVE  ChatInvariant' /\ SessionsAdvance /\ serial' >= serial
    <2>1. PICK c \in Clients : /\ call'[c].kind \in kinds \cup {"none"}
                               /\ \A d \in Clients \ {c} : call'[d] = call[d]
      BY <1>b DEF Moves
    <2>2. call'[c].kind \notin {"createChat", "chat"} /\ Formed'
          /\ UNCHANGED <<session, messages, serial>>
      BY <1>b, <2>1 DEF ChatKinds, Moves, chatVars
    <2> QED BY <1>0, <2>1, <2>2, MovesOnElsewhere, StillSessions
  <1>1. CASE WorkspaceEvent /\ UNCHANGED <<shareVars, tokenVars, chatVars, libraryVars>>
    BY <1>1, <1>a DEF WorkspaceEvent, SwitchAccount, ChangeRole, Archive, Publish, Tick, Event
  <1>2. CASE ShareNext /\ UNCHANGED <<tokenVars, chatVars, libraryVars>>
    <2>1. ShareKinds \cap ChatKinds = {}
      BY KindsApart
    <2> QED BY <1>0, <1>2, <1>b, <2>1, ShareStepsMove
  <1>3. CASE TokenNext /\ UNCHANGED <<shareVars, chatVars, libraryVars>>
    <2>1. TokenKinds \cap ChatKinds = {}
      BY KindsApart
    <2> QED BY <1>0, <1>3, <1>a, <1>b, <2>1, TokenStepsMove
  <1>4. CASE RotationNext /\ UNCHANGED <<chatVars, libraryVars>>
    <2>1. {"rotate"} \cap ChatKinds = {}
      BY KindsApart
    <2> QED BY <1>0, <1>4, <1>b, <2>1, RotationStepsMove
  <1>5. CASE ChatNext
    <2>1. PICK c \in Clients : ChatReads(c) \/ ChatSaves(c)
      BY <1>5, ChatStepOfOne
    <2>2. CASE ChatReads(c)
      <3>1. ChatInvariant'
        BY <2>2, MessageBegins, SessionBegins, ConfigurationMoves, MessageMoves,
           FragmentHeard, EndHeard, LastHeard DEF ChatReads
      <3> QED BY <1>0, <2>2, <3>1, ChatFrame, StillSessions
    <2>3. CASE ChatSaves(c)
      BY <2>3, SessionSaved, MessageReserves, MessageRebuilt, MessageCompletes,
         MessageReleased DEF ChatSaves
    <2> QED BY <2>1, <2>2, <2>3
  <1>6. CASE LibraryNext /\ UNCHANGED <<shareVars, tokenVars, chatVars>>
    <2>1. LibraryKinds \cap ChatKinds = {}
      BY KindsApart
    <2> QED BY <1>0, <1>6, <1>b, <2>1, LibraryStepsMove
  <1>7. CASE UNCHANGED vars
    BY <1>7, <1>a DEF vars
  <1> QED BY <1>1, <1>2, <1>3, <1>4, <1>5, <1>6, <1>7 DEF Next

LEMMA ChatInvariantHolds == Spec => []ChatInvariant
  <1>1. Init => ChatInvariant
    <2> SUFFICES ASSUME Init PROVE ChatInvariant
      OBVIOUS
    <2>1. /\ call = [c \in Clients |-> Idle]
          /\ \A c \in Clients : call[c].kind = "none" /\ {"kind", "step"} \subseteq DOMAIN call[c]
      BY DEF Init, WorkspaceInit, Idle
    <2>2. ChatRows /\ ConversationIsWhole
      BY ChatAssumption DEF Init, ChatInit, ChatRows, ConversationIsWhole
    <2> QED BY <2>1, <2>2 DEF ChatInvariant, Formed, ChatRequest
  <1>2. ChatInvariant /\ [Next]_vars => ChatInvariant'
    BY ChatInvariantHoldsOn
  <1> QED BY <1>1, <1>2, PTL DEF Spec

\* However messages to a session overlap, are superseded, given up or fail, its
\* conversation is a sequence of questions each followed by its answer, and every
\* answer was made with all that comes before its question and nothing else: while
\* a request holds its session nobody else stores into it, and what was stored
\* gives the reservation up (CompleteAIChatGeneration).
THEOREM ConversationsAreWhole == Spec => []ConversationIsWhole
  <1>1. ChatInvariant => ConversationIsWhole
    BY DEF ChatInvariant
  <1> QED BY <1>1, ChatInvariantHolds, PTL

-----------------------------------------------------------------------------
(* Answers                                                                 *)

\* AnswersAreCurrent of one request and of one session.
AnswerOf(c) ==
    /\ Stored(c) =>
          /\ call[c].answered /\ (call[c].mode = "stream" => call[c].ended = "stop")
          /\ CanRead(call[c].actor) /\ TargetLive(session[call[c].session].target)
          /\ call[c].basis = CurrentBasis(session[call[c].session].target)
    /\ FirstFragment(c) => Holds(call[c]) /\ CanRead(call[c].actor)
    /\ TestShown(c) => MayConfigure(call[c].actor, call[c].owner)

GivenUp(s) ==
    session'[s].token = 0 /\ session[s].token # 0 =>
        \E c \in Clients : /\ call[c].kind = "chat" /\ call[c].session = s
                            /\ call[c].token = session[s].token /\ call'[c] = Idle

LEMMA WaitingAnswer ==
    ASSUME NEW c, call'[c] = call[c]
    PROVE  AnswerOf(c)
  BY DEF AnswerOf, Stored, FirstFragment, TestShown, At, Idle

LEMMA OtherAnswer ==
    ASSUME NEW c, call[c].kind \notin {"chat", "testProvider"}
    PROVE  AnswerOf(c)
  BY DEF AnswerOf, Stored, FirstFragment, TestShown, At

LEMMA UntouchedAnswers ==
    ASSUME ChatRows, UNCHANGED chatVars,
           UNCHANGED call \/ \E kinds : Moves(kinds) /\ kinds \cap ChatKinds = {}
    PROVE  /\ messages' = messages
           /\ \A c \in Clients : AnswerOf(c)
           /\ \A s \in Sessions : GivenUp(s)
  <1>1. messages' = messages /\ \A s \in Sessions : GivenUp(s)
    BY DEF chatVars, GivenUp
  <1>2. CASE UNCHANGED call
    BY <1>1, <1>2, WaitingAnswer
  <1>3. ASSUME NEW kinds, Moves(kinds), kinds \cap ChatKinds = {}, NEW c \in Clients
        PROVE  AnswerOf(c)
    <2>1. call'[c] = call[c] \/ call[c].kind \in kinds \cup {"none"}
      BY <1>3 DEF Moves
    <2>2. {"chat", "testProvider"} \subseteq ChatKinds /\ "none" \notin {"chat", "testProvider"}
      BY DEF ChatKinds
    <2> QED BY <1>3, <2>1, <2>2, WaitingAnswer, OtherAnswer
  <1> QED BY <1>1, <1>2, <1>3

LEMMA ChatStepsTouchOne ==
    ASSUME Formed, NEW c \in Clients, ChatReads(c) \/ ChatSaves(c)
    PROVE  \A d \in Clients \ {c} : call'[d] = call[d]
  <1>1. CASE BeginsChat(c) \/ BeginsCreateChat(c) \/ BeginsTest(c) \/ BeginsConfigure(c)
    BY <1>1, Entered DEF BeginsChat, BeginsCreateChat, BeginsTest, BeginsConfigure,
       SendAIChatMessage, CreateAIChatSession, TestAIProvider, Upsert
  <1>2. CASE SaveSession(c) \/ CommitSetting(c) \/ ShowTestResult(c) \/ StorageFails(c)
               \/ ReleaseAIChatRequest(c)
    BY <1>2, Left DEF SaveSession, CommitSetting, ShowTestResult, StorageFails,
       ReleaseAIChatRequest
  <1>3. CASE ProviderTested(c) \/ AuditAIProviderTest(c) \/ CancelAIChatRequest(c)
               \/ BreakOff(c) \/ FinishAIChatMessage(c) \/ CompleteAIChatGeneration(c)
    BY <1>3, Left, Gone DEF ProviderTested, AuditAIProviderTest, CancelAIChatRequest,
       BreakOff, FinishAIChatMessage, CompleteAIChatGeneration
  <1>4. CASE ReserveAIChatGeneration(c) \/ RebuildAIChatRequest(c) \/ ReadFragment(c)
               \/ ReadsFinishReason(c) \/ ReadLast(c)
    <2>1. Leave(c) \/ (\E s : Go(c, s)) \/ (\E r : Enter(c, r))
      BY <1>4, Zenon DEF ReserveAIChatGeneration, RebuildAIChatRequest, ReadFragment,
         ReadsFinishReason, ReadFinishReason, ReadLast
    <2> QED BY <2>1, Entered, Left, Gone
  <1> QED BY <1>1, <1>2, <1>3, <1>4 DEF ChatReads, ChatSaves

LEMMA ReadingAnswers ==
    ASSUME ChatInvariant, now \in Nat, NEW c \in Clients, ChatReads(c)
    PROVE  AnswerOf(c)
  <1>0. /\ messages' = messages /\ Formed /\ ChatRequest(call[c])
        /\ ~Stored(c)
    BY ChatFrame DEF ChatInvariant, Stored
  <1>1. CASE BeginsChat(c) \/ BeginsCreateChat(c) \/ BeginsTest(c) \/ BeginsConfigure(c)
    BY <1>1, FreeIsNone, OtherAnswer
    DEF BeginsChat, BeginsCreateChat, BeginsTest, BeginsConfigure
  <1>2. CASE \/ CommitSetting(c) \/ ProviderTested(c) \/ ShowTestResult(c)
             \/ CancelAIChatRequest(c) \/ StorageFails(c) \/ FinishAIChatMessage(c)
    <2>1. /\ ~At(c, {"chat"}, "asking") /\ ~At(c, {"testProvider"}, "auditing")
      BY <1>2 DEF CommitSetting, ProviderTested, ShowTestResult, CancelAIChatRequest,
         StorageFails, FinishAIChatMessage, At
    <2> QED BY <1>0, <2>1 DEF AnswerOf, FirstFragment, TestShown
  <1>3. CASE AuditAIProviderTest(c)
    <2>1. ~FirstFragment(c)
      BY <1>3 DEF AuditAIProviderTest, FirstFragment, At
    <2>2. TestShown(c) => MayConfigure(call[c].actor, call[c].owner)
      <3>1. CASE Leave(c)
        BY <1>0, <3>1, Left DEF TestShown, Idle
      <3> QED BY <1>3, <3>1 DEF AuditAIProviderTest
    <2> QED BY <1>0, <2>1, <2>2 DEF AnswerOf
  <1>4. CASE ReadFragment(c) \/ ReadsFinishReason(c) \/ ReadLast(c) \/ BreakOff(c)
    <2>0. At(c, {"chat"}, "asking")
      BY <1>4 DEF ReadFragment, ReadsFinishReason, ReadFinishReason, ReadLast, BreakOff
    <2>1. ~TestShown(c)
      BY <2>0 DEF TestShown, At
    <2>2. PICK q : q = call[c]
      OBVIOUS
    <2>3. /\ q.kind = "chat" /\ DOMAIN q = ChatFields /\ q.heard \in Nat
          /\ q.heard = 0 => q.checked = 0
      BY <1>0, <2>0, <2>2 DEF At, ChatRequest, MessageRequest
    <2>4. FirstFragment(c) => Holds(q) /\ CanRead(q.actor)
      <3>1. CASE ReadFragment(c)
        <4>1. CASE Go(c, "finishing")
          <5>1. call'[c] = [q EXCEPT !.step = "finishing"]
            BY <1>0, <2>2, <4>1, Gone
          <5>2. call'[c].heard = q.heard
            BY <2>3, <5>1 DEF ChatFields
          <5> QED BY <2>2, <5>2 DEF FirstFragment
        <4>2. CASE q.checked = now + 1 \/ StreamValid(q)
          <5>1. now + 1 # 0
            OBVIOUS
          <5> QED BY <2>2, <2>3, <4>2 DEF FirstFragment, StreamValid
        <4> QED BY <2>2, <3>1, <4>1, <4>2 DEF ReadFragment
      <3>2. CASE BreakOff(c)
        <4>1. call'[c] = [q EXCEPT !.step = "finishing"]
          BY <1>0, <2>2, <3>2, Gone DEF BreakOff
        <4>2. call'[c].heard = q.heard
          BY <2>3, <4>1 DEF ChatFields
        <4> QED BY <2>2, <4>2 DEF FirstFragment
      <3>3. CASE ReadsFinishReason(c)
        <4>1. PICK reason \in {"stop", "length"} : ReadFinishReason(c, reason)
          BY <3>3 DEF ReadsFinishReason
        <4>2. call'[c] = [q EXCEPT !.ended = reason]
          BY <1>0, <2>2, <4>1, Entered DEF ReadFinishReason
        <4>3. call'[c].heard = q.heard
          BY <2>3, <4>2 DEF ChatFields
        <4> QED BY <2>2, <4>3 DEF FirstFragment
      <3>4. CASE ReadLast(c)
        <4>1. call'[c] = [q EXCEPT !.step = "finishing", !.answered = Complete(q)]
          BY <1>0, <2>2, <3>4, Entered DEF ReadLast
        <4>2. call'[c].heard = q.heard
          BY <2>3, <4>1 DEF ChatFields
        <4> QED BY <2>2, <4>2 DEF FirstFragment
      <3> QED BY <1>4, <3>1, <3>2, <3>3, <3>4
    <2> QED BY <1>0, <2>1, <2>2, <2>4 DEF AnswerOf
  <1> QED BY <1>1, <1>2, <1>3, <1>4 DEF ChatReads

LEMMA ReservedAnswers ==
    ASSUME ChatInvariant, NEW c \in Clients,
           SaveSession(c) \/ ReserveAIChatGeneration(c) \/ RebuildAIChatRequest(c)
    PROVE  /\ AnswerOf(c) /\ messages' = messages
           /\ \A s \in Sessions : session[s] # None => GivenUp(s)
  <1>1. PICK q : q = call[c]
    OBVIOUS
  <1>2. ChatRows /\ ChatRequest(q) /\ serial \in Nat
    BY <1>1, ChatAssumption DEF ChatInvariant, ChatRows
  <1>3. messages' = messages /\ ~Stored(c)
    BY DEF SaveSession, ReserveAIChatGeneration, RebuildAIChatRequest, Stored
  <1>4. ~At(c, {"chat"}, "asking") /\ ~At(c, {"testProvider"}, "auditing")
    BY DEF SaveSession, ReserveAIChatGeneration, RebuildAIChatRequest, At
  <1>5. AnswerOf(c)
    BY <1>3, <1>4 DEF AnswerOf, FirstFragment, TestShown
  <1>6. ASSUME NEW s \in Sessions, session[s] # None
        PROVE  session'[s] = session[s] \/ session'[s].token # 0
    <2>1. CASE SaveSession(c)
      <3>1. session[q.session] = None
        BY <1>1, <1>2, <2>1 DEF SaveSession, At, ChatRequest
      <3> QED BY <1>1, <1>2, <1>6, <2>1, <3>1 DEF SaveSession, ChatRows
    <2>2. CASE ReserveAIChatGeneration(c)
      <3>1. CASE session' = session
        BY <3>1
      <3>2. CASE serial' = serial + 1 /\ session' = [session EXCEPT ![q.session].token = serial']
        <4>1. PICK t : t = serial'
          OBVIOUS
        <4>2. t # 0 /\ session' = [session EXCEPT ![q.session].token = t]
          BY <1>2, <3>2, <4>1
        <4>3. session[s] \in Session
          BY <1>2, <1>6 DEF ChatRows
        <4> QED BY <1>2, <4>2, <4>3 DEF ChatRows, Session
      <3> QED BY <1>1, <2>2, <3>1, <3>2 DEF ReserveAIChatGeneration
    <2>3. CASE RebuildAIChatRequest(c)
      BY <2>3 DEF RebuildAIChatRequest
    <2> QED BY <2>1, <2>2, <2>3
  <1> QED BY <1>3, <1>5, <1>6 DEF GivenUp

\* What gives a reservation up is the request that holds it.
LEMMA OwnReservation ==
    ASSUME ChatRows, NEW c \in Clients, NEW q, q = call[c], MessageRequest(q),
           q.kind = "chat", Holds(q), Leave(c), Formed, session' = Unreserved(q.session)
    PROVE  \A s \in Sessions : session[s] # None => GivenUp(s)
  <1>1. call'[c] = Idle
    BY DEF Formed, Leave
  <1>2. ASSUME NEW s \in Sessions, s # q.session
        PROVE  session'[s] = session[s]
    BY <1>2 DEF Unreserved, ChatRows
  <1> QED BY <1>1, <1>2 DEF GivenUp, Holds

LEMMA StoredAnswers ==
    ASSUME ChatInvariant, NEW c \in Clients,
           CompleteAIChatGeneration(c) \/ ReleaseAIChatRequest(c)
    PROVE  /\ AnswerOf(c) /\ (messages' # messages => Stored(c))
           /\ \A s \in Sessions : session[s] # None => GivenUp(s)
  <1>1. PICK q : q = call[c]
    OBVIOUS
  <1>2. /\ ChatRows /\ MessageRequest(q) /\ q.kind = "chat" /\ Formed
        /\ ~At(c, {"chat"}, "asking") /\ ~At(c, {"testProvider"}, "auditing")
    BY <1>1 DEF ChatInvariant, ChatRequest, CompleteAIChatGeneration, ReleaseAIChatRequest, At
  <1>3. ~FirstFragment(c) /\ ~TestShown(c)
    BY <1>2 DEF FirstFragment, TestShown
  <1>4. CASE ReleaseAIChatRequest(c)
    <2>1. messages' = messages /\ ~Stored(c) /\ Leave(c)
      BY <1>4 DEF ReleaseAIChatRequest, Stored
    <2>2. AnswerOf(c)
      BY <1>3, <2>1 DEF AnswerOf
    <2>3. \A s \in Sessions : session[s] # None => GivenUp(s)
      <3>1. CASE session' = session
        BY <3>1 DEF GivenUp
      <3>2. CASE Holds(q) /\ session' = Unreserved(q.session)
        BY <1>1, <1>2, <2>1, <3>2, OwnReservation
      <3> QED BY <1>1, <1>4, <3>1, <3>2 DEF ReleaseAIChatRequest
    <2> QED BY <2>1, <2>2, <2>3
  <1>5. CASE CompleteAIChatGeneration(c)
    <2>1. CASE UNCHANGED <<session, messages, serial>>
      <3>1. AnswerOf(c)
        BY <1>3, <2>1 DEF AnswerOf, Stored
      <3> QED BY <2>1, <3>1 DEF GivenUp
    <2>2. CASE /\ MayStore(q)
               /\ session' = Unreserved(q.session)
               /\ messages' = IF q.answered THEN messages \cup Exchange(q, serial') ELSE messages
               /\ Leave(c)
      <3>1. \A s \in Sessions : session[s] # None => GivenUp(s)
        BY <1>1, <1>2, <2>2, OwnReservation DEF MayStore
      <3>2. call'[c] = Idle
        BY <1>2, <2>2 DEF Formed, Leave
      <3>3. messages' # messages => Stored(c)
        BY <1>5, <3>2 DEF CompleteAIChatGeneration, Stored
      <3>4. messages' # messages => q.answered
        BY <2>2, Zenon
      <3>5. q.answered => q.answered = TRUE
        BY Zenon
      <3>6. q.answered /\ q.mode = "stream" => q.ended = "stop"
        BY <1>2, <3>5, Zenon DEF MessageRequest
      <3>7. /\ CanRead(q.actor) /\ TargetLive(session[q.session].target)
            /\ q.basis = CurrentBasis(session[q.session].target)
        BY <2>2 DEF MayStore, ContextValid, Permitted
      <3>8. Stored(c) => messages' # messages
        BY DEF Stored
      <3>9. /\ Stored(c) =>
                 /\ call[c].answered /\ (call[c].mode = "stream" => call[c].ended = "stop")
                 /\ CanRead(call[c].actor) /\ TargetLive(session[call[c].session].target)
                 /\ call[c].basis = CurrentBasis(session[call[c].session].target)
        BY <1>1, <3>4, <3>6, <3>7, <3>8, Zenon
      <3>10. AnswerOf(c)
        BY <1>3, <3>9, Zenon DEF AnswerOf
      <3> QED BY <3>1, <3>3, <3>10, Zenon
    <2> QED BY <1>1, <1>5, <2>1, <2>2 DEF CompleteAIChatGeneration
  <1> QED BY <1>4, <1>5

LEMMA AnswersHoldOn ==
    ASSUME ChatInvariant, now \in Nat, [Next]_vars
    PROVE  /\ messages' # messages => \E c \in Clients : Stored(c)
           /\ \A c \in Clients : AnswerOf(c)
           /\ \A s \in Sessions : session[s] # None => GivenUp(s)
  <1>0. Formed /\ ChatRows
    BY DEF ChatInvariant
  <1>1. CASE WorkspaceEvent /\ UNCHANGED <<shareVars, tokenVars, chatVars, libraryVars>>
    BY <1>0, <1>1, UntouchedAnswers
    DEF WorkspaceEvent, SwitchAccount, ChangeRole, Archive, Publish, Tick, Event
  <1>2. CASE ShareNext /\ UNCHANGED <<tokenVars, chatVars, libraryVars>>
    BY <1>0, <1>2, KindsApart, ShareStepsMove, UntouchedAnswers
  <1>3. CASE TokenNext /\ UNCHANGED <<shareVars, chatVars, libraryVars>>
    BY <1>0, <1>3, KindsApart, TokenStepsMove, UntouchedAnswers
  <1>4. CASE RotationNext /\ UNCHANGED <<chatVars, libraryVars>>
    BY <1>0, <1>4, KindsApart, RotationStepsMove, UntouchedAnswers
  <1>5. CASE ChatNext
    <2>1. PICK c \in Clients : ChatReads(c) \/ ChatSaves(c)
      BY <1>5, ChatStepOfOne
    <2>2. \A d \in Clients \ {c} : AnswerOf(d)
      BY <1>0, <2>1, ChatStepsTouchOne, WaitingAnswer
    <2>3. /\ AnswerOf(c) /\ (messages' # messages => Stored(c))
          /\ \A s \in Sessions : session[s] # None => GivenUp(s)
      <3>1. CASE ChatReads(c)
        <4>1. messages' = messages /\ session' = session
          BY <3>1, ChatFrame
        <4>2. \A s \in Sessions : GivenUp(s)
          BY <4>1 DEF GivenUp
        <4> QED BY <3>1, <4>1, <4>2, ReadingAnswers
      <3>2. CASE ChatSaves(c)
        BY <3>2, ReservedAnswers, StoredAnswers DEF ChatSaves
      <3> QED BY <2>1, <3>1, <3>2
    <2> QED BY <2>2, <2>3
  <1>6. CASE LibraryNext /\ UNCHANGED <<shareVars, tokenVars, chatVars>>
    BY <1>0, <1>6, KindsApart, LibraryStepsMove, UntouchedAnswers
  <1>7. CASE UNCHANGED vars
    BY <1>0, <1>7, UntouchedAnswers DEF vars
  <1> QED BY <1>1, <1>2, <1>3, <1>4, <1>5, <1>6, <1>7 DEF Next

\* What a session's reservation is after a step: as it was, given up, or later.
LEMMA ReservationsAdvance ==
    ASSUME ChatRows, ChatRows', SessionsAdvance, serial' >= serial,
           NEW s \in Sessions, session[s] # None
    PROVE  /\ session'[s].target = session[s].target
           /\ session'[s].token \in {0} \cup session[s].token .. serial'
  <1>1. /\ serial \in Nat /\ serial' \in Nat
        /\ session[s].token \in Nat /\ session[s].token <= serial
    BY ChatAssumption DEF ChatRows, Session, Stamps
  <1>2. session'[s] # None /\ session'[s].target = session[s].target
    BY DEF SessionsAdvance
  <1>3. session'[s].token \in Nat /\ session'[s].token <= serial'
    BY <1>2, ChatAssumption DEF ChatRows, Session, Stamps
  <1> QED BY <1>1, <1>2, <1>3 DEF SessionsAdvance

\* Whatever changes while the provider answers, and whatever else runs: messages are
\* stored only for a complete answer, for someone who may then read the document, and
\* from the sources, the provider and the prompt that then apply; no first fragment is
\* passed on for a request that was superseded or lost its rights; and a reservation
\* ends only through the request that holds it, or through a later one
\* (validateAICompletionContext, validateAIChatStream, ReleaseAIChatRequest).
THEOREM AnswersRestOnTheirSources == Spec => AnswersAreCurrent
  <1> DEFINE Body ==
       /\ messages' # messages => \E c \in Clients : Stored(c)
       /\ \A c \in Clients : LET r == call[c] IN
            /\ Stored(c) =>
                  /\ r.answered /\ (r.mode = "stream" => r.ended = "stop")
                  /\ CanRead(r.actor) /\ TargetLive(session[r.session].target)
                  /\ r.basis = CurrentBasis(session[r.session].target)
            /\ FirstFragment(c) => Holds(r) /\ CanRead(r.actor)
            /\ TestShown(c) => MayConfigure(r.actor, r.owner)
       /\ \A s \in Sessions : session[s] # None => LET held == session[s].token IN
            /\ session'[s].target = session[s].target
            /\ session'[s].token = 0 /\ held # 0 =>
                  \E c \in Clients : /\ call[c].kind = "chat" /\ call[c].session = s
                                      /\ call[c].token = held /\ call'[c] = Idle
            /\ session'[s].token \in {0} \cup held .. serial'
  <1>1. ASSUME ChatInvariant, TokenInvariant, [Next]_vars
        PROVE  Body
    <2>1. now \in Nat
      BY <1>1, WorkspaceAssumption DEF TokenInvariant, TokenRows, Times
    <2>2. /\ messages' # messages => \E c \in Clients : Stored(c)
          /\ \A c \in Clients : AnswerOf(c)
          /\ \A s \in Sessions : session[s] # None => GivenUp(s)
      BY <1>1, <2>1, AnswersHoldOn
    <2>3. ChatRows /\ ChatRows' /\ SessionsAdvance /\ serial' >= serial
      BY <1>1, ChatInvariantHoldsOn DEF ChatInvariant
    <2>4. \A s \in Sessions : session[s] # None =>
            /\ session'[s].target = session[s].target
            /\ session'[s].token \in {0} \cup session[s].token .. serial'
      BY <2>3, ReservationsAdvance
    <2> QED BY <2>2, <2>4, Zenon DEF AnswerOf, GivenUp
  <1>2. ChatInvariant /\ TokenInvariant /\ [Next]_vars => [Body]_<<rows, call, chatVars>>
    BY <1>1
  <1> HIDE DEF Body
  <1>3. Spec => [][Body]_<<rows, call, chatVars>>
    BY <1>2, ChatInvariantHolds, TokenInvariantHolds, PTL DEF Spec
  <1> QED BY <1>3 DEF AnswersAreCurrent, Body

=============================================================================
