---------------------------- MODULE Comparisons -----------------------------
(***************************************************************************)
(* Two published versions of a document are compared: the facts derived    *)
(* from their sources are refreshed when an older parser made them, the    *)
(* difference is computed, stored and answered (CompareVersions, Diff,     *)
(* ListDocumentDiffs, ensureVersionEndpointFactsLocked,                    *)
(* ensureDiffFactsLocked, RefreshEndpointFacts).  The sources are          *)
(* immutable; everything else can be derived from them again.  How a       *)
(* contract is parsed is a constant here, which OpenAPIDocument defines.   *)
(***************************************************************************)
EXTENDS TextDiff, EndpointDiff

CONSTANTS Sources,             \* the pairs <<older, newer>> of sources compared
          Lines,               \* the lines of texts
          Parse(_),            \* ParseOpenAPI: what a contract gives, {} or {endpoints}
          Requests,            \* the requests and
          Responses            \* responses two contracts are compared on

\* Versions of one document have its format.
ASSUME SourcesAssumption ==
  \A pair \in Sources :
    /\ pair[1].format = "text" <=> pair[2].format = "text"
    /\ pair[1].format = "text" => pair[1].lines \in Seq(Lines) /\ pair[2].lines \in Seq(Lines)

\* Parsing gives every endpoint its security.
ASSUME EndpointsAssumption ==
  \A source \in {pair[1] : pair \in Sources} \cup {pair[2] : pair \in Sources} :
    source.format # "text" =>
      \A endpoints \in Parse(source.document) :
        \A k \in DOMAIN endpoints : "security" \in DOMAIN endpoints[k]

Versions == {"from", "to"}
Current == 2   \* openAPIParserVersion; 1 stands for every older parser
Parsers == {1, Current}

VARIABLES sources,   \* version -> [format, lines] or [format, document]
          parsed,    \* version -> what parsing its source gives, and how it is compared
          facts,     \* version -> [parser, endpoints], the derived index
          diff,      \* {} or the stored difference [parser, items]
          answered   \* {} or the difference a reader was given

vars == <<sources, parsed, facts, diff, answered>>

IsText(v) == sources[v].format = "text"
Contract(v) == parsed[v].endpoints
Fresh(v) == IsText(v) \/ facts[v].parser = Current

\* What an older parser kept of a document: it did not follow references of path items.
OperationsInPlace(document) ==
  UNION {{<<m, p>> : m \in DOMAIN document.paths[p].operations} : p \in DOMAIN document.paths}

\* Only there do the parsers differ.
PathsRefer(v) == \E p \in DOMAIN sources[v].document.paths : sources[v].document.paths[p].ref # ""

IndexedBy(v, parser) ==
  [parser |-> parser,
   endpoints |-> IF parser = Current THEN Contract(v)
                 ELSE Restrict(Contract(v), OperationsInPlace(sources[v].document))]

Parsed(source) ==
  LET endpoints == IF source.format = "text" THEN <<>>
                   ELSE CHOOSE e \in Parse(source.document) : TRUE
  IN [endpoints |-> endpoints,
      view |-> [k \in DOMAIN endpoints |-> EndpointForComparison(endpoints[k])]]

Published(source) == source.format # "text" => Parse(source.document) # {}

Compared ==
  IF IsText("to") THEN MarkdownLineDiff(sources["from"].lines, sources["to"].lines).items
  ELSE DiffEndpointSets(facts["from"].endpoints, facts["to"].endpoints)

Init ==
  /\ \E pair \in Sources :
       /\ Published(pair[1]) /\ Published(pair[2])
       /\ sources = [v \in Versions |-> IF v = "from" THEN pair[1] ELSE pair[2]]
  /\ parsed = [v \in Versions |-> Parsed(sources[v])]
  /\ \E old \in SUBSET {v \in Versions : ~ IsText(v) /\ PathsRefer(v)} :
       facts = [v \in Versions |-> IndexedBy(v, IF v \in old THEN 1 ELSE Current)]
  /\ \/ diff = {}
     \/ /\ IsText("to") \/ ~ Fresh("to")
        /\ diff = {[parser |-> 1, items |-> Compared]}
  /\ answered = {}

\* A faulty variant: the index is marked as new and kept.
MarkEndpointFacts(v) ==
  /\ ~ Fresh(v)
  /\ facts' = [facts EXCEPT ![v].parser = Current]
  /\ UNCHANGED <<sources, parsed, diff, answered>>

\* The index is replaced in one transaction, unless a newer one is stored by now; the
\* operations known before must be among the parsed ones.
StoreEndpointFacts(v, endpoints) ==
  /\ facts[v].parser < Current => DOMAIN facts[v].endpoints \subseteq DOMAIN endpoints
  /\ facts' = IF facts[v].parser < Current
              THEN [facts EXCEPT ![v] = [parser |-> Current, endpoints |-> endpoints]] ELSE facts

\* A reader that needs the index of a version parses its source again when the index is old.
RefreshEndpointFacts(v) ==
  /\ ~ Fresh(v)
  /\ StoreEndpointFacts(v, Contract(v))
  /\ UNCHANGED <<sources, parsed, diff, answered>>

AsStored(d) == IsText("to") \/ d.parser = Current

\* The first comparison of two versions, and one an older parser made, is computed from the
\* refreshed indexes and stored.
CompareVersions ==
  /\ answered = {} /\ ~ \E d \in diff : AsStored(d)
  /\ Fresh("from") /\ Fresh("to")
  /\ \E items \in {Compared} : diff' = {[parser |-> Current, items |-> items]} /\ answered' = {items}
  /\ UNCHANGED <<sources, parsed, facts>>

\* This and every later reader is answered the stored difference as it is.
Diff ==
  /\ \E d \in diff : AsStored(d) /\ answered' = {d.items}
  /\ UNCHANGED <<sources, parsed, facts, diff>>

Next == (\E v \in Versions : RefreshEndpointFacts(v)) \/ CompareVersions \/ Diff

Spec == Init /\ [][Next]_vars

-----------------------------------------------------------------------------
(* Properties.                                                             *)

\* The index, the stored and the answered difference have their form, and no reader makes an
\* index or a difference with an older parser (openapi_facts.go).
TypeInvariant ==
  /\ \A v \in Versions : facts[v].parser \in Parsers /\ (facts[v].parser = Current /\ ~ IsText(v)
                                                          => facts[v].endpoints = Contract(v))
  /\ Cardinality(diff) <= 1 /\ Cardinality(answered) <= 1

Changes == UNION answered

\* What a text comparison answers turns the old lines into the new ones: outside the changed
\* blocks the two are equal line by line, blocks are in order and nowhere empty, and the items
\* are the lines of the blocks (textDiff, markdown_diff_safety_test.go).
TextChangesReplay ==
  answered # {} /\ IsText("to") =>
    Replays(sources["from"].lines, sources["to"].lines,
            MarkdownLineDiff(sources["from"].lines, sources["to"].lines).blocks, Changes)

ContractsCompared == answered # {} /\ ~ IsText("to")

\* A client of the older version can go on: what it may send is accepted and what it gets it
\* understands.
Keeps(older, newer) ==
  /\ \A q \in Requests : MaySend(older, q) => AcceptsRequest(newer, q)
  /\ \A r \in Responses : Sends(newer, r) => Understands(older, r)

ViewOf(v) == parsed[v].view

\* The comparison of two schemas is right on the values of the requests or responses: if it
\* leaves nothing to handle, what the old schema takes the new one takes, or what the new one
\* gives the old one allows; if it finds no change, both take the same.
RequestValues ==
  UNION {{q.parameters[k].value : k \in DOMAIN q.parameters} \cup {b.value : b \in q.body} : q \in Requests}

RightForRequests(change, at, old, new) ==
  LET items == CompareSchemas(change, at, old, new, FALSE)
  IN \A value \in RequestValues :
       /\ ~ Handled(items) /\ Allows(old, value, FALSE) => Allows(new, value, FALSE)
       /\ items = {} /\ Allows(new, value, FALSE) => Allows(old, value, FALSE)

RightForResponses(at, old, new) ==
  LET items == CompareSchemas("responseChanged", at, old, new, TRUE)
  IN \A value \in {r.value : r \in Responses} :
       ~ Handled(items) /\ Allows(new, value, TRUE) => Allows(old, value, TRUE)

\* It is right on the schemas that two versions of an endpoint have in the same place.
SchemasJudged(older, newer) ==
  /\ \A k \in DOMAIN older.parameters \cap DOMAIN newer.parameters :
       LET before == ParameterSchemas(older.parameters[k])
           after == ParameterSchemas(newer.parameters[k])
       IN \A m \in DOMAIN before \cap DOMAIN after :
            RightForRequests("parameterChanged", <<"parameters">> \o k \o m, before[m], after[m])
  /\ LET before == older.requestBody.content
         after == newer.requestBody.content
     IN \A m \in DOMAIN before \cap DOMAIN after :
          RightForRequests("requestBodyChanged", <<"requestBody">> \o <<m>>,
                           Unconstrained(before[m].schema), Unconstrained(after[m].schema))
  /\ LET before == ResponseSchemas(older.responses)
         after == ResponseSchemas(newer.responses)
     IN \A b \in DOMAIN before \cap DOMAIN after :
          RightForResponses(<<"responses">> \o b, before[b], after[b])

SchemasAreJudged(older, newer) ==
  \A k \in DOMAIN older \cap DOMAIN newer : SchemasJudged(older[k], newer[k])


\* If a comparison leaves nothing to handle, every operation of the older version is still
\* there and its clients can go on (docs/api/API.md: warning items must be reviewed, changed
\* unsupported constraints need manual review).
NothingToHandleMeansCompatible ==
  ContractsCompared /\ ~ Handled(Changes) =>
    /\ DOMAIN Contract("from") \subseteq DOMAIN Contract("to")
    /\ \A k \in DOMAIN Contract("from") : Keeps(ViewOf("from")[k], ViewOf("to")[k])

\* If a comparison reports no change at all, the two versions have the same operations, which
\* accept the same requests under the same security, and no response is new to a client
\* (semantic_constraints.go: what is not implemented is not silently judged to be no change).
NoChangeMeansSameContract ==
  ContractsCompared /\ Changes = {} =>
    /\ DOMAIN Contract("from") = DOMAIN Contract("to")
    /\ \A k \in DOMAIN Contract("from") :
         /\ Keeps(ViewOf("from")[k], ViewOf("to")[k])
         /\ \A q \in Requests : MaySend(ViewOf("to")[k], q) => AcceptsRequest(ViewOf("from")[k], q)
         /\ Contract("from")[k].security = Contract("to")[k].security

=============================================================================
