---------------------------- MODULE EndpointDiff ----------------------------
(***************************************************************************)
(* The items a comparison of two versions of a contract reports            *)
(* (semanticDiffBuilder, diffEndpointSetsLocked), and what an endpoint     *)
(* means to those who use it, independently of the comparison.  A contract *)
(* maps "method path" to an endpoint:                                      *)
(*   openapi, metadata, security, securitySchemes, deprecated, servers,    *)
(*   parameters   <<location, name>> -> [required, schema, content, style] *)
(*   requestBody  [required, content: media type -> [schema, encoding]]    *)
(*   responses    status -> [headers, content: media type -> schema]       *)
(* How two schemas are compared, in which view, and what a schema allows   *)
(* are constants here: ContractDiff and ContractMeaning define them.       *)
(***************************************************************************)
EXTENDS SchemaRules

CONSTANTS CompareSchemas(_, _, _, _, _),  \* compareSchemaFields: the items of two schemas
          SchemaView(_, _),               \* schemaDialectView: what of a schema is compared
          Allows(_, _, _)                 \* whether a schema allows a value in a response

-----------------------------------------------------------------------------
(* Parameters, bodies and responses of an endpoint.                        *)

\* A parameter states a schema, or the media types of its content.
ParameterSchemas(parameter) ==
  IF DOMAIN parameter.content = {} THEN [at \in {<<>>} |-> Unconstrained(parameter.schema)]
  ELSE [at \in {<<m>> : m \in DOMAIN parameter.content} |-> Unconstrained(parameter.content[at[1]])]

CompareParameterSchemas(at, before, after) ==
  IF (<<>> \in DOMAIN before) # (<<>> \in DOMAIN after) THEN Manual("parameterChanged", at)
  ELSE UNION {IF m \in DOMAIN before \cap DOMAIN after
              THEN CompareSchemas("parameterChanged", at \o m, before[m], after[m], FALSE)
              ELSE Manual("parameterChanged", at \o m) : m \in DOMAIN before \cup DOMAIN after}

CompareParameterPair(oldKey, newKey, old, new) ==
  LET change == "parameterChanged"
      at == <<"parameters">> \o newKey
  IN (IF oldKey = newKey THEN {} ELSE Add(change, at, TRUE))
       \cup (IF old.required = new.required THEN {} ELSE Add(change, at \o <<"required">>, new.required))
       \cup CompareParameterSchemas(at, ParameterSchemas(old), ParameterSchemas(new))
       \cup (IF old.style = new.style THEN {} ELSE Manual(change, at \o <<"style">>))

\* Parameters are the same by place and name, or by name alone when one of that name left and
\* one came.
CompareParameters(old, new) ==
  LET removed == DOMAIN old \ DOMAIN new
      added == DOMAIN new \ DOMAIN old
      Named(keys, n) == {k \in keys : k[2] = n}
      Moved(n) == Cardinality(Named(removed, n)) = 1 /\ Cardinality(Named(added, n)) = 1
      pairs == {<<k, k>> : k \in DOMAIN old \cap DOMAIN new}
                 \cup {p \in removed \X added : p[1][2] = p[2][2] /\ Moved(p[1][2])}
  IN (UNION {CompareParameterPair(p[1], p[2], old[p[1]], new[p[2]]) : p \in pairs})
       \cup (UNION {Add("parameterAdded", <<"parameters">> \o k, new[k].required) :
                      k \in {l \in added : ~ Moved(l[2])}})
       \cup (UNION {Add("parameterRemoved", <<"parameters">> \o k, FALSE) :
                      k \in {l \in removed : ~ Moved(l[2])}})

CompareMediaEncoding(change, at, old, new) ==
  UNION {Manual(change, at \o <<m, "encoding">>) :
           m \in {n \in DOMAIN old \cap DOMAIN new : old[n].encoding # new[n].encoding}}

CompareRequestBody(old, new) ==
  LET change == "requestBodyChanged"
      at == <<"requestBody">>
      before == DOMAIN old.content
      after == DOMAIN new.content
  IN (IF old.required = new.required THEN {} ELSE Add(change, at \o <<"required">>, new.required))
       \cup (UNION {Add(change, at \o <<m>>, FALSE) : m \in after \ before})
       \cup (UNION {CompareSchemas(change, at \o <<m>>, Unconstrained(old.content[m].schema),
                                   Unconstrained(new.content[m].schema), FALSE) :
                      m \in before \cap after})
       \cup CompareMediaEncoding(change, at, old.content, new.content)
       \cup (UNION {Add(change, at \o <<m>>, TRUE) : m \in before \ after})

ResponseSchemas(responses) ==
  LET bodies == UNION {{<<s, m>> : m \in DOMAIN responses[s].content} : s \in DOMAIN responses}
  IN [b \in bodies |-> Unconstrained(responses[b[1]].content[b[2]])]

Successes == {"200", "204"}

CompareResponseBodies(change, at, before, after) ==
  (UNION {Add(change, at \o b, FALSE) : b \in DOMAIN after \ DOMAIN before})
    \cup (UNION {CompareSchemas(change, at \o b, Field(before, b, NoSchema), after[b], TRUE) :
                   b \in DOMAIN after})
    \cup (UNION {Add(change, at \o b, TRUE) : b \in DOMAIN before \ DOMAIN after})

CompareResponses(old, new) ==
  LET change == "responseChanged"
      at == <<"responses">>
      OfStatus(s) ==
        CASE s \notin DOMAIN old -> Add(change, at \o <<s>>, FALSE)
          [] s \notin DOMAIN new -> Add(change, at \o <<s>>, s \in Successes)
          [] OTHER -> IF old[s].headers = new[s].headers THEN {}
                      ELSE Manual(change, at \o <<s, "headers">>)
  IN (UNION {OfStatus(s) : s \in DOMAIN old \cup DOMAIN new})
       \cup CompareResponseBodies(change, at, ResponseSchemas(old), ResponseSchemas(new))

EndpointForComparison(endpoint) ==
  LET View(s) == SchemaView(s, endpoint.openapi = "3.0.3")
      OfContent(content) == [m \in DOMAIN content |-> View(content[m])]
  IN IF endpoint.openapi \notin {"3.0.3", "3.1.0"} THEN endpoint
     ELSE [endpoint EXCEPT
             !.parameters = [k \in DOMAIN @ |-> [@[k] EXCEPT !.schema = View(@),
                                                             !.content = OfContent(@)]],
             !.requestBody.content = [m \in DOMAIN @ |-> [@[m] EXCEPT !.schema = View(@)]],
             !.responses = [s \in DOMAIN @ |-> [@[s] EXCEPT !.content = OfContent(@)]]]

CompareViews(from, to) ==
  LET Changed(key, change) == IF from[key] = to[key] THEN {} ELSE Add(change, <<key>>, FALSE)
  IN Changed("metadata", "endpointModified")
       \cup CompareParameters(from.parameters, to.parameters)
       \cup CompareRequestBody(from.requestBody, to.requestBody)
       \cup CompareResponses(from.responses, to.responses)
       \cup Changed("security", "securityChanged")
       \cup Changed("securitySchemes", "securityChanged")
       \cup Changed("deprecated", "deprecatedChanged")
       \cup (IF from.servers = to.servers THEN {} ELSE Manual("endpointModified", <<"servers">>))

CompareEndpoint(old, new) == CompareViews(EndpointForComparison(old), EndpointForComparison(new))

DiffEndpointSets(old, new) ==
  (UNION {Add("endpointAdded", <<k>>, FALSE) : k \in DOMAIN new \ DOMAIN old})
    \cup (UNION {Add("endpointRemoved", <<k>>, TRUE) : k \in DOMAIN old \ DOMAIN new})
    \cup (UNION {CompareEndpoint(old[k], new[k]) : k \in DOMAIN old \cap DOMAIN new})

-----------------------------------------------------------------------------
(* Requests and responses.  A request carries parameters, at most one body *)
(* (a set of at most one) in a media type, and the way it is encoded; a    *)
(* response a status, headers and a body.                                  *)

ParameterSchema(p, media) == IF DOMAIN p.content = {} THEN p.schema ELSE p.content[media]

Takes(schema, value) == Allows(Unconstrained(schema), value, FALSE)
Gives(schema, value) == Allows(Unconstrained(schema), value, TRUE)

AcceptsRequest(endpoint, request) ==
  /\ \A k \in DOMAIN endpoint.parameters :
       LET p == endpoint.parameters[k] IN
       IF k \in DOMAIN request.parameters
       THEN LET given == request.parameters[k] IN
            /\ given.style = p.style
            /\ IF DOMAIN p.content = {} THEN given.media = ""
               ELSE given.media \in DOMAIN p.content
            /\ Takes(ParameterSchema(p, given.media), given.value)
       ELSE ~ p.required
  /\ request.body = {} => ~ endpoint.requestBody.required
  /\ \A b \in request.body :
       /\ b.media \in DOMAIN endpoint.requestBody.content
       /\ b.encoding = endpoint.requestBody.content[b.media].encoding
       /\ Takes(endpoint.requestBody.content[b.media].schema, b.value)
  /\ request.server = endpoint.servers

\* A client knows the parameters its version of the endpoint has.
MaySend(endpoint, request) ==
  DOMAIN request.parameters \subseteq DOMAIN endpoint.parameters /\ AcceptsRequest(endpoint, request)

\* A client of the endpoint can read the response: it knows the status, and the body where
\* it was told of one.
Understands(endpoint, response) ==
  response.status \in DOMAIN endpoint.responses =>
    LET told == endpoint.responses[response.status] IN
    /\ told.headers = response.headers
    /\ response.media \in DOMAIN told.content =>
         Gives(told.content[response.media], response.value)

Sends(endpoint, response) ==
  /\ response.status \in DOMAIN endpoint.responses
  /\ LET told == endpoint.responses[response.status] IN
     /\ told.headers = response.headers
     /\ response.media \in DOMAIN told.content
     /\ Gives(told.content[response.media], response.value)

=============================================================================
