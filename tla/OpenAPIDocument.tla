-------------------------- MODULE OpenAPIDocument ---------------------------
(***************************************************************************)
(* What ParseOpenAPI makes of an uploaded document: its operations, every  *)
(* reference replaced by what it refers to (services/vdoc/openapi.go).     *)
(*                                                                         *)
(* openapi is a version with a patch number ("3.0.3", "3.1.0") or without  *)
(* one ("3.0", "3.1"), which the program accepts and treats apart.         *)
(* A document is [openapi, complete, components, pathItems, paths,         *)
(* security, servers, securitySchemes]: components maps the name of a      *)
(* schema to it, and a schema may state "ref", the name it refers to.      *)
(* An item of paths (or pathItems) is [ref, parameters, operations,        *)
(* security, servers]: ref is "" or a name, parameters a sequence of       *)
(* [name, in, required, schema, content, style], and security and servers  *)
(* are {} when not stated or {value}.  Decoding JSON and YAML is external  *)
(* to the model; a result is {} when the document is refused and {r} else. *)
(***************************************************************************)
EXTENDS ContractDiff

CONSTANTS MaxOpenAPINodes,  \* nodes an expanded document may have (openAPIResolver.visit)
          MaxOpenAPIDepth   \* and how deep it may be

ASSUME LimitsAssumption == MaxOpenAPINodes \in Nat /\ MaxOpenAPIDepth \in Nat

\* One result per part, or none if a part is refused.
AllResolved(results) ==
  LET resolved == UNION {{<<k, r>> : r \in results[k]} : k \in DOMAIN results}
  IN IF {p[1] : p \in resolved} # DOMAIN results THEN {}
     ELSE {[k \in DOMAIN results |-> (CHOOSE p \in resolved : p[1] = k)[2]]}

-----------------------------------------------------------------------------
(* References (openAPIResolver.value on schemas, with childRefKind saying   *)
(* which keywords hold schemas).                                           *)

RECURSIVE ResolveSchema(_, _, _, _)

\* The elements of a keyword that is a list in the document; other keywords have one value.
Listing(k, value) ==
  IF k \in {"enum", "required"} \/ (k = "type" /\ Cardinality(value) > 1) THEN value ELSE {}

\* The parts of a schema that are schemas themselves; the rest is kept literally.  A keyword
\* is a level below the schema, and what a map or a list of them holds another one.
ResolveParts(doc, schema, seen, depth) ==
  LET Inner(s, levels) == ResolveSchema(doc, s, seen, depth + levels)
      Kept(k) == IF Listing(k, schema[k]) # {} /\ depth + 2 > MaxOpenAPIDepth THEN {} ELSE {schema[k]}
      Keyword(k) ==
        LET value == schema[k]
        IN CASE k \in {"properties", "allOf", "anyOf", "oneOf"} ->
                  AllResolved([part \in DOMAIN value |-> Inner(value[part], 2)])
             [] k \in {"items", "additionalProperties"} -> Inner(value, 1)
             [] OTHER -> Kept(k)
  IN IF DOMAIN schema # {} /\ depth + 1 > MaxOpenAPIDepth THEN {}
     ELSE AllResolved([k \in DOMAIN schema |-> Keyword(k)])

\* A faulty variant: a reference replaces the keywords beside it.
SubstituteSchema(doc, schema, seen, depth) ==
  IF ~ IsSchemaObject(schema) THEN {schema}
  ELSE IF ~ HasKey(schema, "ref") THEN ResolveParts(doc, schema, seen, depth)
  ELSE IF schema.ref \in seen \/ schema.ref \notin DOMAIN doc.components THEN {}
  ELSE ResolveSchema(doc, doc.components[schema.ref], seen \cup {schema.ref}, depth + 1)

ResolveSchema(doc, schema, seen, depth) ==
  IF depth > MaxOpenAPIDepth THEN {}
  ELSE IF ~ IsSchemaObject(schema) THEN {schema}
  ELSE IF ~ HasKey(schema, "ref") THEN ResolveParts(doc, schema, seen, depth)
  ELSE IF schema.ref \in seen \/ schema.ref \notin DOMAIN doc.components THEN {}
  ELSE LET targets == ResolveSchema(doc, doc.components[schema.ref], seen \cup {schema.ref}, depth + 1)
           siblings == Without(schema, {"ref"})
           additional == ResolveSchema(doc, siblings, seen, depth + 1)
           Beside(t, object) ==
             [k \in DOMAIN object \cup {"allOf"} |->
                IF k = "allOf" THEN <<t>> \o Field(object, "allOf", <<>>) ELSE object[k]]
       IN IF doc.openapi # "3.1.0" \/ DOMAIN siblings = {} THEN targets
          ELSE {Beside(t, object) : t \in targets, object \in additional}

\* The reference of a path item, with the members stated beside it; equal ones may repeat.
RECURSIVE ResolvePathItem(_, _, _)
ResolvePathItem(doc, item, seen) ==
  IF item.ref = "" THEN {item}
  ELSE IF item.ref \in seen \/ item.ref \notin DOMAIN doc.pathItems THEN {}
  ELSE {[target EXCEPT !.operations = [m \in DOMAIN @ \cup DOMAIN item.operations |->
                                         IF m \in DOMAIN @ THEN @[m] ELSE item.operations[m]],
                       !.parameters = IF item.parameters = <<>> THEN @ ELSE item.parameters,
                       !.security = IF item.security = {} THEN @ ELSE item.security,
                       !.servers = IF item.servers = {} THEN @ ELSE item.servers] :
         target \in {t \in ResolvePathItem(doc, doc.pathItems[item.ref], seen \cup {item.ref}) :
                       /\ \A m \in DOMAIN t.operations \cap DOMAIN item.operations :
                            t.operations[m] = item.operations[m]
                       /\ <<>> \in {t.parameters, item.parameters} \/ t.parameters = item.parameters
                       /\ {} \in {t.security, item.security} \/ t.security = item.security
                       /\ {} \in {t.servers, item.servers} \/ t.servers = item.servers}}

-----------------------------------------------------------------------------
(* Operations.                                                             *)

ParameterKey(p) == <<p.in, p.name>>
Distinct(parameters) ==
  \A i, j \in DOMAIN parameters : ParameterKey(parameters[i]) = ParameterKey(parameters[j]) => i = j

\* How deep the schemas lie in a parameter, in its content or a request body, in a response.
ParameterDepth == 1
ContentDepth == 3
ResponseDepth == 4

ResolveContent(doc, content, depth) ==
  LET Of(m) == ResolveSchema(doc, content[m], {}, depth) IN AllResolved([k \in DOMAIN content |-> Of(k)])

ResolveParameter(doc, parameter) ==
  {[required |-> parameter.required, style |-> parameter.style, schema |-> s, content |-> c] :
     s \in ResolveSchema(doc, parameter.schema, {}, ParameterDepth),
     c \in ResolveContent(doc, parameter.content, ContentDepth)}

\* Parameters of the path, replaced by those of the operation with the same name and place
\* once all of them are resolved.
ResolveParameters(doc, pathParameters, operationParameters) ==
  LET ofPath == [k \in {ParameterKey(p) : p \in ToSet(pathParameters)} |->
                   CHOOSE p \in ToSet(pathParameters) : ParameterKey(p) = k]
      ofOperation == [k \in {ParameterKey(p) : p \in ToSet(operationParameters)} |->
                        CHOOSE p \in ToSet(operationParameters) : ParameterKey(p) = k]
      stated == [k \in DOMAIN ofPath \cup DOMAIN ofOperation |->
                   IF k \in DOMAIN ofOperation THEN ofOperation[k] ELSE ofPath[k]]
      Of(k) == ResolveParameter(doc, stated[k])
      discarded == {ofPath[k] : k \in DOMAIN ofPath \cap DOMAIN ofOperation}
  IN IF \/ ~ Distinct(pathParameters) \/ ~ Distinct(operationParameters)
        \/ \E p \in discarded : ResolveParameter(doc, p) = {}
     THEN {} ELSE AllResolved([k \in DOMAIN stated |-> Of(k)])

EffectiveValue(doc, item, operation, key) ==
  IF operation[key] # {} THEN operation[key]
  ELSE IF item[key] # {} THEN item[key] ELSE doc[key]

ResolveRequestBody(doc, body) ==
  LET Of(m) == {[schema |-> s, encoding |-> body.content[m].encoding] :
                  s \in ResolveSchema(doc, body.content[m].schema, {}, ContentDepth)}
  IN {[required |-> body.required, content |-> c] : c \in AllResolved([k \in DOMAIN body.content |-> Of(k)])}

ResolveResponses(doc, responses) ==
  LET Of(s) == {[headers |-> responses[s].headers, content |-> c] :
                  c \in ResolveContent(doc, responses[s].content, ResponseDepth)}
  IN IF DOMAIN responses = {} THEN {} ELSE AllResolved([k \in DOMAIN responses |-> Of(k)])

ExtractEndpoint(doc, item, operation) ==
  LET security == EffectiveValue(doc, item, operation, "security")
      schemes == UNION security \cap DOMAIN doc.securitySchemes
      servers == EffectiveValue(doc, item, operation, "servers")
  IN {[openapi |-> doc.openapi, metadata |-> operation.metadata, deprecated |-> operation.deprecated,
       parameters |-> p, requestBody |-> b, responses |-> r,
       security |-> UNION security,
       securitySchemes |-> [s \in schemes |-> doc.securitySchemes[s]],
       servers |-> IF servers = {} THEN {"/"} ELSE servers] :
        p \in ResolveParameters(doc, item.parameters, operation.parameters),
        b \in ResolveRequestBody(doc, operation.requestBody),
        r \in ResolveResponses(doc, operation.responses)}

\* The nodes of a resolved schema, its maps and lists among them: a shared target counts
\* wherever it is used.
RECURSIVE Nodes(_)
Nodes(schema) ==
  IF ~ IsSchemaObject(schema) THEN 1
  ELSE 1 + FoldSet(LAMBDA k, acc : acc +
             (CASE k \in {"properties", "allOf", "anyOf", "oneOf"} ->
                     FoldSet(LAMBDA part, a : a + Nodes(schema[k][part]), 1, DOMAIN schema[k])
                [] k \in {"items", "additionalProperties"} -> Nodes(schema[k])
                [] OTHER -> 1 + Cardinality(Listing(k, schema[k]))), 0, DOMAIN schema)

ContentNodes(content) == FoldSet(LAMBDA m, a : a + Nodes(content[m]), 0, DOMAIN content)

EndpointNodes(endpoint) ==
  LET bodies == endpoint.requestBody.content
      responses == endpoint.responses
      parameters == endpoint.parameters
  IN FoldSet(LAMBDA k, a : a + Nodes(parameters[k].schema) + ContentNodes(parameters[k].content),
             0, DOMAIN parameters)
       + FoldSet(LAMBDA m, a : a + Nodes(bodies[m].schema), 0, DOMAIN bodies)
       + FoldSet(LAMBDA s, a : a + ContentNodes(responses[s].content), 0, DOMAIN responses)

ParseOpenAPI(doc) ==
  LET Item(p) == ResolvePathItem(doc, doc.paths[p], {})
      Operations(items) == UNION {{<<m, p>> : m \in DOMAIN items[p].operations} : p \in DOMAIN items}
      Endpoints(items) ==
        LET Of(o) == ExtractEndpoint(doc, items[o[2]], items[o[2]].operations[o[1]])
        IN AllResolved([k \in Operations(items) |-> Of(k)])
      Small(endpoints) == FoldSet(LAMBDA o, a : a + EndpointNodes(endpoints[o]), 0, DOMAIN endpoints)
                            <= MaxOpenAPINodes
  IN IF ~ doc.complete \/ doc.openapi \notin {"3.0", "3.1", "3.0.3", "3.1.0"} THEN {}
     ELSE {e \in UNION {Endpoints(items) : items \in AllResolved([k \in DOMAIN doc.paths |-> Item(k)])} :
             DOMAIN e # {} /\ Small(e)}

=============================================================================
