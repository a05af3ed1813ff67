--------------------------- MODULE MCComparisons ----------------------------
(***************************************************************************)
(* The pairs of sources compared, and the requests, responses and values   *)
(* their meaning is judged on: schemas of every kind the comparison        *)
(* distinguishes, in a request body and in a response; endpoints that      *)
(* differ in what surrounds their schemas; documents with references; and  *)
(* texts of up to four lines.                                              *)
(***************************************************************************)
EXTENDS ContractComparisons, TLC

T(t) == [type |-> {t}]
Str(n) == [kind |-> "string", length |-> n]
Num(n) == [kind |-> IF n % 2 = 0 THEN "integer" ELSE "number", number |-> n]
Nul == [kind |-> "null"]
Obj(f) == [kind |-> "object", fields |-> f]
Arr(s) == [kind |-> "array", elements |-> s]

-----------------------------------------------------------------------------
(* Schemas.                                                                *)

Text == T("string")
Long == [type |-> {"string"}, minLength |-> 2]
ReadOnly == [type |-> {"string"}, readOnly |-> TRUE]
One == [type |-> {"string"}, enum |-> {Str(1)}]

Scalars ==
  {EmptySchema, Text, T("integer"), T("number"), [type |-> {"string", "null"}], One,
   [enum |-> {Str(1), Str(2)}], [const |-> Num(2)], [type |-> {"string"}, nullable |-> TRUE],
   [type |-> {"number"}, minimum |-> 2], [type |-> {"number"}, exclusiveMinimum |-> 2],
   [type |-> {"number"}, minimum |-> 2, exclusiveMinimumFlag |-> TRUE],
   [type |-> {"number"}, minimum |-> 1, maximum |-> 4], Long,
   [type |-> {"string"}, pattern |-> {1}], [type |-> {"string"}, maxLength |-> 1, description |-> "x"],
   [anyOf |-> <<Text, T("integer")>>], [anyOf |-> <<T("integer"), Text>>], [anyOf |-> <<Text, Text>>],
   [oneOf |-> <<Text, T("integer")>>], [oneOf |-> <<T("integer"), Text, T("null")>>],
   [oneOf |-> <<Text, Long>>], [oneOf |-> <<Text, Text>>],
   [oneOf |-> <<[type |-> {"integer", "number"}], Text>>],
   [allOf |-> <<T("number"), T("integer")>>], ReadOnly, False}

WithA(s, required) == [type |-> {"object"}, properties |-> "a" :> s, required |-> required]

Objects ==
  {WithA(s, r) @@ extra : s \in {EmptySchema, Text, One, Long, ReadOnly}, r \in {{}, {"a"}},
                          extra \in {EmptySchema, [additionalProperties |-> False],
                                     [additionalProperties |-> Text]}}
    \cup {T("object"), [type |-> {"object"}, required |-> {"a"}], [properties |-> "a" :> Text],
          [type |-> {"object"}, additionalProperties |-> False],
          [type |-> {"object"}, maxProperties |-> 1]}

Branches == {[type |-> {"object"}, properties |-> "a" :> Text], [properties |-> "a" :> [minLength |-> 2]],
             [required |-> {"a"}], [properties |-> "b" :> Text, additionalProperties |-> False]}
Combined == {[allOf |-> <<s, t>>] : s, t \in Branches} \cup {[allOf |-> <<s>>] @@ Text : s \in Branches}

Nested == {WithA(o, r) : r \in {{}, {"a"}},
             o \in {T("object"), [type |-> {"object"}, properties |-> "b" :> Text],
                    [type |-> {"object"}, properties |-> "b" :> Text, required |-> {"b"}]}}
Lists == {T("array")} \cup {[type |-> {"array"}, items |-> s] :
                              s \in {EmptySchema, Text, Long, WithA(Text, {}), WithA(Text, {"a"})}}

Schemas == Scalars \cup Objects \cup Combined \cup Nested \cup Lists

Plain == {Str(0), Str(1), Str(2), Num(0), Num(1), Num(2), Num(3), Num(6), Nul}
Known ==
  Plain \cup {Obj(EmptySchema)} \cup {Obj("a" :> v) : v \in Plain \cup {Obj(EmptySchema), Obj("b" :> Num(2))}}
    \cup {Obj("b" :> v) : v \in {Str(1), Num(2)}}
    \cup {Obj("a" :> v @@ "b" :> w) : v, w \in {Str(1), Num(2), Str(2)}}
    \cup {Arr(<<>>)} \cup {Arr(<<v>>) : v \in {Str(1), Str(2), Num(2), Obj(EmptySchema),
                                               Obj("a" :> Num(2)), Obj("a" :> Str(1))}}

-----------------------------------------------------------------------------
(* Endpoints and documents.                                                *)

Parameter(in, required, schema) ==
  [name |-> "q", in |-> in, required |-> required, schema |-> schema, content |-> EmptySchema,
   style |-> "form"]
NoBody == [required |-> FALSE, content |-> EmptySchema]
Body(required, content) == [required |-> required, content |-> content]
Json(s) == "json" :> [schema |-> s, encoding |-> "plain"]
Ok(content) == "200" :> [headers |-> "none", content |-> content]

Operation(parameters, body, responses) ==
  [metadata |-> "list", deprecated |-> FALSE, parameters |-> parameters, requestBody |-> body,
   responses |-> responses, security |-> {}, servers |-> {}]
Item(operation) ==
  [ref |-> "", parameters |-> <<>>, operations |-> "GET" :> operation, security |-> {}, servers |-> {}]
Document(openapi, paths, components, pathItems) ==
  [openapi |-> openapi, complete |-> TRUE, paths |-> paths, components |-> components,
   pathItems |-> pathItems, security |-> {}, servers |-> {}, securitySchemes |-> "key" :> "header"]
Contracted(document) == [format |-> "openapi", document |-> document]
Single(openapi, operation) ==
  Contracted(Document(openapi, "/items" :> Item(operation), EmptySchema, EmptySchema))

Posting(openapi, s) == Single(openapi, Operation(<<>>, Body(TRUE, Json(s)), Ok(EmptySchema)))
Requested(s) == Posting("3.0.3", s)
Responded(s) == Single("3.1.0", Operation(<<>>, NoBody, Ok("json" :> s)))

Base == Operation(<<Parameter("query", FALSE, Text)>>, Body(FALSE, Json(Text)), Ok("json" :> Text))
Endpoints ==
  {[Base EXCEPT !.parameters = p] :
     p \in {<<>>} \cup {<<Parameter(in, required, s)>> : in \in {"query", "header"},
                                                          required \in BOOLEAN, s \in {Text, Long}}
           \cup {<<Parameter("query", FALSE, Text), Parameter("header", TRUE, Text)>>,
                 <<[Parameter("query", FALSE, Text) EXCEPT !.style = "space"]>>,
                 <<[Parameter("query", FALSE, NoSchema) EXCEPT !.content = "json" :> Text]>>}}
    \cup {[Base EXCEPT !.requestBody = b] :
            b \in {NoBody, Body(TRUE, Json(Text)), Body(FALSE, Json(Text) @@ "xml" :> [schema |-> Text, encoding |-> "plain"]),
                   Body(FALSE, "json" :> [schema |-> Text, encoding |-> "deep"]),
                   Body(FALSE, "xml" :> [schema |-> NoSchema, encoding |-> "plain"])}}
    \cup {[Base EXCEPT !.responses = r] :
            r \in {Ok(EmptySchema), Ok("json" :> Text) @@ "404" :> [headers |-> "none", content |-> EmptySchema],
                   Ok("json" :> Text @@ "xml" :> Text), "204" :> [headers |-> "none", content |-> EmptySchema],
                   "200" :> [headers |-> "retry", content |-> "json" :> Text]}}
    \cup {[Base EXCEPT !.security = {{"key"}}], [Base EXCEPT !.security = {{}}],
          [Base EXCEPT !.servers = {"/v2"}], [Base EXCEPT !.deprecated = TRUE],
          [Base EXCEPT !.metadata = "renamed"]}

\* The same keywords under every version, with and without a patch number.
AllVersions == {"3.0", "3.0.3", "3.1", "3.1.0"}
Dialects ==
  {Posting(openapi, s) : openapi \in AllVersions,
     s \in {Text, [type |-> {"string"}, nullable |-> TRUE], [type |-> {"number"}, minimum |-> 2],
            [type |-> {"number"}, exclusiveMinimum |-> 2],
            [type |-> {"number"}, minimum |-> 2, exclusiveMinimumFlag |-> TRUE],
            [type |-> {"number"}, minimum |-> 1, exclusiveMinimumFlag |-> TRUE],
            [anyOf |-> <<Text, [minimum |-> 2, exclusiveMinimumFlag |-> TRUE]>>]}}

Referring == {[ref |-> "B"], [ref |-> "B", minLength |-> 2], [ref |-> "B", allOf |-> <<[maxLength |-> 1]>>],
              WithA([ref |-> "B"], {}), [allOf |-> <<[ref |-> "B"], T("object")>>],
              [type |-> {"array"}, items |-> [ref |-> "B"]], [anyOf |-> <<[ref |-> "B"], T("integer")>>]}
Referred == {Text, T("object"), [ref |-> "C"], [ref |-> "C", minLength |-> 1]}
Referenced(openapi, a, b) ==
  Contracted(Document(openapi, "/items" :> Item(Operation(<<>>, Body(TRUE, Json([ref |-> "A"])), Ok(EmptySchema))),
                      "A" :> a @@ "B" :> b @@ "C" :> [type |-> {"string"}, pattern |-> {1}]
                        @@ "D" :> [ref |-> "E", minLength |-> 1]
                        @@ "E" :> [allOf |-> <<[ref |-> "D"]>>], EmptySchema))
References == {Referenced(openapi, a, b) : openapi \in AllVersions, a \in Referring, b \in Referred}

Behind(operations, beside) ==
  Contracted(Document("3.1.0",
    "/shared" :> [Item(Base) EXCEPT !.ref = "P", !.operations = beside]
      @@ "/items" :> [Item(Base) EXCEPT !.parameters = <<Parameter("query", TRUE, Text),
                                                         Parameter("header", TRUE, Text)>>],
    EmptySchema, "P" :> [Item(Base) EXCEPT !.operations = operations]))
Paths == {Behind("GET" :> o, b) : o \in {Base, [Base EXCEPT !.requestBody = Body(TRUE, Json(Text))]},
                                  b \in {EmptySchema, "PUT" :> Base}}
           \cup {Behind("DELETE" :> Base, EmptySchema), Single("3.1.0", Base)}

MCLines == {"x", "y", "z"}
Texts == UNION {[1..n -> MCLines] : n \in 0..4}
Written(lines) == [format |-> "text", lines |-> lines]

Pairs(set) == set \X set

MCSources ==
  Pairs({Requested(s) : s \in Schemas}) \cup Pairs({Responded(s) : s \in Schemas})
    \cup Pairs({Single("3.1.0", e) : e \in Endpoints})
    \cup (References \X {Requested(Text), Requested(Long)})
    \cup Pairs(Dialects)
    \cup Pairs(Paths)
    \cup Pairs({Written(lines) : lines \in Texts})

Call(parameters, body) == [parameters |-> parameters, body |-> body, server |-> {"/"}]
Given(value) == [value |-> value, media |-> "", style |-> "form"]
Posted(media, value) == {[media |-> media, encoding |-> "plain", value |-> value]}
MCRequests ==
  {Call(EmptySchema, Posted("json", v)) : v \in Known}
    \cup {Call(p, b) : p \in {EmptySchema, <<"query", "q">> :> Given(Str(1)), <<"header", "q">> :> Given(Str(1)),
                              <<"query", "q">> :> Given(Str(2)) @@ <<"header", "q">> :> Given(Str(2))},
                       b \in {{}, Posted("json", Str(1)), Posted("xml", Str(1)), Posted("xml", Num(2))}}
MCResponses ==
  {[status |-> "200", headers |-> "none", media |-> "json", value |-> v] : v \in Known}
    \cup {[status |-> s, headers |-> h, media |-> m, value |-> Str(1)] :
            s \in {"200", "204", "404"}, h \in {"none", "retry"}, m \in {"json", "xml"}}
MCInstances == Known

\* The comparison of schemas is right on the endpoints that differ in what surrounds them, as
\* ComparisonsProofs supposes; on the schemas themselves the run shows it.
ASSUME MCSchemasAreJudged ==
  \A older, newer \in Endpoints :
    SchemasAreJudged(Parsed(Single("3.1.0", older)).view, Parsed(Single("3.1.0", newer)).view)

=============================================================================
