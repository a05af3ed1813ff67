------------------------ MODULE ContractComparisons -------------------------
(***************************************************************************)
(* Comparisons of contracts with the parser of OpenAPIDocument, the items  *)
(* of ContractDiff and the meaning of schemas in ContractMeaning, and what *)
(* resolving a reference means.                                            *)
(***************************************************************************)
EXTENDS Comparisons, OpenAPIDocument, ContractMeaning

CONSTANT Instances   \* the values the meaning of a schema is compared on

\* Keywords beside a reference count in OpenAPI 3.1; a document whose version is "3.1" alone,
\* with no patch number, is read as one of 3.0 here.
SiblingsCount(doc) == doc.openapi = "3.1.0"

RECURSIVE Mentions(_, _)
Mentions(doc, schema) ==
  LET read == IF ~ IsSchemaObject(schema) THEN EmptySchema
              ELSE IF HasKey(schema, "ref") /\ ~ SiblingsCount(doc) THEN Restrict(schema, {"ref"})
              ELSE schema
      Of(k) == CASE k = "ref" -> {read.ref}
                 [] k = "properties" -> UNION {Mentions(doc, read[k][n]) : n \in DOMAIN read[k]}
                 [] k \in {"allOf", "anyOf", "oneOf"} ->
                      UNION {Mentions(doc, read[k][i]) : i \in DOMAIN read[k]}
                 [] k \in {"items", "additionalProperties"} -> Mentions(doc, read[k])
                 [] OTHER -> {}
  IN UNION {Of(k) : k \in DOMAIN read}

\* The names reached from a name by one reference or more.
Reached(doc, name) ==
  LET mentions == [n \in DOMAIN doc.components |-> Mentions(doc, doc.components[n])]
      Step(names, i) == names \cup UNION {mentions[n] : n \in names \cap DOMAIN mentions}
  IN FoldLeft(Step, mentions[name], [i \in 1..Cardinality(DOMAIN mentions) |-> i])

\* A resolved schema accepts what the schema it refers to accepts, and in OpenAPI 3.1.x only
\* what the keywords beside the reference accept too; a schema is refused exactly when its
\* references lead in a circle or nowhere (openAPIResolver.value).
ReferencesAreFollowed ==
  \A v \in Versions : ~ IsText(v) =>
    LET doc == sources[v].document
        Of(s) == ResolveSchema(doc, s, {}, 0)
        Agrees(s, value) == \A r \in Of(s) : Accepts(r, value, FALSE, FALSE)
        InCircle(n) == \E m \in Reached(doc, n) \cup {n} :
                         m \notin DOMAIN doc.components \/ m \in Reached(doc, m)
    IN \A n \in DOMAIN doc.components :
         LET s == doc.components[n] IN
         /\ Of(s) = {} <=> InCircle(n)
         /\ HasKey(s, "ref") /\ Of(s) # {} =>
              \A value \in Instances :
                Agrees(s, value) <=>
                  /\ Agrees(doc.components[s.ref], value)
                  /\ SiblingsCount(doc) => Agrees(Without(s, {"ref"}), value)

=============================================================================
