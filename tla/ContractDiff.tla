---------------------------- MODULE ContractDiff ----------------------------
(***************************************************************************)
(* The items a comparison of two schemas reports (semanticDiffBuilder,     *)
(* compareSchemaFields): root type and values, fields, constraints; and    *)
(* the view of a schema in which its dialect is compared.                  *)
(***************************************************************************)
EXTENDS SemanticDiff

CompareSchemaRootType(change, at, old, new, response) ==
  LET from == SchemaType(old)
      to == SchemaType(new)
  IN IF NoSchema \in {old, new} \/ from = to THEN {}
     ELSE Add(change, at \o <<"type">>, TypeChangeBreaking(from, to, response))

CompareEnumValues(change, at, old, new, response) ==
  IF NoSchema \in {old, new} THEN {}
  ELSE CompareEnumValueLists(change, at, EnumIdentities(old), EnumIdentities(new), response)

-----------------------------------------------------------------------------
(* Fields.                                                                 *)

\* Existing input can hold the new field: every ancestor was there, is required or an element.
NewFieldAffectsExistingInput(path, oldFields, newFields) ==
  \A p \in Ancestors(path) \cap DOMAIN newFields :
    p \in DOMAIN oldFields \/ newFields[p].required \/ newFields[p].arrayItem

AddedField(change, at, field, oldFields, newFields, verdict, response) ==
  LET known == field.path \in DOMAIN oldFields
      before == oldFields[field.path]
      itemConstrained == field.arrayItem /\ (field.types # AnyType \/ field.enum # {})
      requiredAdded == field.required /\ (known => ~ before.required)
      breaking == \/ /\ ~ response
                     /\ requiredAdded \/ itemConstrained
                     /\ NewFieldAffectsExistingInput(field.path, oldFields, newFields)
                  \/ response /\ known /\ before.required /\ ~ field.required
                  \/ verdict.breaking
  IN Judged(change, at \o field.path, breaking, verdict.manual)

RemovedField(change, at, field, newFields, verdict, response) ==
  LET breaking == \/ response
                  \/ /\ field.path \in DOMAIN newFields
                     /\ ~ field.required
                     /\ newFields[field.path].required
                  \/ verdict.breaking
  IN Judged(change, at \o field.path, breaking, verdict.manual)

\* A property declared by another branch of the object is worth an item of its own when that
\* matters and no other item says so.
ChangedField(change, here, direct, moved, verdict) ==
  direct \cup (IF moved /\ (verdict.breaking \/ verdict.manual) /\ ~ Handled(direct)
               THEN Judged(change, here, verdict.breaking, TRUE) ELSE {})

CompareField(change, at, field, old, new, oldFields, newFields, verdict, response) ==
  LET p == field.path
      Gained(from, to) == p \in DOMAIN to
                            /\ (p \notin DOMAIN from \/ (~ from[p].defined /\ to[p].defined))
  IN CASE Gained(oldFields, newFields) ->
            AddedField(change, at, field, oldFields, newFields, verdict, response)
       [] Gained(newFields, oldFields) -> RemovedField(change, at, field, newFields, verdict, response)
       [] OTHER -> ChangedField(change, at \o p,
                     DirectChanges(change, at \o p, oldFields[p], field, response),
                     field.defined /\ PropertyDeclarationScopesChanged(field, old, new), verdict)

CompareFieldsIn(change, at, fields, old, new, oldFields, newFields, response) ==
  UNION {CompareField(change, at, f, old, new, oldFields, newFields,
                      ChangedPropertyCompatibility(f, old, new, response), response) : f \in fields}

\* A path is compared by its new field, and by the old one when it is a field no more.
CompareFields(change, at, old, new, oldFields, newFields, response) ==
  LET Kept(p) == p \in DOMAIN newFields
                   /\ (p \in DOMAIN oldFields /\ oldFields[p].defined => newFields[p].defined)
  IN CompareFieldsIn(change, at,
       {IF Kept(p) THEN newFields[p] ELSE oldFields[p] : p \in DOMAIN oldFields \cup DOMAIN newFields},
       old, new, oldFields, newFields, response)

CompareSchemaChildren(change, at, old, new, response) ==
  CompareFields(change, at, old, new, SchemaFieldsForDirection(old, response),
                SchemaFieldsForDirection(new, response), response)

-----------------------------------------------------------------------------
(* Constraints.                                                            *)

\* No type occurs twice, within an alternative or in two; an integer is a number.
DisjointTypes(alternatives) ==
  LET types == [i \in DOMAIN alternatives |-> SchemaType(alternatives[i])]
      Broad(i) == {IF t = "integer" THEN "number" ELSE t : t \in types[i]}
  IN /\ \A i \in DOMAIN types : types[i] \notin {AnyType, {}} /\ ~ {"integer", "number"} \subseteq types[i]
     /\ \A i, j \in DOMAIN types : i # j => Broad(i) \cap Broad(j) = {}

\* Alternatives of one keyword on both sides, in canonical form and in any order; a change is
\* judged only when the alternatives exclude each other, and one stated more or less often is
\* a change in which none came or went.
CompareBranches(change, here, before, after, exclusive, response) ==
  LET removed == ToSet(before) \ ToSet(after)
      added == ToSet(after) \ ToSet(before)
  IN IF Occurrences(before) = Occurrences(after) THEN {}
     ELSE IF (removed # {} /\ added # {}) \/ ~ exclusive THEN Manual(change, here)
     ELSE Add(change, here, IF response THEN added # {} ELSE removed # {})

CompareAlternatives(change, at, old, new, response) ==
  LET Branches(schema, k) == [i \in DOMAIN schema[k] |-> Canonical(schema[k][i])]
      Of(k) ==
        IF HasKey(old, k) # HasKey(new, k) THEN Manual(change, at \o <<k>>)
        ELSE IF ~ HasKey(old, k) THEN {}
        ELSE CompareBranches(change, at \o <<k>>, Branches(old, k), Branches(new, k),
               k = "oneOf" => DisjointTypes(old[k]) /\ DisjointTypes(new[k]), response)
  IN UNION {Of(k) : k \in {"anyOf", "oneOf"}}

\* What is left of an allOf once the comparison of fields has taken its share of it.
Remaining(parts) ==
  IF /\ DOMAIN parts.own = {} /\ parts.properties = {} /\ parts.items = {}
     /\ DOMAIN parts.allOf = {}
  THEN {} ELSE {parts}

RECURSIVE Remainder(_)
Remainder(schema) ==
  IF ~ IsSchemaObject(schema) THEN {schema}
  ELSE LET taken == {"type", "nullable", "enum", "const", "required"} \cup Ignored
           properties == Field(schema, "properties", EmptySchema)
           left == [k \in DOMAIN schema \ (taken \cup {"properties", "items", "allOf"}) |->
                      CanonicalKeyword(k, schema[k])]
           inside == {<<n, Remainder(properties[n])>> : n \in DOMAIN properties}
       IN Remaining([own |-> CanonicalBounds(left),
                     properties |-> {i \in inside : i[2] # {}},
                     items |-> IF HasKey(schema, "items") THEN Remainder(schema.items) ELSE {},
                     allOf |-> Occurrences(SelectSeq([i \in DOMAIN Field(schema, "allOf", <<>>) |->
                                                        Remainder(schema.allOf[i])],
                                                     LAMBDA r : r # {}))])

SupportedKeywords == {"type", "nullable", "enum", "const", "properties", "required", "items",
                      "anyOf", "oneOf"} \cup NumericKeywords \cup BoundFlags \cup SizeKeywords
                       \cup Ignored

\* A faulty variant: combined constraints count as compared.
UnsupportedOwnKeywords(schema) ==
  [rest |-> [k \in DOMAIN schema \ (SupportedKeywords \cup {"allOf"}) |->
               CanonicalKeyword(k, schema[k])],
   allOf |-> EmptySchema]

UnsupportedSchemaKeywords(schema) ==
  [rest |-> [k \in DOMAIN schema \ (SupportedKeywords \cup {"allOf"}) |->
               CanonicalKeyword(k, schema[k])],
   allOf |-> Occurrences(SelectSeq([i \in DOMAIN Field(schema, "allOf", <<>>) |->
                                      Remainder(schema.allOf[i])],
                                   LAMBDA r : r # {}))]

RECURSIVE CompareSchemaConstraints(_, _, _, _, _)
CompareSchemaConstraints(change, at, old, new, response) ==
  LET Both(n) == CompareSchemaConstraints(change, at \o <<n>>, old.properties[n],
                                          new.properties[n], response)
      shared == DOMAIN Field(old, "properties", EmptySchema)
                  \cap DOMAIN Field(new, "properties", EmptySchema)
      elements == IF HasKey(old, "items") \/ HasKey(new, "items")
                  THEN CompareSchemaConstraints(change, at \o <<Items>>,
                         Field(old, "items", EmptySchema), Field(new, "items", EmptySchema), response)
                  ELSE {}
      opaque == IF UnsupportedSchemaKeywords(old) = UnsupportedSchemaKeywords(new) THEN {}
                ELSE Manual(change, at)
  IN IF NoSchema \in {old, new} THEN {}
     ELSE IF ~ IsSchemaObject(old) \/ ~ IsSchemaObject(new)
          THEN IF old = new THEN {} ELSE Manual(change, at)
     ELSE CompareNumericBounds(change, at, old, new, response)
            \cup CompareSizes(change, at, old, new, response)
            \cup CompareAlternatives(change, at, old, new, response)
            \cup UNION {Both(n) : n \in shared}
            \cup elements
            \cup opaque

CompareSchemaFields(change, at, old, new, response) ==
  CompareSchemaRootType(change, at, old, new, response)
    \cup CompareEnumValues(change, at, old, new, response)
    \cup CompareSchemaChildren(change, at, old, new, response)
    \cup CompareSchemaConstraints(change, at, old, new, response)

-----------------------------------------------------------------------------
(* The dialects: 3.0 states exclusive bounds as flags, 3.1 has no nullable.*)

ExclusiveFlags == [exclusiveMinimumFlag |-> <<"minimum", "exclusiveMinimum">>,
                   exclusiveMaximumFlag |-> <<"maximum", "exclusiveMaximum">>]

StrictBounds(schema) ==
  LET flags == DOMAIN schema \cap DOMAIN ExclusiveFlags
      strict == {f \in flags : schema[f] /\ HasKey(schema, ExclusiveFlags[f][1])}
      moved == {ExclusiveFlags[f] : f \in strict}
      kept == DOMAIN schema \ (flags \cup {m[1] : m \in moved})
  IN [k \in kept \cup {m[2] : m \in moved} |->
        IF k \in kept THEN schema[k] ELSE schema[(CHOOSE m \in moved : m[2] = k)[1]]]

RECURSIVE SchemaDialectView(_, _)
SchemaDialectView(schema, legacy30) ==
  LET own == IF legacy30 THEN StrictBounds(schema) ELSE Without(schema, {"nullable"})
      View(s) == SchemaDialectView(s, legacy30)
  IN IF ~ IsSchemaObject(schema) THEN schema
     ELSE [k \in DOMAIN own |->
             CASE k = "properties" -> [n \in DOMAIN own[k] |-> View(own[k][n])]
               [] k \in {"allOf", "anyOf", "oneOf"} -> [i \in DOMAIN own[k] |-> View(own[k][i])]
               [] k \in {"items", "additionalProperties"} -> View(own[k])
               [] OTHER -> own[k]]

=============================================================================
