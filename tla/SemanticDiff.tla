---------------------------- MODULE SemanticDiff ----------------------------
(***************************************************************************)
(* What the comparison of two schemas knows of one (semantic_diff.go,      *)
(* semantic_constraints.go, semantic_property_rules.go): its fragments,    *)
(* its fields, its canonical form and the rules of a property.  A field is *)
(* named by the sequence of property names that leads to it, Items for     *)
(* elements.                                                               *)
(***************************************************************************)
EXTENDS SchemaRules

Items == "[items]"

\* The elements of a sequence with their multiplicities: a sorted list of encodings.
Occurrences(s) == [e \in ToSet(s) |-> Cardinality({i \in DOMAIN s : s[i] = e})]

RECURSIVE SchemaFragments(_)
SchemaFragments(schema) ==
  <<schema>> \o
  FoldSeq(LAMBDA f, acc : (IF IsSchemaObject(f) THEN SchemaFragments(f) ELSE <<>>) \o acc,
          <<>>, Field(schema, "allOf", <<>>))

Fragments(schema) == IF IsSchemaObject(schema) THEN ToSet(SchemaFragments(schema)) ELSE {}

-----------------------------------------------------------------------------
(* Types and enumerations.                                                 *)

SchemaType(schema) == CombinedType(Fragments(schema))

EnumIdentities(schema) == CombinedEnum(Fragments(schema))

-----------------------------------------------------------------------------
(* The fields of a schema: what every allOf branch says of each path.      *)

NewField(path, parent) ==
  [path |-> path, parent |-> parent, name |-> "", defined |-> FALSE, arrayItem |-> FALSE,
   readOnly |-> FALSE, writeOnly |-> FALSE, types |-> AnyType, required |-> FALSE, enum |-> {}]

Access(schema, key) == \E f \in Fragments(schema) : Flag(f, key)

Required(schema) == UNION {Field(f, "required", {}) : f \in Fragments(schema)}

RECURSIVE CollectSchemaFields(_, _)
CollectSchemaFields(prefix, schema) ==
  LET required == Required(schema)
      Property(f, n) ==
        LET property == f.properties[n] IN
        {[NewField(Append(prefix, n), prefix) EXCEPT
            !.name = n, !.defined = TRUE, !.types = SchemaType(property),
            !.required = n \in required, !.enum = EnumIdentities(property),
            !.readOnly = Access(property, "readOnly"),
            !.writeOnly = Access(property, "writeOnly")]}
          \cup CollectSchemaFields(Append(prefix, n), property)
      Elements(f) ==
        {[NewField(Append(prefix, Items), prefix) EXCEPT
            !.arrayItem = TRUE, !.types = SchemaType(f.items), !.enum = EnumIdentities(f.items)]}
          \cup CollectSchemaFields(Append(prefix, Items), f.items)
  IN {[NewField(Append(prefix, n), prefix) EXCEPT !.required = TRUE] : n \in required}
       \cup UNION {UNION {Property(f, n) : n \in DOMAIN Field(f, "properties", EmptySchema)}
                     : f \in Fragments(schema)}
       \cup UNION {Elements(f) : f \in {g \in Fragments(schema) : HasKey(g, "items")}}

MergeSchemaField(said) ==
  LET one == CHOOSE f \in said : TRUE
      Some(key) == \E f \in said : f[key]
  IN [one EXCEPT
        !.name = IF Some("defined") THEN Last(one.path) ELSE "",
        !.defined = Some("defined"), !.arrayItem = Some("arrayItem"),
        !.readOnly = Some("readOnly"), !.writeOnly = Some("writeOnly"),
        !.required = Some("required"), !.enum = Meet({f.enum : f \in said}),
        !.types = FoldSet(LAMBDA f, acc : IntersectTypes(f.types, acc), AnyType, said)]

MergeSchemaFields(said) ==
  [p \in {f.path : f \in said} |-> MergeSchemaField({f \in said : f.path = p})]

SchemaFields(schema) == MergeSchemaFields(CollectSchemaFields(<<>>, schema))

Ancestors(path) == {SubSeq(path, 1, i) : i \in 1..(Len(path) - 1)}

\* Annotations reach the descendants.
Excused(fields, p, key) == \E q \in (Ancestors(p) \cup {p}) \cap DOMAIN fields : fields[q][key]

\* A requirement does not apply in the other direction, and a field only a requirement
\* mentions is then no field at all.
DirectedFields(fields, key) ==
  [p \in {q \in DOMAIN fields : Excused(fields, q, key) => fields[q].defined \/ fields[q].arrayItem}
     |-> [fields[p] EXCEPT !.required = @ /\ ~ Excused(fields, p, key)]]

SchemaFieldsForDirection(schema, response) ==
  DirectedFields(SchemaFields(schema), IF response THEN "writeOnly" ELSE "readOnly")

-----------------------------------------------------------------------------
(* The canonical form in which schemas are compared.                       *)

\* Bounds that say the same become equal; those that cannot be read stay literally.
CanonicalBounds(schema) ==
  LET bounds == NumericKeywords \cup BoundFlags
      Side(lower) == [tight |-> IF Unreadable(schema, lower) THEN {} ELSE Tightness(schema, lower),
                      literal |-> {BoundKeywords(schema, s) : s \in {t \in {lower} : Unreadable(schema, t)}}]
  IN IF DOMAIN schema \cap bounds = {} THEN schema
     ELSE [k \in (DOMAIN schema \ bounds) \cup {"bounds"} |->
             IF k = "bounds" THEN [lower \in BOOLEAN |-> Side(lower)] ELSE schema[k]]

RECURSIVE Canonical(_)
CanonicalKeyword(key, value) ==
  CASE key = "properties" -> [n \in DOMAIN value |-> Canonical(value[n])]
    [] key \in {"allOf", "anyOf", "oneOf"} ->
         Occurrences([i \in DOMAIN value |-> Canonical(value[i])])
    [] key \in {"items", "additionalProperties"} -> Canonical(value)
    [] OTHER -> value
Canonical(schema) ==
  IF ~ IsSchemaObject(schema) THEN schema
  ELSE LET kept == Without(schema, Ignored)
       IN CanonicalBounds([k \in DOMAIN kept |-> CanonicalKeyword(k, kept[k])])

-----------------------------------------------------------------------------
(* What an object allows of one of its properties: the declaration of each *)
(* allOf branch, or its additionalProperties.                              *)

RECURSIVE ObjectNodesAt(_, _)
ObjectNodesAt(schema, path) ==
  IF path = <<>> THEN <<schema>>
  ELSE FoldSeq(LAMBDA f, acc :
         (CASE Head(path) = Items /\ HasKey(f, "items") -> ObjectNodesAt(f.items, Tail(path))
            [] Head(path) \in DOMAIN Field(f, "properties", EmptySchema)
                 -> ObjectNodesAt(f.properties[Head(path)], Tail(path))
            [] OTHER -> <<>>) \o acc,
         <<>>, IF IsSchemaObject(schema) THEN SchemaFragments(schema) ELSE <<>>)

\* The nodes at a path; none of a missing schema.
SchemaObjectNodes(schema, path) == IF schema = NoSchema THEN <<>> ELSE ObjectNodesAt(schema, path)

ObjectRuleKeywords == {"type", "nullable", "properties", "required", "additionalProperties",
                       "allOf", "readOnly", "writeOnly"} \cup Ignored

RECURSIVE RulesOf(_, _)
RulesOf(node, name) ==
  IF ~ IsSchemaObject(node) THEN IF node = False THEN <<False>> ELSE <<>>
  ELSE LET types == SchemaType(node)
           excluded == IF types # AnyType /\ "object" \notin types THEN <<False>> ELSE <<>>
           own == IF name \in DOMAIN Field(node, "properties", EmptySchema)
                  THEN <<node.properties[name]>>
                  ELSE IF HasKey(node, "additionalProperties") THEN <<node.additionalProperties>>
                  ELSE <<>>
       IN excluded \o own \o FoldSeq(LAMBDA f, acc : RulesOf(f, name) \o acc, <<>>,
                                     Field(node, "allOf", <<>>))

ObjectPropertyRule(nodes, name) ==
  LET branches == UNION {Fragments(nodes[i]) : i \in DOMAIN nodes}
  IN [rules |-> FlattenSeq([i \in DOMAIN nodes |-> RulesOf(nodes[i], name)]),
      unknown |-> \E f \in branches : ~ DOMAIN f \subseteq ObjectRuleKeywords]

SimplePropertyRule(rules) ==
  LET schema == [allOf |-> rules]
      types == IF \E f \in Fragments(schema) : False \in ToSet(Field(f, "allOf", <<>>))
               THEN {} ELSE SchemaType(schema)
  IN SimpleRule(types, EnumIdentities(schema),
                \E f \in Fragments(schema) : ~ DOMAIN f \subseteq SimpleKeywords)

CompareRules(before, after) ==
  LET Form(rules) == Occurrences([i \in DOMAIN rules |-> Canonical(rules[i])])
  IN IF before.unknown \/ after.unknown THEN Verdict(FALSE, TRUE)
     ELSE IF Form(before.rules) = Form(after.rules) THEN Verdict(FALSE, FALSE)
     ELSE CompareSimpleRules(SimplePropertyRule(before.rules), SimplePropertyRule(after.rules))

ComparePropertyAt(field, from, to) ==
  IF ~ field.defined \/ field.arrayItem \/ from = <<>> \/ to = <<>> THEN Verdict(FALSE, FALSE)
  ELSE CompareRules(ObjectPropertyRule(from, field.name), ObjectPropertyRule(to, field.name))

\* A response is compared backwards: what it may be now, its reader must accept.
ChangedPropertyCompatibility(field, old, new, response) ==
  ComparePropertyAt(field, SchemaObjectNodes(IF response THEN new ELSE old, field.parent),
                           SchemaObjectNodes(IF response THEN old ELSE new, field.parent))

\* Which branch of the object declares the property, among constraints that could tell them apart.
RECURSIVE DeclarationShape(_, _)
DeclarationShape(node, name) ==
  IF ~ IsSchemaObject(node) THEN [declared |-> FALSE, scope |-> EmptySchema, allOf |-> EmptySchema]
  ELSE [declared |-> name \in DOMAIN Field(node, "properties", EmptySchema),
        scope |-> Canonical(Without(node, {"properties", "allOf"} \cup NumericKeywords
                                             \cup BoundFlags \cup SizeKeywords)),
        allOf |-> Occurrences([i \in DOMAIN Field(node, "allOf", <<>>) |->
                                 DeclarationShape(node.allOf[i], name)])]

PropertyDeclarationScopesChanged(field, old, new) ==
  LET Shapes(schema) == LET nodes == SchemaObjectNodes(schema, field.parent)
                        IN Occurrences([i \in DOMAIN nodes |-> DeclarationShape(nodes[i], field.name)])
  IN Shapes(old) # Shapes(new)

=============================================================================
