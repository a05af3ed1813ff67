----------------------------- MODULE SchemaRules ----------------------------
(***************************************************************************)
(* How single keywords of two schemas are compared, and what a keyword     *)
(* says of a value (services/vdoc/semantic_*.go).                          *)
(*                                                                         *)
(* A schema is a function from the JSON-schema keywords it states to their *)
(* values: a record of some of                                             *)
(*   type, nullable, enum, const, properties, required, items,             *)
(*   additionalProperties, allOf, anyOf, oneOf (sequences), minimum,       *)
(*   exclusiveMinimum, maximum, exclusiveMaximum, minLength ..             *)
(*   maxProperties, readOnly, writeOnly, pattern (any keyword the          *)
(*   comparison has no rule for), description (any keyword it ignores).    *)
(* An exclusive bound that is a Boolean, as in OpenAPI 3.0, has a name of  *)
(* its own: exclusiveMinimumFlag, exclusiveMaximumFlag.                    *)
(* The schemas true and false are [boolean |-> TRUE] and FALSE, a missing  *)
(* one is NoSchema.  A type constraint is a set of type names or AnyType,  *)
(* an enumeration is {} (none) or {S} (the values of S).  The fragments of *)
(* a schema are itself and its allOf branches, each of which must hold.    *)
(*                                                                         *)
(* A value is [kind, ..] with the payload of its kind: number (in halves), *)
(* length (of a string), elements (a sequence), fields (a function).       *)
(*                                                                         *)
(* An item of a comparison is [change, at, breaking, mustHandle]; texts,   *)
(* values and their order are presentation.                                *)
(***************************************************************************)
EXTENDS Integers, Sequences, FiniteSets, SequencesExt, FiniteSetsExt, Functions

AnyType == {"any"}
NoSchema == [nil |-> TRUE]
True == [boolean |-> TRUE]
False == [boolean |-> FALSE]
EmptySchema == [k \in {} |-> TRUE]

HasKey(schema, key) == key \in DOMAIN schema
IsSchemaObject(schema) == ~ HasKey(schema, "boolean") /\ ~ HasKey(schema, "nil")
Flag(schema, key) == HasKey(schema, key) /\ schema[key]
Field(schema, key, default) == IF HasKey(schema, key) THEN schema[key] ELSE default
Stated(schema, key) == {schema[k] : k \in {key} \cap DOMAIN schema}
Without(schema, keys) == Restrict(schema, DOMAIN schema \ keys)
Unconstrained(schema) == IF schema = NoSchema THEN EmptySchema ELSE schema

Add(change, at, breaking) ==
  {[change |-> change, at |-> at, breaking |-> breaking, mustHandle |-> breaking]}
Manual(change, at) ==
  {[change |-> change, at |-> at, breaking |-> FALSE, mustHandle |-> TRUE]}
Judged(change, at, breaking, manual) ==
  {[change |-> change, at |-> at, breaking |-> breaking, mustHandle |-> breaking \/ manual]}

Handled(items) == \E i \in items : i.mustHandle

-----------------------------------------------------------------------------
(* Types.                                                                  *)

IntersectTypes(a, b) ==
  IF a = AnyType THEN b
  ELSE IF b = AnyType THEN a
  ELSE (a \cap b) \cup {t \in {"integer"} : \/ "integer" \in a /\ "number" \in b
                                            \/ "number" \in a /\ "integer" \in b}

\* The types that every one of the fragments allows.
CombinedType(fragments) ==
  LET typed == {f \in fragments : Field(f, "type", {}) # {}}
      allowed == {f.type \cup (IF Flag(f, "nullable") THEN {"null"} ELSE {}) : f \in typed}
  IN FoldSet(IntersectTypes, AnyType, allowed)

Accommodates(types, t) == t \in types \/ (t = "integer" /\ "number" \in types)

AcceptsType(types, value) == types = AnyType \/ Accommodates(types, value.kind)

\* A faulty variant: responses are compared the way requests are.
TypeChangeUndirected(oldType, newType, response) ==
  /\ newType # AnyType
  /\ oldType = AnyType \/ \E t \in oldType : ~ Accommodates(newType, t)

TypeChangeBreaking(oldType, newType, response) ==
  LET from == IF response THEN newType ELSE oldType
      to == IF response THEN oldType ELSE newType
  IN /\ to # AnyType
     /\ \/ from = AnyType
        \/ \E t \in from : ~ Accommodates(to, t)

-----------------------------------------------------------------------------
(* Enumerations.                                                           *)

Meet(constraints) ==
  LET limits == UNION constraints
  IN IF limits = {} THEN {} ELSE {{v \in UNION limits : \A s \in limits : v \in s}}

CombinedEnum(fragments) ==
  Meet({Stated(f, "enum") : f \in fragments}
         \cup {{{value} : value \in Stated(f, "const")} : f \in fragments})

CompareEnumValueLists(change, at, old, new, response) ==
  IF old = {} /\ new = {} THEN {}
  ELSE IF old = {} \/ new = {} THEN Add(change, at, (new # {}) # response)
  ELSE LET from == CHOOSE s \in old : TRUE
           to == CHOOSE s \in new : TRUE
       IN (UNION {Add(change, at \o <<"removed", v>>, TRUE) : v \in from \ to})
            \cup (UNION {Add(change, at \o <<"added", v>>, response) : v \in to \ from})

\* What is said of one field on both sides.
DirectChanges(change, here, before, after, response) ==
  LET typed == IF before.types = after.types THEN {}
               ELSE Add(change, here \o <<"type">>,
                        TypeChangeBreaking(before.types, after.types, response))
      needed == IF before.required = after.required THEN {}
                ELSE Add(change, here \o <<"required">>, after.required # response)
      listed == CompareEnumValueLists(change, here, before.enum, after.enum, response)
  IN typed \cup needed \cup listed

-----------------------------------------------------------------------------
(* Bounds and sizes.                                                       *)

NumericKeywords == {"minimum", "exclusiveMinimum", "maximum", "exclusiveMaximum"}
BoundFlags == {"exclusiveMinimumFlag", "exclusiveMaximumFlag"}
SizeKeywords == {"minLength", "maxLength", "minItems", "maxItems", "minProperties", "maxProperties"}
Ignored == {"description"}

\* How much the bounds of one side exclude, as a number: the larger the tighter; {} if there
\* is no bound.
Tightness(schema, lower) ==
  LET side == IF lower THEN 1 ELSE -1
      limits == {2 * side * n : n \in Stated(schema, IF lower THEN "minimum" ELSE "maximum")}
                  \cup {2 * side * n + 1 :
                          n \in Stated(schema, IF lower THEN "exclusiveMinimum" ELSE "exclusiveMaximum")}
  IN {limit \in limits : \A other \in limits : limit >= other}

Tighter(after, before) == \E n \in after : \A m \in before : n > m

BoundKeywords(schema, lower) ==
  Restrict(schema, DOMAIN schema \cap
             (IF lower THEN {"minimum", "exclusiveMinimum", "exclusiveMinimumFlag"}
              ELSE {"maximum", "exclusiveMaximum", "exclusiveMaximumFlag"}))

\* A bound that is no number: a flag where the dialect has none.
Unreadable(schema, lower) == DOMAIN BoundKeywords(schema, lower) \cap BoundFlags # {}

CompareNumericBounds(change, at, old, new, response) ==
  UNION {LET before == Tightness(old, lower)
             after == Tightness(new, lower)
             here == at \o <<"bound", lower>>
         IN IF Unreadable(old, lower) \/ Unreadable(new, lower)
            THEN IF BoundKeywords(old, lower) = BoundKeywords(new, lower) THEN {}
                 ELSE Manual(change, here)
            ELSE IF before = after THEN {}
            ELSE Add(change, here, Tighter(after, before) # response)
           : lower \in BOOLEAN}

Upper == {"maxLength", "maxItems", "maxProperties"}

CompareSizes(change, at, old, new, response) ==
  LET Narrower(k) == \E n \in Stated(new, k) : \A m \in Stated(old, k) :
                       IF k \in Upper THEN n < m ELSE m < n
      changed == {k \in SizeKeywords : Stated(old, k) # Stated(new, k)}
  IN UNION {Add(change, at \o <<k>>, Narrower(k) # response) : k \in changed}

-----------------------------------------------------------------------------
(* What the rules of a property allow, when they state types and values    *)
(* only.                                                                   *)

SimpleKeywords == {"type", "nullable", "enum", "const", "allOf", "readOnly", "writeOnly"}
                    \cup Ignored

SimpleRule(types, enum, unknown) ==
  [types |-> types,
   enum |-> {{v \in s : AcceptsType(types, v)} : s \in enum},
   unknown |-> unknown]

EmptyRule(r) == r.types = {} \/ {} \in r.enum
UniversalRule(r) == r.types = AnyType /\ r.enum = {} /\ ~ r.unknown
AcceptedBy(r, value) == AcceptsType(r.types, value) /\ \A s \in r.enum : value \in s

Verdict(breaking, manual) == [breaking |-> breaking, manual |-> manual]

CompareSimpleRules(from, to) ==
  IF EmptyRule(from) \/ UniversalRule(to) THEN Verdict(FALSE, FALSE)
  ELSE IF from.unknown \/ to.unknown THEN Verdict(FALSE, TRUE)
  ELSE IF from.enum # {} THEN Verdict(\E s \in from.enum : \E v \in s : ~ AcceptedBy(to, v), FALSE)
  ELSE Verdict(to.enum # {} \/ TypeChangeBreaking(from.types, to.types, FALSE), FALSE)

-----------------------------------------------------------------------------
(* What the keywords of a schema that speak of a value and of none of its  *)
(* parts say of it, by their meaning in JSON schemas.                      *)

Numeric(kind) == kind \in {"integer", "number"}

OfItsType(schema, value) ==
  \/ Field(schema, "type", {}) = {}
  \/ Accommodates(schema.type, value.kind)
  \/ value.kind = "null" /\ Flag(schema, "nullable")

Listed(schema, value) ==
  /\ HasKey(schema, "enum") => value \in schema.enum
  /\ HasKey(schema, "const") => value = schema.const

WithinBounds(schema, value) ==
  /\ HasKey(schema, "minimum") => value.number >= schema.minimum
  /\ HasKey(schema, "exclusiveMinimum") => value.number > schema.exclusiveMinimum
  /\ HasKey(schema, "maximum") => value.number <= schema.maximum
  /\ HasKey(schema, "exclusiveMaximum") => value.number < schema.exclusiveMaximum

Within(n, schema, low, high) ==
  /\ HasKey(schema, low) => n >= schema[low]
  /\ HasKey(schema, high) => n <= schema[high]

OfItsSize(schema, value) ==
  /\ value.kind = "string" => Within(value.length, schema, "minLength", "maxLength")
  /\ value.kind = "array" => Within(Len(value.elements), schema, "minItems", "maxItems")
  /\ value.kind = "object" =>
       Within(Cardinality(DOMAIN value.fields), schema, "minProperties", "maxProperties")

\* Everything said of the value itself.
OwnKeywordsAccept(schema, value) ==
  /\ OfItsType(schema, value)
  /\ Listed(schema, value)
  /\ Numeric(value.kind) => WithinBounds(schema, value)
  /\ OfItsSize(schema, value)

=============================================================================
