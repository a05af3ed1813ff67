--------------------------- MODULE ContractMeaning --------------------------
(***************************************************************************)
(* What a schema means to those who use it, independently of how the       *)
(* program compares two of them: the JSON values it accepts in one         *)
(* direction.  It is the reference ContractDiff is checked against.        *)
(***************************************************************************)
EXTENDS ContractDiff

\* Requirements of read-only properties bind responses only, of write-only ones requests only.
ExcusedNames(schema, response) ==
  LET key == IF response THEN "writeOnly" ELSE "readOnly"
      Says(f) == {n \in DOMAIN Field(f, "properties", EmptySchema) : Access(f.properties[n], key)}
  IN UNION {Says(f) : f \in Fragments(schema)}

RECURSIVE Valid(_, _, _, _, _)
Accepts(schema, value, response, hidden) ==
  Valid(schema, value, response, hidden, ExcusedNames(schema, response))
\* "hidden": a property above is exempt in this direction; "excused": the names exempt here.
Valid(schema, value, response, hidden, excused) ==
  IF ~ IsSchemaObject(schema) THEN schema # False
  ELSE
    LET properties == Field(schema, "properties", EmptySchema)
        Inside(n) == hidden \/ n \in excused
        fields == value.fields
    IN /\ OwnKeywordsAccept(schema, value)
       /\ value.kind = "string" /\ HasKey(schema, "pattern") => value.length \in schema.pattern
       /\ value.kind = "array" /\ HasKey(schema, "items") =>
            \A i \in DOMAIN value.elements : Accepts(schema.items, value.elements[i], response, hidden)
       /\ value.kind = "object" =>
            /\ \A n \in Field(schema, "required", {}) : n \in DOMAIN fields \/ Inside(n)
            /\ \A n \in DOMAIN fields :
                 IF n \in DOMAIN properties THEN Accepts(properties[n], fields[n], response, Inside(n))
                 ELSE HasKey(schema, "additionalProperties") =>
                        Accepts(schema.additionalProperties, fields[n], response, Inside(n))
       /\ \A i \in DOMAIN Field(schema, "allOf", <<>>) :
            Valid(schema.allOf[i], value, response, hidden, excused)
       /\ HasKey(schema, "anyOf") => 
            \E i \in DOMAIN schema.anyOf : Accepts(schema.anyOf[i], value, response, hidden)
       /\ HasKey(schema, "oneOf") =>
            Cardinality({i \in DOMAIN schema.oneOf :
                           Accepts(schema.oneOf[i], value, response, hidden)}) = 1

SchemaAllows(schema, value, response) == Accepts(schema, value, response, FALSE)

=============================================================================
