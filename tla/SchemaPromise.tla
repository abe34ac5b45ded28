--------------------------- MODULE SchemaPromise ---------------------------
(***************************************************************************)
(* What reading a provider schema promises (normalize_schema's             *)
(* documentation): as if everything was decoded before anything was        *)
(* normalized.  A document is well-formed or not as a whole; of a          *)
(* well-formed one, maps hold the last value of a name, and the problems   *)
(* come in schema order.                                                   *)
(***************************************************************************)
EXTENDS SchemaDecode

\* The kinds of the raw format, and those of them that have problems.
NodeKinds == {"schemas", "schema", "block", "attributes", "blocks", "attribute", "nestedBlock",
              "nestedType", "type", "objectType", "tupleType"}
RawKinds == NodeKinds \cup {"document", "providers", "provider", "maybeType", "maybeNestedType",
                            "text", "flag", "maybeText", "maybeCount"}

\* Whether JSON has the fields of its kind, each of its own kind, given that of what
\* is inside it.
HasFields(seed, json, below) ==
  LET known == {i \in DOMAIN json.entries : json.entries[i].key \in DOMAIN seed.fields} IN
  /\ json.is = "object"
  /\ \A i, j \in known : json.entries[i].key = json.entries[j].key => i = j
  /\ \A i \in known : below[json.entries[i].value][seed.fields[json.entries[i].key]]
  /\ \A key \in seed.required : \E i \in known : json.entries[i].key = key

Formed(kind, json, below) ==
  CASE kind \in {"type", "maybeType", "objectType", "tupleType"} -> TRUE
    [] kind \in Scalars -> Usable(ReadScalar(kind, json))
    [] kind = "maybeNestedType" -> json.is = "null" \/ HasFields(Seeds["nestedType"], json, below)
    [] kind \in DOMAIN Seeds -> HasFields(Seeds[kind], json, below)
    [] kind \in DOMAIN MapSeeds ->
         /\ json.is = "object"
         /\ \A i \in DOMAIN json.entries : below[json.entries[i].value][MapSeeds[kind]]

WellFormed[json \in AnyJson] ==
  LET below == [inside \in Children(json) |-> WellFormed[inside]]
  IN [kind \in RawKinds |-> Formed(kind, json, below)]

-----------------------------------------------------------------------------
\* An object as the map it denotes.
Places(json, key) == {i \in DOMAIN json.entries : json.entries[i].key = key}
Has(json, key) == Places(json, key) # {}
At(json, key) == json.entries[Max(Places(json, key))].value
Present(json, key) == Has(json, key) /\ At(json, key).is # "null"

Problem(path, what) == <<[path |-> path, what |-> what]>>
ModeProblems(json, path) ==
  IF At(json, "nesting_mode").text \in Modes THEN <<>> ELSE Problem(path, "nesting_mode")

\* The problems of a cty type.
TypeProblems(json, path, below) ==
  LET inside(kind) == below[json.items[2]][kind][path] IN
  IF json.is = "string" THEN IF json.text \in Primitives THEN <<>> ELSE Problem(path, "unknown_primitive")
  ELSE IF json.is # "array" THEN Problem(path, "expected_array")
  ELSE IF json.items = <<>> THEN Problem(path, "missing_constructor")
  ELSE IF json.items[1].is # "string" THEN Problem(path, "missing_constructor")
  ELSE IF Len(json.items) = 1 THEN Problem(path, "missing_constructor_parameter")
  ELSE CASE json.items[1].text \in Collections -> inside("type")
         [] json.items[1].text = "object" -> inside("objectType")
         [] json.items[1].text = "tuple" -> inside("tupleType")
         [] OTHER -> Problem(path, "unknown_constructor")

\* The problems of what is inside JSON, name by name, field by field in the order
\* they come first, and item by item; and those of JSON, in schema order.
ProblemsByName(kind, json, path, below) ==
  FlattenSeq([k \in DOMAIN Order |->
    IF Has(json, Order[k]) THEN below[At(json, Order[k])][MapSeeds[kind]][Append(path, Key(Order[k]))]
    ELSE <<>>])

ProblemsByField(json, path, below) ==
  FlattenSeq([i \in DOMAIN json.entries |->
    LET key == json.entries[i].key IN
    IF \E j \in 1..(i - 1) : json.entries[j].key = key THEN <<>>
    ELSE below[At(json, key)]["type"][Append(path, Key(key))]])

ProblemsByItem(json, path, below) ==
  FlattenSeq([i \in DOMAIN json.items |-> below[json.items[i]]["type"][Append(path, Place(i))]])

ProblemsIn(kind, json, path, below) ==
  LET of(key, part) == IF Has(json, key) THEN below[At(json, key)][part][path] ELSE <<>> IN
  CASE kind \in {"schemas", "attributes", "blocks"} -> ProblemsByName(kind, json, path, below)
    [] kind = "schema" -> of("block", "block")
    [] kind = "block" -> of("attributes", "attributes") \o of("block_types", "blocks")
    [] kind = "nestedBlock" -> ModeProblems(json, path) \o of("block", "block")
    [] kind = "attribute" -> IF Present(json, "type") THEN of("type", "type")
                             ELSE IF Present(json, "nested_type") THEN of("nested_type", "nestedType")
                             ELSE Problem(path, "missing_type")
    [] kind = "nestedType" -> of("attributes", "attributes") \o ModeProblems(json, path)
    [] kind = "type" -> TypeProblems(json, path, below)
    [] kind = "objectType" -> IF json.is = "object" THEN ProblemsByField(json, path, below)
                              ELSE Problem(path, "expected_object")
    [] kind = "tupleType" -> IF json.is = "array" THEN ProblemsByItem(json, path, below)
                             ELSE Problem(path, "expected_tuple")

Problems[json \in AnyJson] ==
  LET below == [inside \in Children(json) |-> Problems[inside]]
  IN [kind \in NodeKinds |-> [path \in Paths |-> ProblemsIn(kind, json, path, below)]]

ProviderProblems(json) ==
  LET of(key, kind, root) == IF Has(json, key) THEN Problems[At(json, key)][kind][<<Label(root)>>] ELSE <<>>
  IN of("provider", "schema", "provider")
       \o of("resource_schemas", "schemas", "resource") \o of("data_source_schemas", "schemas", "data")

\* The first of some problems, if there are any.
FirstOf(problems) == IF problems = <<>> THEN <<>> ELSE <<Head(problems)>>

\* What normalize_schema reports of a document: an error of the JSON, or the first
\* problem, or nothing.
Promised(json) ==
  LET providers == At(json, "provider_schemas")
      matching == {k \in DOMAIN Matching : Has(providers, Matching[k])}
  IN IF ~WellFormed[json]["document"] THEN <<"json">>
     ELSE IF At(json, "format_version").text \notin Supported THEN Problem(<<>>, "unsupported_format")
     ELSE IF matching = {} THEN Problem(<<>>, "missing_provider")
     ELSE FirstOf(ProviderProblems(At(providers, Matching[Min(matching)])))

Reported(result) == IF result.error # <<>> THEN <<"json">> ELSE result.problem
=============================================================================
