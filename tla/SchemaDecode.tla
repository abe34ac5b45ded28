---------------------------- MODULE SchemaDecode ----------------------------
(***************************************************************************)
(* Reading a provider schema in one pass (crates/provider-schema/src:      *)
(* decode.rs, decode/stored.rs, lib.rs): a seed per kind of JSON object    *)
(* reads its fields in document order, and every node is normalized when   *)
(* its JSON ends.  A JSON error ends the reading; a problem of the schema  *)
(* is carried along as a value.  Optional values are sequences of at most  *)
(* one; what only documents a schema (descriptions, sensitive) is read and *)
(* not kept, and equal lists are equal values, so interning shows nowhere. *)
(***************************************************************************)
EXTENDS Naturals, Sequences, SequencesExt, FiniteSets

CONSTANTS Order,      \* the names of types, attributes and blocks, in byte order
          Matching,   \* the provider addresses that name the requested one, in byte order
          Supported,  \* the format versions that begin with 1
          Request,    \* source and version of the requested provider
          MaxNesting  \* how deep the JSON is that the parser reads

ASSUME OrderAssumption == Order \in Seq(STRING) /\ Matching \in Seq(STRING)
ASSUME NestingAssumption == MaxNesting \in Nat

\* JSON values: of all that nest at most MaxNesting deep, those inside an object or
\* an array nest one less.
Json(is, text, number, entries, items) ==
  [is |-> is, text |-> text, number |-> number, entries |-> entries, items |-> items]
Text(text) == Json("string", text, 0, <<>>, <<>>)
Number(n) == Json("number", "", n, <<>>, <<>>)
True == Json("bool", "true", 0, <<>>, <<>>)
False == Json("bool", "false", 0, <<>>, <<>>)
Null == Json("null", "", 0, <<>>, <<>>)
Array(items) == Json("array", "", 0, <<>>, items)
Object(entries) == Json("object", "", 0, entries, <<>>)
Field(key, value) == <<[key |-> key, value |-> value]>>

JsonKinds == {"null", "bool", "number", "string", "array", "object"}
JsonNodes(values) ==
  [is : JsonKinds, text : STRING, number : Nat,
   entries : Seq([key : STRING, value : values]), items : Seq(values)]
JsonTree[h \in 0..MaxNesting] == JsonNodes(IF h = 0 THEN {} ELSE JsonTree[h - 1])
AnyJson == JsonTree[MaxNesting]
Children(json) == {json.entries[i].value : i \in DOMAIN json.entries} \cup ToSet(json.items)

\* Where a node of a schema is (SchemaPath): below a root, by names and by places.
Label(name) == [root |-> name]
Key(name) == [field |-> name]
Place(i) == [index |-> i]
Roots == {Label(name) : name \in {"provider", "resource", "data", "derived"}}
Paths == Seq(Roots \cup [field : STRING] \cup [index : Nat])

\* What reading returns: an error of the JSON, or a normalized value, or the first
\* problem in schema order instead of one.
Good(value) == [error |-> <<>>, problem |-> <<>>, value |-> value]
Bad(error) == [error |-> <<error>>, problem |-> <<>>, value |-> <<>>]
Wrong(path, what) == [error |-> <<>>, problem |-> <<[path |-> path, what |-> what]>>, value |-> <<>>]
Usable(result) == result.error = <<>> /\ result.problem = <<>>
Then(result, Wrap(_)) == IF Usable(result) THEN Good(Wrap(result.value)) ELSE result

Type(kind, items, fields) == [kind |-> kind, items |-> items, fields |-> fields]
Primitives == {"string", "bool", "number", "dynamic"}
Collections == {"list", "set", "map"}
Modes == {"single", "list", "set", "map", "group"}

-----------------------------------------------------------------------------
Named(entries, name) == {i \in DOMAIN entries : entries[i].name = name}
LastOf(entries, name) == entries[Max(Named(entries, name))]

\* sort_unique: by name, and of entries of one name the last.
SortUniqueBy(order, entries) ==
  FlattenSeq([k \in DOMAIN order |->
    IF Named(entries, order[k]) = {} THEN <<>> ELSE <<LastOf(entries, order[k])>>])
SortUnique(entries) == SortUniqueBy(Order, entries)

\* merge_repeated_keys: every name where it came first, with the value it had last.
MergeRepeated(entries) ==
  FlattenSeq([i \in DOMAIN entries |->
    IF \E j \in 1..(i - 1) : entries[j].name = entries[i].name THEN <<>>
    ELSE <<LastOf(entries, entries[i].name)>>])

\* The values of named results, or the first problem among them.
FirstProblem(results) ==
  LET wrong == {i \in DOMAIN results : ~Usable(results[i].result)} IN
  IF wrong # {} THEN results[Min(wrong)].result
  ELSE Good([i \in DOMAIN results |-> [name |-> results[i].name, value |-> results[i].result.value]])

\* Mutant: problems are looked for in document order.
NameMapUnsorted(results) == FirstProblem(results)
\* name_map.
NameMap(results) == FirstProblem(SortUnique(results))

\* Normalizer::block.
NormalizedBlock(attributes, blocks) ==
  LET a == NameMap(attributes)
      b == NameMap(blocks)
  IN IF ~Usable(a) THEN a
     ELSE Then(b, LAMBDA value : [attributes |-> a.value, blocks |-> value])

\* parse_nesting_mode.
NestingMode(mode, path) == IF mode \in Modes THEN Good(mode) ELSE Wrong(path, "nesting_mode")
InMode(mode, object) == IF mode \in {"single", "group"} THEN object ELSE Type(mode, <<object>>, <<>>)

\* nested_type: its attributes are normalized before its mode is.
NestedType(mode, attributes, path) ==
  LET fields == NameMap(attributes) IN
  IF ~Usable(fields) THEN fields
  ELSE Then(NestingMode(mode, path), LAMBDA m : InMode(m, Type("object", <<>>, fields.value)))

\* object_type: the fields of a cty object are required attributes.
Required(type) == [type |-> type, required |-> TRUE, optional |-> FALSE, computed |-> FALSE]
AsObject(merged) ==
  Type("object", <<>>, SortUnique([i \in DOMAIN merged |-> [merged[i] EXCEPT !.value = Required(@)]]))
ObjectType(fields) == Then(FirstProblem(MergeRepeated(fields)), AsObject)

-----------------------------------------------------------------------------
\* The seeds: the fields an object may have with the kind of each, others being
\* skipped, and the fields it must have.
Seed(fields, required) == [fields |-> fields, required |-> required]
DocumentSeed ==
  Seed([format_version |-> "text", provider_schemas |-> "providers"],
       {"format_version", "provider_schemas"})
EitherSeed ==
  Seed([format_version |-> "text", provider_schemas |-> "providers",
        source |-> "text", version |-> "text", provider_config |-> "storedBlock",
        resources |-> "storedSchemas", data_sources |-> "storedSchemas"], {})
DerivedSeed ==
  Seed([source |-> "text", version |-> "text", provider_config |-> "storedBlock",
        resources |-> "storedSchemas", data_sources |-> "storedSchemas"],
       {"source", "version", "provider_config", "resources", "data_sources"})
ProviderSeed ==
  Seed([provider |-> "schema", resource_schemas |-> "schemas", data_source_schemas |-> "schemas"],
       {"provider"})
SchemaSeed == Seed([block |-> "block"], {"block"})
BlockSeed == Seed([attributes |-> "attributes", block_types |-> "blocks"], {})
AttributeSeed ==
  Seed([type |-> "maybeType", nested_type |-> "maybeNestedType", required |-> "flag",
        optional |-> "flag", computed |-> "flag", sensitive |-> "flag", description |-> "maybeText"], {})
NestedTypeSeed == Seed([nesting_mode |-> "text", attributes |-> "attributes"], {"nesting_mode"})
NestedBlockSeed ==
  Seed([nesting_mode |-> "text", min_items |-> "maybeCount", max_items |-> "maybeCount",
        block |-> "block"], {"nesting_mode", "block"})
StoredResourceSeed == Seed([block |-> "storedBlock"], {"block"})
StoredBlockSeed ==
  Seed([attributes |-> "storedAttributes", blocks |-> "storedBlocks"], {"attributes", "blocks"})
StoredAttributeSeed ==
  Seed([type |-> "storedType", required |-> "flag", optional |-> "flag", computed |-> "flag",
        sensitive |-> "flag", description |-> "maybeText"],
       {"type", "required", "optional", "computed", "sensitive"})
StoredNestedBlockSeed ==
  Seed([nesting_mode |-> "mode", min_items |-> "maybeCount", max_items |-> "maybeCount",
        block |-> "storedBlock"], {"nesting_mode", "block"})

Seeds == [document |-> DocumentSeed, either |-> EitherSeed, derived |-> DerivedSeed,
          provider |-> ProviderSeed, schema |-> SchemaSeed, block |-> BlockSeed,
          attribute |-> AttributeSeed, nestedType |-> NestedTypeSeed,
          nestedBlock |-> NestedBlockSeed, storedResource |-> StoredResourceSeed,
          storedBlock |-> StoredBlockSeed, storedAttribute |-> StoredAttributeSeed,
          storedNestedBlock |-> StoredNestedBlockSeed]
\* Maps from names to objects of one kind.
MapSeeds == [providers |-> "provider", schemas |-> "schema", attributes |-> "attribute",
             blocks |-> "nestedBlock", storedSchemas |-> "storedResource",
             storedAttributes |-> "storedAttribute", storedBlocks |-> "storedNestedBlock"]
Scalars == {"text", "flag", "maybeText", "maybeCount", "mode"}
TypeKinds == {"type", "maybeType", "objectType", "tupleType", "maybeNestedType", "storedType", "storedTypes"}
ReadKinds == DOMAIN Seeds \cup DOMAIN MapSeeds \cup Scalars \cup TypeKinds

ReadScalar(kind, json) ==
  CASE kind = "text" /\ json.is = "string" -> Good(json.text)
    [] kind = "flag" /\ json.is = "bool" -> Good(json.text = "true")
    [] kind = "maybeText" /\ json.is \in {"string", "null"} -> Good(<<>>)
    [] kind = "maybeCount" /\ json.is = "number" -> Good(<<json.number>>)
    [] kind = "maybeCount" /\ json.is = "null" -> Good(<<>>)
    [] kind = "mode" /\ json.is = "string" /\ json.text \in Modes -> Good(json.text)
    [] OTHER -> Bad("invalid_type")

\* A provider's path is a fresh one, of what it describes.
PathBelow(kind, key, path) ==
  IF kind # "provider" THEN path
  ELSE CASE key = "provider" -> <<Label("provider")>>
         [] key = "resource_schemas" -> <<Label("resource")>>
         [] OTHER -> <<Label("data")>>
PathOfEntry(kind, key, path) ==
  IF kind \in {"providers", "storedSchemas", "storedAttributes", "storedBlocks"} THEN path
  ELSE Append(path, Key(key))

-----------------------------------------------------------------------------
\* What a seed returns when its object ends, of the results of its fields.
Optional(found, key, default) == IF key \in DOMAIN found THEN found[key].value ELSE default

\* A type wins over a nested type; null is neither.
NormalizedAttribute(type, found) ==
  [type |-> type, required |-> Optional(found, "required", FALSE),
   optional |-> Optional(found, "optional", FALSE), computed |-> Optional(found, "computed", FALSE)]
FinishedAttribute(found, path) ==
  LET given(key) == key \in DOMAIN found /\ found[key] # Good(<<>>)
      type == IF given("type") THEN found["type"]
              ELSE IF given("nested_type") THEN found["nested_type"]
              ELSE Wrong(path, "missing_type")
  IN Then(type, LAMBDA t : NormalizedAttribute(t[1], found))

NestedBlock(found, mode, block) ==
  [nesting_mode |-> mode, min_items |-> Optional(found, "min_items", <<>>),
   max_items |-> Optional(found, "max_items", <<>>), block |-> block]

\* The nesting mode is looked at before what is inside the block.
FinishedNestedBlock(found, path) ==
  LET mode == NestingMode(found["nesting_mode"].value, path) IN
  IF ~Usable(mode) THEN mode
  ELSE Then(found["block"], LAMBDA block : NestedBlock(found, mode.value, block))

FinishedProvider(found) ==
  Good([config |-> found["provider"], resources |-> Optional(found, "resource_schemas", <<>>),
        data_sources |-> Optional(found, "data_source_schemas", <<>>)])

StoredSchema(found) ==
  [source |-> found["source"].value, version |-> found["version"].value,
   provider_config |-> found["provider_config"].value, resources |-> found["resources"].value,
   data_sources |-> found["data_sources"].value]
FinishedDocument(found) ==
  Good([raw |-> IF DocumentSeed.required \subseteq DOMAIN found
                  THEN <<[format_version |-> found["format_version"].value,
                          providers |-> found["provider_schemas"].value]>>
                ELSE <<>>,
        normalized |-> IF DerivedSeed.required \subseteq DOMAIN found THEN <<StoredSchema(found)>>
                       ELSE <<>>])

Finished(kind, found, path) ==
  CASE kind \in {"document", "either", "derived"} -> FinishedDocument(found)
    [] kind = "provider" -> FinishedProvider(found)
    [] kind \in {"schema", "storedResource"} -> found["block"]
    [] kind = "block" -> NormalizedBlock(Optional(found, "attributes", <<>>),
                                         Optional(found, "block_types", <<>>))
    [] kind = "attribute" -> FinishedAttribute(found, path)
    [] kind = "nestedType" -> NestedType(found["nesting_mode"].value,
                                         Optional(found, "attributes", <<>>), path)
    [] kind = "nestedBlock" -> FinishedNestedBlock(found, path)
    [] kind = "storedBlock" -> Good([attributes |-> found["attributes"].value,
                                     blocks |-> found["blocks"].value])
    [] kind = "storedAttribute" -> Good(NormalizedAttribute(found["type"].value, found))
    [] kind = "storedNestedBlock" ->
         Good(NestedBlock(found, found["nesting_mode"].value, found["block"].value))

\* And when a map ends: a block's attributes and blocks are sorted by the block, of
\* the providers only those that match are kept, and stored nodes have no problems.
FinishedMap(kind, results) ==
  CASE kind = "providers" -> Good(SortUniqueBy(Matching, results))
    [] kind = "schemas" -> Good(SortUnique(results))
    [] kind \in {"attributes", "blocks"} -> Good(results)
    [] kind \in {"storedSchemas", "storedAttributes", "storedBlocks"} -> NameMap(results)

-----------------------------------------------------------------------------
\* In all of what follows, `below` is what the JSON inside `json` is read as, by kind
\* and path.

\* The entries of an object that are not skipped, with what each is read as.
Entries(json, Kept(_), Result(_)) ==
  FlattenSeq([i \in DOMAIN json.entries |->
    IF Kept(json.entries[i].key) THEN <<[name |-> json.entries[i].key, result |-> Result(i)]>> ELSE <<>>])
Failing(results) == {i \in DOMAIN results : results[i].result.error # <<>>}

\* They are read one after the other, and an error ends it.
ReadMap(kind, json, path, below) ==
  LET result(i) == LET e == json.entries[i] IN below[e.value][MapSeeds[kind]][PathOfEntry(kind, e.key, path)]
      results == Entries(json, LAMBDA key : TRUE, result)
  IN IF json.is # "object" THEN Bad("invalid_type")
     ELSE IF Failing(results) # {} THEN results[Min(Failing(results))].result
     ELSE FinishedMap(kind, results)

\* Fields as a derived deserializer reads them: unknown ones are skipped, a repeated
\* one is an error, and so is a missing required one.
ReadFields(kind, json, path, below) ==
  LET seed == Seeds[kind]
      result(i) ==
        LET e == json.entries[i] IN
        IF \E j \in 1..(i - 1) : json.entries[j].key = e.key THEN Bad("duplicate_field")
        ELSE below[e.value][seed.fields[e.key]][PathBelow(kind, e.key, path)]
      results == Entries(json, LAMBDA key : key \in DOMAIN seed.fields, result)
      found == [name \in {results[i].name : i \in DOMAIN results} |-> LastOf(results, name).result]
  IN IF json.is # "object" THEN Bad("invalid_type")
     ELSE IF Failing(results) # {} THEN results[Min(Failing(results))].result
     ELSE IF ~(seed.required \subseteq DOMAIN found) THEN Bad("missing_field")
     ELSE Finished(kind, found, path)

\* TypeSeed: a cty type, a primitive or a constructor with a parameter.  Nothing in
\* it is an error of the JSON.
ReadType(json, path, below) ==
  LET constructor == json.items[1].text
      of(kind) == below[json.items[2]][kind][path]
  IN IF json.is = "string"
       THEN IF json.text \in Primitives THEN Good(Type(json.text, <<>>, <<>>))
            ELSE Wrong(path, "unknown_primitive")
     ELSE IF json.is # "array" THEN Wrong(path, "expected_array")
     ELSE IF json.items = <<>> THEN Wrong(path, "missing_constructor")
     ELSE IF json.items[1].is # "string" THEN Wrong(path, "missing_constructor")
     ELSE IF Len(json.items) = 1 THEN Wrong(path, "missing_constructor_parameter")
     ELSE IF constructor \in Collections
       THEN Then(of("type"), LAMBDA item : Type(constructor, <<item>>, <<>>))
     ELSE IF constructor = "object" THEN of("objectType")
     ELSE IF constructor = "tuple" THEN of("tupleType")
     ELSE Wrong(path, "unknown_constructor")

\* ObjectTypeSeed.
ReadObjectType(json, path, below) ==
  IF json.is # "object" THEN Wrong(path, "expected_object")
  ELSE LET result(i) == LET e == json.entries[i] IN below[e.value]["type"][Append(path, Key(e.key))]
       IN ObjectType(Entries(json, LAMBDA key : TRUE, result))

\* TupleTypeSeed: of several problems, the first.
AsTuple(items) == Type("tuple", items, <<>>)
ReadTupleType(json, path, below) ==
  LET results == [i \in DOMAIN json.items |-> below[json.items[i]]["type"][Append(path, Place(i))]]
      wrong == {i \in DOMAIN results : ~Usable(results[i])}
  IN IF json.is # "array" THEN Wrong(path, "expected_tuple")
     ELSE IF wrong # {} THEN results[Min(wrong)]
     ELSE Good(AsTuple([i \in DOMAIN results |-> results[i].value]))

\* `path` is where a node of the raw format sits; below a stored document it says
\* whether the derived impls read it.
Derived == <<Label("derived")>>

\* A stored type as the shared pass takes it, its kind first and nothing else, or
\* as the derived impl does, in any order: <<kind, value>>, <<kind>> or <<>>.
StoredForm(json, path) ==
  LET derived == path = Derived
      of(key) == {i \in DOMAIN json.entries : json.entries[i].key = key}
      kind == json.entries[CHOOSE i \in of("kind") : TRUE].value
      value == json.entries[CHOOSE i \in of("value") : TRUE].value
      once(places) == \E i \in places : places = {i}
      ordered == \A i \in DOMAIN json.entries : json.entries[i].key = <<"kind", "value">>[i]
  IN IF json.is # "object" \/ ~once(of("kind")) THEN <<>>
     ELSE IF kind.is # "string" THEN <<>>
     ELSE IF ~derived /\ ~(Len(json.entries) <= 2 /\ ordered) THEN <<>>
     ELSE IF of("value") = {} THEN IF kind.text \in Primitives THEN <<kind.text>> ELSE <<>>
     ELSE IF ~once(of("value")) THEN <<>>
     ELSE IF kind.text \notin Primitives THEN <<kind.text, value>>
     ELSE IF derived /\ value.is = "null" THEN <<kind.text>> ELSE <<>>

ReadStoredType(json, path, below) ==
  LET form == StoredForm(json, path)
      of(kind) == below[form[2]][kind][path]
  IN IF form = <<>> THEN Bad("invalid_type")
     ELSE IF Len(form) = 1 THEN Good(Type(form[1], <<>>, <<>>))
     ELSE IF form[1] \in Collections
       THEN Then(of("storedType"), LAMBDA item : Type(form[1], <<item>>, <<>>))
     ELSE IF form[1] = "object"
       THEN Then(of("storedAttributes"), LAMBDA fields : Type("object", <<>>, fields))
     ELSE IF form[1] = "tuple" THEN of("storedTypes")
     ELSE Bad("unknown_variant")

ReadStoredTypes(json, path, below) ==
  LET results == [i \in DOMAIN json.items |-> below[json.items[i]]["storedType"][path]]
      failing == {i \in DOMAIN results : results[i].error # <<>>}
  IN IF json.is # "array" THEN Bad("invalid_type")
     ELSE IF failing # {} THEN results[Min(failing)]
     ELSE Good(AsTuple([i \in DOMAIN results |-> results[i].value]))

Some(value) == <<value>>
ReadNode(kind, json, path, below) ==
  CASE kind \in Scalars -> ReadScalar(kind, json)
    [] kind \in DOMAIN Seeds -> ReadFields(kind, json, path, below)
    [] kind \in DOMAIN MapSeeds -> ReadMap(kind, json, path, below)
    [] kind = "type" -> ReadType(json, path, below)
    [] kind = "maybeType" ->
         IF json.is = "null" THEN Good(<<>>) ELSE Then(ReadType(json, path, below), Some)
    [] kind = "objectType" -> ReadObjectType(json, path, below)
    [] kind = "tupleType" -> ReadTupleType(json, path, below)
    [] kind = "maybeNestedType" ->
         IF json.is = "null" THEN Good(<<>>) ELSE Then(ReadFields("nestedType", json, path, below), Some)
    [] kind = "storedType" -> ReadStoredType(json, path, below)
    [] kind = "storedTypes" -> ReadStoredTypes(json, path, below)

Read[json \in AnyJson] ==
  LET below == [inside \in Children(json) |-> Read[inside]]
  IN [kind \in ReadKinds |-> [path \in Paths |-> ReadNode(kind, json, path, below)]]

-----------------------------------------------------------------------------
\* RawDocument::normalized.
NormalizedDocument(raw) ==
  IF raw.format_version \notin Supported THEN Wrong(<<>>, "unsupported_format")
  ELSE IF raw.providers = <<>> THEN Wrong(<<>>, "missing_provider")
  ELSE LET provider == raw.providers[1].result.value
           resources == FirstProblem(provider.resources)
           data == FirstProblem(provider.data_sources)
       IN IF ~Usable(provider.config) THEN provider.config
          ELSE IF ~Usable(resources) THEN resources
          ELSE Then(data, LAMBDA d : [source |-> Request.source, version |-> Request.version,
                                      provider_config |-> provider.config.value,
                                      resources |-> resources.value, data_sources |-> d])

\* normalize_schema.
NormalizeSchema(json) ==
  LET document == Read[json]["document"][<<>>] IN
  IF document.error # <<>> THEN document ELSE NormalizedDocument(document.value.raw[1])

SchemaFile(format, result) == [format |-> format, result |-> result]

\* Decoding a file as each format in turn.
ReadTwice(json) ==
  LET stored == Read[json]["derived"][Derived] IN
  IF stored.error = <<>> THEN SchemaFile("normalized", Good(stored.value.normalized[1]))
  ELSE SchemaFile("raw", NormalizeSchema(json))

\* Mutant: a document with the fields of both formats is taken for raw.
RawWins(json) ==
  LET both == Read[json]["either"][<<>>] IN
  IF both.error # <<>> THEN ReadTwice(json)
  ELSE IF both.value.raw # <<>> THEN SchemaFile("raw", NormalizedDocument(both.value.raw[1]))
  ELSE IF both.value.normalized # <<>> THEN SchemaFile("normalized", Good(both.value.normalized[1]))
  ELSE ReadTwice(json)

\* read_schema_file.
ReadSchemaFile(json) ==
  LET both == Read[json]["either"][<<>>] IN
  IF both.error # <<>> THEN ReadTwice(json)
  ELSE IF both.value.normalized # <<>> THEN SchemaFile("normalized", Good(both.value.normalized[1]))
  ELSE IF both.value.raw # <<>> THEN SchemaFile("raw", NormalizedDocument(both.value.raw[1]))
  ELSE ReadTwice(json)
=============================================================================
