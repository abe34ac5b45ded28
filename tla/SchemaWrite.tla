---------------------------- MODULE SchemaWrite ----------------------------
(***************************************************************************)
(* Writing a normalized schema as JSON (canonical_json, of                 *)
(* crates/provider-schema/src/lib.rs), and deciding what is left out.      *)
(***************************************************************************)
EXTENDS SchemaDecode

\* Types and blocks: of all that nest at most MaxNesting deep, those inside another
\* nest one less.
NamedIn(values) == Seq([name : STRING, value : values])
Counts == {<<>>} \cup [1..1 -> Nat]
AttributesOver(nodes) == [type : nodes, required : BOOLEAN, optional : BOOLEAN, computed : BOOLEAN]
NestedOver(nodes) == [nesting_mode : Modes, min_items : Counts, max_items : Counts, block : nodes]
TypesOver(nodes) ==
  [kind : Primitives, items : {<<>>}, fields : {<<>>}]
    \cup [kind : Collections, items : [1..1 -> nodes], fields : {<<>>}]
    \cup [kind : {"object"}, items : {<<>>}, fields : NamedIn(AttributesOver(nodes))]
    \cup [kind : {"tuple"}, items : Seq(nodes), fields : {<<>>}]
BlocksOver(nodes) ==
  [attributes : NamedIn(AttributesOver(nodes)), blocks : NamedIn(NestedOver(nodes))]
SchemaNodes(nodes) == TypesOver(nodes) \cup BlocksOver(nodes)
SchemaTree[h \in 0..MaxNesting] == SchemaNodes(IF h = 0 THEN {} ELSE SchemaTree[h - 1])
AnyNode == SchemaTree[MaxNesting]

\* canonical_json: a schema as `provider inspect --output` writes it.  What is inside
\* a type or a block is written as `below` says.
Flag(value) == IF value THEN True ELSE False
MapJson(entries, Value(_)) ==
  Object([i \in DOMAIN entries |-> [key |-> entries[i].name, value |-> Value(entries[i].value)]])
AttributeJson(a, below) ==
  Object(Field("type", below[a.type]) \o Field("required", Flag(a.required))
           \o Field("optional", Flag(a.optional)) \o Field("computed", Flag(a.computed))
           \o Field("sensitive", False))
AttributesJson(attributes, below) == MapJson(attributes, LAMBDA a : AttributeJson(a, below))
Parameter(type, below) ==
  CASE type.kind \in Primitives -> <<>>
    [] type.kind \in Collections -> Field("value", below[type.items[1]])
    [] type.kind = "object" -> Field("value", AttributesJson(type.fields, below))
    [] type.kind = "tuple" -> Field("value", Array([i \in DOMAIN type.items |-> below[type.items[i]]]))
TypeJson(type, below) == Object(Field("kind", Text(type.kind)) \o Parameter(type, below))
\* Mutant: a bound of zero is left out like one that is not there.
GivenPositive(key, option) == IF option \in {<<>>, <<0>>} THEN <<>> ELSE Field(key, Number(option[1]))
Given(key, option) == IF option = <<>> THEN <<>> ELSE Field(key, Number(option[1]))
NestedBlockJson(b, below) ==
  Object(Field("nesting_mode", Text(b.nesting_mode)) \o Given("min_items", b.min_items)
           \o Given("max_items", b.max_items) \o Field("block", below[b.block]))
BlockJson(block, below) ==
  Object(Field("attributes", AttributesJson(block.attributes, below))
           \o Field("blocks", MapJson(block.blocks, LAMBDA b : NestedBlockJson(b, below))))
NodeJson[node \in AnyNode] ==
  IF "kind" \in DOMAIN node THEN TypeJson(node, NodeJson) ELSE BlockJson(node, NodeJson)
ResourceJson(block) == Object(Field("block", NodeJson[block]))
CanonicalJson(schema) ==
  Object(Field("source", Text(schema.source)) \o Field("version", Text(schema.version))
           \o Field("provider_config", NodeJson[schema.provider_config])
           \o Field("resources", MapJson(schema.resources, ResourceJson))
           \o Field("data_sources", MapJson(schema.data_sources, ResourceJson)))
=============================================================================
