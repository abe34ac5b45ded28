--------------------------- MODULE MCProviderRead ---------------------------
(***************************************************************************)
(* All texts of a few bytes, and schema documents in families: cty types,  *)
(* documents with a problem in one or two places, files of either format,  *)
(* and nested blocks and attributes of many shapes.                        *)
(***************************************************************************)
EXTENDS ProviderRead

MCOrder == <<"a", "a_b", "b", "x_a", "x_b", "x_y_a">>
MCMatching == <<"o/x-y", "r/x-y">>
MCSupported == {"1.0", "1.2"}
MCRequest == [source |-> "o/x-y", version |-> "3"]
MCWords == "a" :> <<"a">> @@ "a_b" :> <<"a", "b">> @@ "b" :> <<"b">> @@ "x_a" :> <<"x", "a">>
             @@ "x_b" :> <<"x", "b">> @@ "x_y_a" :> <<"x", "y", "a">>
MCNative == <<"x", "y">>
MCReservedTypeNames == {<<"b">>}

Texts == UNION {[1..n -> Bytes] : n \in 0..5}

-----------------------------------------------------------------------------
Str == Text("string")
Attr(type) == Object(Field("type", type) \o Field("required", True))
Flagged(type, flag) == Object(Field("type", type) \o Field(flag, True))
Nest(mode, attributes) ==
  Object(Field("nested_type", Object(Field("nesting_mode", Text(mode)) \o Field("attributes", Object(attributes))))
           \o Field("optional", True))
Computed(mode, attributes) ==
  Object(Field("nested_type", Object(Field("attributes", Object(attributes)) \o Field("nesting_mode", Text(mode))))
           \o Field("computed", True))
BlockOf(attributes, blocks) ==
  Object(Field("attributes", Object(attributes)) \o Field("block_types", Object(blocks)))
Plain == BlockOf(Field("a", Attr(Str)), <<>>)
Sub(mode, bounds, block) == Object(Field("nesting_mode", Text(mode)) \o bounds \o Field("block", block))
ResourceOf(block) == Object(Field("block", block))
ProviderOf(config, resources, data) ==
  Object(Field("provider", ResourceOf(config)) \o Field("resource_schemas", Object(resources))
           \o Field("data_source_schemas", Object(data)))
DocumentOf(format, providers) ==
  Object(Field("format_version", Text(format)) \o Field("provider_schemas", Object(providers)))
Providing(resources) == DocumentOf("1.0", Field("r/x-y", ProviderOf(Plain, resources, <<>>)))
With(block) == Providing(Field("x_a", ResourceOf(block)))

\* Every cty type of two levels, and what is not one.
Shallow == {Str, Text("dynamic"), Text("zonk"), Number(1), Array(<<>>), Array(<<Number(1), Str>>),
            Array(<<Text("list")>>), Array(<<Text("zonk"), Str>>), Array(<<Text("object"), Str>>),
            Array(<<Text("tuple"), Object(<<>>)>>), Null}
Deeper == {Array(<<Text(c), t>>) : c \in {"list", "set", "map"}, t \in Shallow}
            \cup {Array(<<Text("tuple"), Array(<<s, t>>)>>) : s, t \in Shallow}
            \cup {Array(<<Text("object"), Object(Field(k, s) \o Field("a", t) \o Field("b", u))>>) :
                    k \in {"a", "b", "a_b"}, s, t \in {Str, Text("zonk"), Array(<<>>)},
                    u \in {Str, Text("zonk")}}
Types == {With(BlockOf(Field("b", Attr(t)) \o Field("a", u), <<>>)) :
            t \in Shallow \cup Deeper, u \in {Attr(Str), Object(<<>>), Object(Field("type", True))}}

\* Attributes and nested blocks that are right, wrong in the schema, or not JSON of
\* their kind.
Attributes ==
  {Attr(Str), Attr(Text("zonk")), Object(Field("type", Str) \o Field("type", Str)),
   Object(Field("type", Null) \o Field("nested_type", Null)), Flagged(Str, "computed"),
   Object(Field("type", Text("zonk")) \o Field("required", Null)), Nest("single", <<>>),
   Nest("zonk", Field("b", Attr(Text("zonk")))), Computed("list", Field("b", Attr(Text("zonk")))),
   Object(Field("nested_type", Object(Field("attributes", Object(<<>>)))))}
NestedBlocks ==
  {Sub("list", <<>>, Plain), Sub("zonk", <<>>, BlockOf(Field("a", Object(<<>>)), <<>>)),
   Sub("set", Field("min_items", Null), BlockOf(Field("a", Object(<<>>)), <<>>)),
   Sub("zonk", Field("max_items", Str), Plain), Object(Field("nesting_mode", Text("list"))),
   Sub("map", Field("max_items", Number(1)), Object(Field("attributes", Object(<<>>))))}
Names2 == {<<"a", "b">>, <<"b", "a">>, <<"a", "a">>}
ProblemTrees ==
  {With(BlockOf(Field(n[1], p) \o Field(n[2], q), Field("a_b", r))) :
     n \in Names2, p, q \in Attributes, r \in NestedBlocks}
    \cup {With(BlockOf(Field("b", p), Field(n[1], q) \o Field(n[2], r))) :
            n \in Names2, p \in {Attr(Str), Attr(Text("zonk"))}, q, r \in NestedBlocks}

\* Problems in different parts of a document, in any order of its fields.
Faulty == BlockOf(Field("a", Object(<<>>)), <<>>)
Broken == BlockOf(Field("a", True), <<>>)
Blocks3 == {Plain, Faulty, Broken}
Parts == {ProviderOf(c, Field(n[1], ResourceOf(p)) \o Field(n[2], ResourceOf(Plain)), Field("x_b", ResourceOf(d))) :
            n \in {<<"x_a", "x_b">>, <<"x_b", "x_a">>, <<"x_a", "x_a">>}, c, p, d \in Blocks3}
           \cup {Object(Field("resource_schemas", Object(Field("x_b", ResourceOf(p)) \o Field("x_a", ResourceOf(q))))
                          \o Field("provider", ResourceOf(c))) : p, q, c \in Blocks3}
           \cup {Object(<<>>)}
Documents ==
  {DocumentOf(f, Field(a, p)) : f \in {"1.0", "2.0"}, a \in {"r/x-y", "o/z"}, p \in Parts}
    \cup {Object(Field("provider_schemas", Object(Field("r/x-y", ProviderOf(p, <<>>, <<>>)) \o Field(a, ProviderOf(q, <<>>, <<>>))))
                   \o f) : p, q \in Blocks3, a \in {"r/x-y", "o/x-y", "o/z"},
            f \in {<<>>, Field("format_version", Text("1.2")), Field("format_version", Null),
                   Field("format_version", Text("1.2")) \o Field("format_version", Text("1.2"))}}

-----------------------------------------------------------------------------
\* Shapes: nested blocks of every mode and bound, inside one another, beside and
\* below nested attributes of the same fields.
Bounded == {<<>>, Field("min_items", Number(1)), Field("max_items", Number(1)),
            Field("min_items", Number(1)) \o Field("max_items", Number(1)),
            Field("min_items", Number(0)) \o Field("max_items", Number(2)),
            Field("min_items", Number(2)) \o Field("max_items", Number(3))}
Subs(block) ==
  {Sub(mode, bounds, block) : mode \in {"list", "set"}, bounds \in Bounded}
    \cup {Sub("single", b, block) : b \in {<<>>, Field("min_items", Number(1)) \o Field("max_items", Number(1))}}
    \cup {Sub("group", <<>>, block), Sub("map", <<>>, block)}
Inside == {Plain, BlockOf(<<>>, <<>>)}
Nestings ==
  {BlockOf(<<>>, Field("b", outer)) :
     outer \in UNION {Subs(BlockOf(Field("a", Attr(Str)), Field("a_b", inner))) : inner \in Subs(Plain)}}
Shared ==
  {BlockOf(Field("a", p), Field("a_b", q) \o Field("b", r)) :
     p \in {Attr(Str), Nest("list", Field("a", Attr(Str))), Computed("map", Field("a", Attr(Str))),
            Computed("set", Field("b", Computed("list", Field("a", Attr(Str))))),
            Flagged(Array(<<Text("list"), Array(<<Text("object"), Object(Field("a", Str))>>)>>), "optional"),
            Flagged(Array(<<Text("list"), Array(<<Text("map"), Array(<<Text("object"), Object(Field("a", Str))>>)>>)>>),
                    "computed")},
     q, r \in UNION {{Sub("list", <<>>, block), Sub("single", Field("min_items", Number(1)), block)} :
                       block \in {Plain, BlockOf(Field("a", Nest("single", Field("a", Attr(Str)))), <<>>),
                                  BlockOf(<<>>, Field("b", Sub("set", Field("min_items", Number(2)), Plain)))}}}
Ambiguous == {BlockOf(<<>>, Field("a", Sub("single", <<>>, BlockOf(<<>>, Field("b", Sub("single", <<>>, Plain)))))
                              \o Field("a_b", Sub("single", <<>>, BlockOf(<<>>, <<>>))))}
Items3 == {<<"x_a", "x_b">>, <<"x_y_a", "x_a">>, <<"a", "x_a">>, <<"a", "b">>}
Shapes == {With(block) : block \in Nestings \cup Shared \cup Ambiguous}
            \cup {Providing(Field(n[1], ResourceOf(Plain)) \o Field(n[2], ResourceOf(Plain))) : n \in Items3}

-----------------------------------------------------------------------------
\* Stored schemas, as they are written and as others may write them.
Stored(type) ==
  Object(Field("type", type) \o Field("required", True) \o Field("optional", False)
           \o Field("computed", False) \o Field("sensitive", False))
Kind(kind, value) == Object(Field("kind", Text(kind)) \o value)
StoredBlock(attributes, blocks) == Object(Field("attributes", Object(attributes)) \o Field("blocks", Object(blocks)))
StoredTypes ==
  {Kind("string", <<>>), Kind("string", Field("value", Null)), Kind("zonk", <<>>), Kind("list", <<>>),
   Kind("list", Field("value", Kind("bool", <<>>))), Object(Field("value", Kind("bool", <<>>)) \o Field("kind", Text("set"))),
   Kind("tuple", Field("value", Array(<<Kind("bool", <<>>), Kind("zonk", <<>>)>>))),
   Kind("tuple", Field("value", Array(<<Kind("bool", <<>>)>>))), Str,
   Object(Field("kind", Text("bool")) \o Field("extra", Null)),
   Kind("object", Field("value", Object(Field("b", Stored(Kind("number", <<>>))) \o Field("a", Stored(Kind("bool", <<>>))))))}
StoredBlocks ==
  {StoredBlock(Field("b", Stored(t)) \o Field("a", Stored(Kind("bool", <<>>))), <<>>) : t \in StoredTypes}
    \cup {StoredBlock(<<>>, Field("b", Sub(m, b, StoredBlock(<<>>, <<>>)))) :
            m \in {"set", "zonk"}, b \in {<<>>, Field("max_items", Number(1))}}
    \cup {StoredBlock(Field("a", Object(Field("type", Kind("bool", <<>>)))), <<>>), Plain}
StoredDocument(block, version) ==
  Field("source", Text("o/x-y")) \o Field("version", Text(version)) \o Field("provider_config", block)
    \o Field("resources", Object(Field("x_a", ResourceOf(block)))) \o Field("data_sources", Object(<<>>))
RawFields == {<<>>, Field("format_version", Text("1.0")), Field("format_version", Number(1)),
              DocumentOf("1.0", Field("r/x-y", ProviderOf(Plain, <<>>, <<>>))).entries,
              DocumentOf("2.0", Field("r/x-y", ProviderOf(Plain, <<>>, <<>>))).entries,
              DocumentOf("1.0", Field("r/x-y", ProviderOf(Faulty, <<>>, <<>>))).entries,
              DocumentOf("1.0", Field("r/x-y", ProviderOf(Broken, <<>>, <<>>))).entries}
Normalized ==
  {Object(StoredDocument(b, v) \o raw) : b \in StoredBlocks, v \in {"3", "4"}, raw \in RawFields}
    \cup {Object(Tail(StoredDocument(b, "3")) \o raw) : b \in StoredBlocks, raw \in RawFields}

\* Every family of documents comes with a text of its own, and the texts with none.
Holding(bytes, trees) == [text: {bytes}, tree: trees]
MCFiles == UNION {[text: Texts, tree: {Null}], Holding(<<Mark>>, Types), Holding(<<Atom>>, ProblemTrees),
                  Holding(<<Quote>>, Documents), Holding(<<Space>>, Shapes), Holding(<<Backslash>>, Normalized)}
MCChunks == 1..3
=============================================================================
