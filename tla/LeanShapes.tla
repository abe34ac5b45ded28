----------------------------- MODULE LeanShapes -----------------------------
(***************************************************************************)
(* The records of a generated Lean module (crates/emit-lean/src/lib.rs): a *)
(* record per shape of nested object, declared before the records that use *)
(* it, holding as many entries of a nested block as the schema allows.  A  *)
(* path of public names stands for its node in the trie of paths.          *)
(***************************************************************************)
EXTENDS Bindings

CONSTANT ReservedTypeNames  \* RESERVED_TYPE_NAMES, as sequences of words

IsInput(field) == field.required \/ field.optional

\* nested_container: how an input block is nested, if it is one.
NestedContainer(type) ==
  CASE type.kind = "object" -> "single"
    [] type.kind \in {"list", "set"} /\ type.items[1].kind = "object" -> "array"
    [] type.kind = "map" /\ type.items[1].kind = "object" -> "map"
    [] OTHER -> "none"

\* multiplicity, with its bounds only where there is a list to bound.  Mutant first:
\* a block of at most one entry is taken for one of exactly one.
MultiplicityAsOne(field) ==
  [holds |-> IF field.max_items = <<1>> THEN "one" ELSE "many", min |-> field.min_items, max |-> field.max_items]
Multiplicity(field) ==
  [holds |-> IF field.max_items # <<1>> THEN "many" ELSE IF field.required THEN "one" ELSE "atMostOne",
   min |-> field.min_items, max |-> field.max_items]

NullableList(field) == ~field.block /\ ~field.required

SafeTypeName(name, reserved, suffix) ==
  IF name \in ReservedTypeNames \cup reserved THEN Append(name, suffix) ELSE name
NestedTypeName(path, reserved) == SafeTypeName(FlattenSeq(path), reserved, "block")

-----------------------------------------------------------------------------
\* Shapes: the nested types so far, and for each path the type declared at it.
NoShapes == [entries |-> <<>>, declared |-> <<>>]
Root == <<>>

\* Mutant: a computed-only shape takes the place of a builder's.
SameFields(entries, builder, fields) ==
  SelectSeq([i \in DOMAIN entries |-> i], LAMBDA i : entries[i].fields = fields)
SameShape(entries, builder, fields) ==
  SelectSeq([i \in DOMAIN entries |-> i],
            LAMBDA i : entries[i].fields = fields /\ entries[i].builder = builder)

\* Shapes::visit: the shapes below a field, then its own.
RECURSIVE Visit(_, _, _, _, _)
Visit(shapes, field, parent, parentBuilder, reserved) ==
  LET object == ObjectFields(field.type)
      fields == object[1]
      builder == parentBuilder /\ IsInput(field) /\ NestedContainer(field.type) # "none"
      node == Append(parent, field.public_name)
      below == FoldLeft(LAMBDA s, child : Visit(s, child, node, builder, reserved), shapes, fields)
      same == SameShape(below.entries, builder, fields)
      entry == [path |-> node, name |-> NestedTypeName(node, reserved), fields |-> fields,
                builder |-> builder]
  IN IF object = <<>> THEN shapes
     ELSE IF same # <<>> THEN [below EXCEPT !.declared = (node :> Head(same)) @@ @]
     ELSE [entries |-> Append(below.entries, entry),
           declared |-> (node :> Len(below.entries) + 1) @@ below.declared]

\* Shapes::collect.
Collect(fields, reserved) ==
  FoldLeft(LAMBDA s, field : Visit(s, field, Root, TRUE, reserved), NoShapes, fields)

\* Shapes::name: of the object behind a field of the record at `parent`.
ShapeName(shapes, parent, field) ==
  shapes.entries[shapes.declared[Append(parent, field.public_name)]].name

-----------------------------------------------------------------------------
\* A type as a field of a record names it: collections around a basic type, or
\* around the attributes or the arguments of a record.
Layered(layers, part, name) == [layers |-> layers, part |-> part, name |-> name]

\* render_type and render_hkd_type.
RECURSIVE RenderType(_, _, _, _)
RenderType(type, parent, field, shapes) ==
  LET inside == RenderType(type.items[1], parent, field, shapes) IN
  CASE type.kind \in {"list", "set"} -> [inside EXCEPT !.layers = <<"List">> \o @]
    [] type.kind = "map" -> [inside EXCEPT !.layers = <<"Map">> \o @]
    [] type.kind \in {"tuple", "dynamic"} -> Layered(<<>>, "Value", <<>>)
    [] type.kind = "object" -> Layered(<<>>, "Attributes", ShapeName(shapes, parent, field))
    [] OTHER -> Layered(<<>>, type.kind, <<>>)

Record(name, part, fields, members, checks) ==
  [name |-> name, part |-> part, of |-> fields, members |-> members, checks |-> checks]

\* render_attributes.
AttributesRecord(name, parent, fields, shapes) ==
  LET member(field) ==
        [field |-> field,
         type |-> [RenderType(field.type, parent, field, shapes) EXCEPT
                     !.layers = (IF field.required THEN <<>> ELSE <<"o">>) \o @]]
  IN Record(name, "Attributes", fields, [i \in DOMAIN fields |-> member(fields[i])], <<>>)

\* render_args_field_type.
ArgsFieldType(field, parent, shapes) ==
  LET container == NestedContainer(field.type)
      many == IF container = "map" THEN <<"Pairs">> ELSE <<"List">>
      holds == Multiplicity(field).holds
      layers == CASE container = "single" /\ field.required -> <<>>
                  [] container = "single" /\ ~field.required -> <<"Option">>
                  [] container = "array" /\ holds = "one" -> <<>>
                  [] container = "array" /\ holds = "atMostOne" -> <<"Option">>
                  [] container = "map" \/ holds = "many" ->
                       IF NullableList(field) THEN <<"Option">> \o many ELSE many
      basic == RenderType(field.type, parent, field, shapes)
  IN IF container # "none" THEN Layered(layers, "Args", ShapeName(shapes, parent, field))
     ELSE [basic EXCEPT !.layers = (IF field.required THEN <<"Input">> ELSE <<"Option", "Input">>) \o @]

\* block_constraints: what a field contributes to blocksInRange.  Mutant first: only
\* the bounds of its own list.
Check(field, what, count) == <<[field |-> field.public_name, what |-> what, count |-> count]>>
Bounds(field) ==
  IF NestedContainer(field.type) # "array" \/ Multiplicity(field).holds # "many" THEN <<>>
  ELSE (IF field.min_items = <<>> THEN <<>> ELSE Check(field, "at least", field.min_items[1]))
         \o (IF field.max_items = <<>> THEN <<>> ELSE Check(field, "at most", field.max_items[1]))
OwnConstraints(field, parent, shapes, ranged) ==
  IF NestedContainer(field.type) = "none" THEN <<>> ELSE Bounds(field)
BlockConstraints(field, parent, shapes, ranged) ==
  IF NestedContainer(field.type) = "none" THEN <<>>
  ELSE Bounds(field)
         \o (IF ShapeName(shapes, parent, field) \in ranged THEN Check(field, "entries", 0) ELSE <<>>)

\* render_args_structure, given the records that have blocksInRange.
ArgsRecord(name, parent, fields, shapes, ranged) ==
  LET inputs == SelectSeq(fields, IsInput)
      member(field) == [field |-> field, type |-> ArgsFieldType(field, parent, shapes)]
  IN Record(name, "Args", fields, [i \in DOMAIN inputs |-> member(inputs[i])],
            FlattenSeq([i \in DOMAIN inputs |-> BlockConstraints(inputs[i], parent, shapes, ranged)]))

\* The names of the argument records with a blocksInRange.
Ranged(records) ==
  {records[i].name : i \in {j \in DOMAIN records : records[j].part = "Args" /\ records[j].checks # <<>>}}

\* render_shapes.
RenderShapes(shapes) ==
  FoldLeft(LAMBDA records, shape :
             records
               \o <<AttributesRecord(shape.name, shape.path, shape.fields, shapes)>>
               \o (IF shape.builder
                     THEN <<ArgsRecord(shape.name, shape.path, shape.fields, shapes, Ranged(records))>>
                     ELSE <<>>),
           <<>>, shapes.entries)

\* render_item and, with no attributes of its own, render_provider.
ArgsOf(fields, reserved) ==
  LET shapes == Collect(fields, reserved)
      records == RenderShapes(shapes)
  IN [shapes |-> shapes,
      records |-> Append(records, ArgsRecord(Root, Root, fields, shapes, Ranged(records)))]
RenderProvider(fields) == ArgsOf(fields, {Append(Native, "provider")}).records
RenderItem(item, kind) ==
  LET node == Append(item.public_name, kind)
      handle == SafeTypeName(item.public_name, {node}, "handle")
      args == ArgsOf(item.fields, {handle, node})
  IN Append(args.records, AttributesRecord(Root, Root, item.fields, args.shapes))

\* block_obligation: the builders of a module demand the range of their arguments.
Demanded(records) == Root \in Ranged(records)
=============================================================================
