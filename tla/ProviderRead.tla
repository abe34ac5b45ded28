---------------------------- MODULE ProviderRead ----------------------------
(***************************************************************************)
(* From a provider's schema to its Lean modules: the rest of               *)
(* generate_providers (crates/cli/src/main.rs) around the derivation and   *)
(* the emitter, once the schema is loaded.                                 *)
(***************************************************************************)
EXTENDS ProviderLoad, LeanShapes

VARIABLES bindings, modules   \* what was derived and emitted, once it was

vars == <<load, bindings, modules>>

Init == LoadInit /\ bindings = <<>> /\ modules = <<>>

Load == LoadNext /\ UNCHANGED <<bindings, modules>>

Derive ==
  /\ stage = "derive"
  /\ LET derived == DeriveBindings(Schema) IN
       /\ bindings' = <<derived>>
       /\ stage' = IF Usable(derived) THEN "emit" ELSE "failed"
  /\ UNCHANGED <<reader, from, tree, outcome, modules>>

\* The modules of the Lean package: the provider's, and one per item.
Module(schema, records) == [schema |-> schema, records |-> records]
Emit ==
  /\ stage = "emit"
  /\ LET b == bindings[1].value
         items(list, schemas, kind) ==
           [i \in DOMAIN list |-> Module(schemas[i].value, RenderItem(list[i], kind))]
     IN modules' = <<Module(Schema.provider_config, RenderProvider(b.provider))>>
                     \o items(b.resources, Schema.resources, "resource")
                     \o items(b.data_sources, Schema.data_sources, "data")
  /\ stage' = "done"
  /\ UNCHANGED <<reader, from, tree, outcome, bindings>>

Next == Load \/ Derive \/ Emit

Spec == Init /\ [][Next]_vars

-----------------------------------------------------------------------------
\* No two nested types of a module have one name, and no two fields of a record.
NamesApart(records) ==
  /\ \A i, j \in DOMAIN records :
       records[i].name = records[j].name /\ records[i].part = records[j].part => i = j
  /\ \A i \in DOMAIN records : LET of == records[i].of IN
       \A f, g \in DOMAIN of : of[f].public_name = of[g].public_name => f = g

\* Every record a field refers to is declared before it, with the fields of that
\* field's object, wherever the shape was met first (Shapes).  Names that collide
\* are a module Lean refuses.
ShapesDeclared ==
  \A m \in DOMAIN modules : LET records == modules[m].records IN
    NamesApart(records) =>
      \A i \in DOMAIN records : \A k \in DOMAIN records[i].members :
        LET member == records[i].members[k] IN
        member.type.part \in {"Args", "Attributes"} =>
          \E j \in 1..(i - 1) : /\ records[j].name = member.type.name
                                /\ records[j].part = member.type.part
                                /\ records[j].of = ObjectFields(member.field.type)[1]

\* How many entries of a nested block a schema allows, out of a few.
Few == 0..3
Bound(option, default) == IF option = <<>> THEN default ELSE option[1]
Allowed(nested) ==
  Bound(nested.min_items, 0)..
    Bound(nested.max_items, IF nested.nesting_mode \in {"single", "group"} THEN 1 ELSE 3)

\* How many a record lets a program write where its blocksInRange is demanded.
Written(record, member, demanded) ==
  LET field == member.field
      checks == SelectSeq(record.checks, LAMBDA c : c.field = field.public_name)
      holds(n) == CASE member.type.layers = <<>> -> n = 1
                    [] member.type.layers = <<"Option">> -> n <= 1
                    [] OTHER -> TRUE
      passes(n, c) == CASE c.what = "at least" -> n >= c.count
                        [] c.what = "at most" -> n <= c.count
                        [] OTHER -> TRUE
  IN {n \in Few : holds(n) /\ (demanded => \A i \in DOMAIN checks : passes(n, checks[i]))}

RecordOf(records, name) == CHOOSE r \in ToSet(records) : r.name = name /\ r.part = "Args"
RECURSIVE Within(_, _, _, _)
Within(records, record, block, demanded) ==
  \A i \in DOMAIN block.blocks :
    LET nested == block.blocks[i].value
        member == CHOOSE m \in ToSet(record.members) :
                    m.field.provider_name = block.blocks[i].name /\ m.field.block
        below == RecordOf(records, member.type.name)
        passedOn == \E k \in DOMAIN record.checks :
                      record.checks[k].field = member.field.public_name /\ record.checks[k].what = "entries"
    IN /\ nested.nesting_mode # "map" => Written(record, member, demanded) = Allowed(nested)
       /\ Within(records, below, nested.block, demanded /\ passedOn)

\* A program that compiles writes as many entries of every nested block, at every
\* depth, as the provider accepts, and can write any such number
\* (render_args_structure, block_constraints, block_obligation).  The entries of a
\* map of blocks are not counted; the blocks inside them are.
BlocksWithinSchema ==
  \A m \in DOMAIN modules : LET records == modules[m].records IN
    NamesApart(records) => Within(records, RecordOf(records, Root), modules[m].schema, Demanded(records))
=============================================================================
