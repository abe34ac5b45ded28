------------------------------ MODULE Bindings ------------------------------
(***************************************************************************)
(* Deriving the bindings of a provider from its normalized schema          *)
(* (crates/binding-model/src/lib.rs).  A schema name is a member of Order; *)
(* a public name is the sequence of the words it is written with, so that  *)
(* capitalising and concatenating words is concatenating sequences.        *)
(***************************************************************************)
EXTENDS SchemaDecode

CONSTANTS Words,  \* the words of each name: what "_" and other marks separate
          Native  \* the parts of the provider's own name that "-" separates

\* object_fields: the fields behind any number of collection layers, if any.
RECURSIVE ObjectFields(_)
ObjectFields(type) ==
  CASE type.kind = "object" -> <<type.fields>>
    [] type.kind \in {"list", "set", "map"} -> ObjectFields(type.items[1])
    [] OTHER -> <<>>

StripsFrom(candidate, name) ==
  Len(Words[name]) > Len(candidate) /\ SubSeq(Words[name], 1, Len(candidate)) = candidate

\* infer_type_prefix: the whole name with its dashes (one word, if it has none), with
\* underscores for them, then ever fewer of its parts.
InferTypePrefix(types) ==
  LET candidates == (IF Len(Native) = 1 THEN <<Native>> ELSE <<>>)
                      \o [i \in DOMAIN Native |-> SubSeq(Native, 1, Len(Native) + 1 - i)]
      fitting == SelectSeq(candidates, LAMBDA c : \E name \in types : StripsFrom(c, name))
  IN IF fitting = <<>> THEN Native ELSE Head(fitting)

ItemName(name, prefix) ==
  IF StripsFrom(prefix, name) THEN SubSeq(Words[name], Len(prefix) + 1, Len(Words[name]))
  ELSE Words[name]

BindingField(name, type, required, optional, computed) ==
  [provider_name |-> name, public_name |-> Words[name], type |-> type, required |-> required,
   optional |-> optional, computed |-> computed, block |-> FALSE, min_items |-> <<>>,
   max_items |-> <<>>]

\* Deriver::attribute, binding_type and object: a nested object is the list of its
\* fields in schema order.
RECURSIVE BindingType(_)
Attribute(entry) ==
  BindingField(entry.name, BindingType(entry.value.type), entry.value.required,
               entry.value.optional, entry.value.computed)
BindingType(type) ==
  [type EXCEPT !.items = [i \in DOMAIN @ |-> BindingType(@[i])],
               !.fields = [i \in DOMAIN @ |-> Attribute(@[i])]]

\* Deriver::fields: of a block, its attributes and nested blocks by name.
RECURSIVE Fields(_)
MoreThanZero(count) == SelectSeq(count, LAMBDA n : n > 0)
Nested(entry) ==
  LET nested == entry.value
      object == Type("object", <<>>, Fields(nested.block))
      atLeastOne == MoreThanZero(nested.min_items) # <<>>
  IN [BindingField(entry.name, InMode(nested.nesting_mode, object), atLeastOne, ~atLeastOne, FALSE)
        EXCEPT !.block = TRUE, !.min_items = MoreThanZero(nested.min_items),
               !.max_items = nested.max_items]
Fields(block) ==
  FlattenSeq([k \in DOMAIN Order |->
    LET named(entries) == SelectSeq(entries, LAMBDA e : e.name = Order[k])
        attributes == named(block.attributes)
        blocks == named(block.blocks)
    IN [i \in DOMAIN attributes |-> Attribute(attributes[i])]
         \o [i \in DOMAIN blocks |-> Nested(blocks[i])]])

\* Deriver::items.
Items(schemas, prefix) ==
  LET name(i) == ItemName(schemas[i].name, prefix)
      item(i) == [provider_type |-> schemas[i].name, public_name |-> name(i),
                  fields |-> Fields(schemas[i].value)]
  IN IF \E i, j \in DOMAIN schemas : i < j /\ name(i) = name(j) THEN Bad("name collision")
     ELSE Good([i \in DOMAIN schemas |-> item(i)])

\* derive_bindings_with, with no prefix given.
DeriveBindings(schema) ==
  LET types(schemas) == {schemas[i].name : i \in DOMAIN schemas}
      prefix == InferTypePrefix(types(schema.resources) \cup types(schema.data_sources))
      resources == Items(schema.resources, prefix)
      data == Items(schema.data_sources, prefix)
  IN IF Native = <<>> THEN Bad("invalid provider name")
     ELSE IF ~Usable(resources) THEN resources
     ELSE Then(data, LAMBDA d : [provider |-> Fields(schema.provider_config),
                                 resources |-> resources.value, data_sources |-> d])
=============================================================================
