------------------------------ MODULE Lowering ------------------------------
(***************************************************************************)
(* Lowering a document to OpenTofu's JSON syntax (crates/opentofu).  A     *)
(* text is a sequence of tokens: names are single tokens, and what the     *)
(* syntax gives a meaning is spelled character by character, because       *)
(* escaping is about characters.                                           *)
(***************************************************************************)
EXTENDS GraphDocument

\* Mutant of EscapeTemplate: directives are not escaped.
EscapeInterpolations(text) ==
  FlattenSeq([i \in DOMAIN text |->
    IF text[i] = "$" /\ i < Len(text) /\ text[i + 1] = "{"
      THEN <<"$", "$">> ELSE <<text[i]>>])

\* escape_template.  The first character decides: an opening mark is preceded by
\* its own first character again.
EscapeTemplate(text) ==
  FlattenSeq([i \in DOMAIN text |->
    IF /\ text[i] \in {"$", "%"} /\ i < Len(text) /\ text[i + 1] = "{"
      THEN <<text[i], text[i]>> ELSE <<text[i]>>])

\* quote: serde_json's escapes for the characters used here.
Quote(text) ==
  <<"\"">> \o FlattenSeq([i \in DOMAIN text |->
                IF text[i] \in {"\"", "\\"} THEN <<"\\", text[i]>> ELSE <<text[i]>>])
           \o <<"\"">>

Joined(texts) == FlattenSeq([i \in DOMAIN texts |->
                   IF i = 1 THEN texts[i] ELSE <<",">> \o texts[i]])

Dotted(names) == FlattenSeq([i \in DOMAIN names |-> <<".", names[i]>>])

AddressText(at) == (IF at.managed THEN <<>> ELSE <<"data", ".">>) \o <<at.type, ".", at.name>>

SecretVariable(name) == "inframe_secret_" \o name

\* render_expression, render_literal, render_list and render_object of a node,
\* given the texts of the expressions in it.
TemplateText(e, rendered) ==
  FlattenSeq([i \in DOMAIN e.sub |->
    IF e.sub[i].kind = "string" THEN EscapeTemplate(e.sub[i].names)
    ELSE <<"$", "{">> \o rendered[e.sub[i].sub[1]] \o <<"}">>])
RenderNode(e, rendered) ==
  LET part(i) == rendered[e.sub[i]] IN
  CASE e.kind = "string" -> Quote(EscapeTemplate(e.names))
    [] e.kind = "scalar" -> e.names
    [] e.kind \in {"list", "array"} ->
         <<"[">> \o Joined([i \in DOMAIN e.sub |-> part(i)]) \o <<"]">>
    [] e.kind \in {"map", "object"} ->
         <<"{">> \o Joined([i \in DOMAIN Values(e) |-> part(2 * i - 1) \o <<"=">> \o part(2 * i)])
                 \o <<"}">>
    [] e.kind \in {"ref", "dataRef"} -> AddressText(e.at) \o Dotted(e.names)
    [] e.kind = "index" -> part(1) \o <<"[">> \o part(2) \o <<"]">>
    [] e.kind = "attribute" -> part(1) \o Dotted(e.names)
    [] e.kind = "splat" -> part(1) \o <<"[", "*", "]">>
    [] e.kind = "conditional" -> part(1) \o <<"?">> \o part(2) \o <<":">> \o part(3)
    [] e.kind = "function" ->
         e.names \o <<"(">> \o Joined([i \in DOMAIN e.sub |-> part(i)]) \o <<")">>
    [] e.kind = "template" -> Quote(TemplateText(e, rendered))
    [] e.kind = "secret" -> <<"var", ".", SecretVariable(e.names[1])>>
    [] e.kind = "raw" -> e.names

Rendered[e \in Expr] == RenderNode(e, Rendered)

\* lower_expr and escape_literal: JSON with a template in every string.  A JSON
\* value is a node too: list, map, scalar, or string holding the template's text.
LowerNode(e, lowered) ==
  LET parts == [i \in DOMAIN e.sub |-> lowered[e.sub[i]]] IN
  CASE e.kind = "scalar" -> e
    [] e.kind = "string" -> String(EscapeTemplate(e.names))
    [] e.kind \in {"list", "array"} -> Of("list", parts)
    [] e.kind \in {"map", "object"} -> Of("map", parts)
    [] e.kind = "template" -> String(TemplateText(e, Rendered))
    [] OTHER -> String(<<"$", "{">> \o Rendered[e] \o <<"}">>)

Lowered[e \in Expr] == LowerNode(e, Lowered)

\* A map from the keys of an object node to the lowered values.
LowerArguments(arguments) ==
  [key \in {Keys(arguments)[i][1] : i \in DOMAIN Keys(arguments)} |->
     Lowered[Value(arguments, CHOOSE i \in DOMAIN Keys(arguments) : Keys(arguments)[i] = <<key>>)]]

\* The body of a block: meta-arguments are inserted after the arguments.
LowerBlock(block) ==
  LET meta == (IF block.dependsOn = <<>> THEN {} ELSE {"depends_on"})
                \cup (IF block.provider = <<>> THEN {} ELSE {"provider"})
                \cup (IF block.triggers = <<>> THEN {} ELSE {"lifecycle"})
      arguments == LowerArguments(block.arguments)
  IN [arguments |-> Restrict(arguments, DOMAIN arguments \ meta),
      dependsOn |-> block.dependsOn, provider |-> block.provider, triggers |-> block.triggers]

\* The body of a provider: so is the alias.
LowerConfig(setup) ==
  LET arguments == LowerArguments(setup.arguments)
      meta == IF setup.alias = <<>> THEN {} ELSE {"alias"}
  IN Restrict(arguments, DOMAIN arguments \ meta)

\* The map of maps of blocks by type and name.
LowerBlocks(blocks) ==
  [at \in {b.at : b \in ToSet(blocks)} |->
     LowerBlock(blocks[SelectLastInSeq(blocks, LAMBDA b : b.at = at)])]

EmptyRaw(e) == \E n \in ToSet(Visited(e)) : n.kind = "raw" /\ n.names = <<>>

\* lower: an error, or the configuration it writes.
Lower(doc) ==
  IF ~Valid(doc) THEN [error |-> "InvalidGraph"]
  ELSE IF doc.stacks # <<>> THEN [error |-> "UnresolvedStackReference"]
  ELSE IF \E e \in Expressions(doc) : EmptyRaw(e) THEN [error |-> "EmptyRawExpression"]
  ELSE
    [error |-> "",
     required |-> ToSet(doc.required),
     variables |-> {SecretVariable(name) : name \in DocumentSecrets(doc)},
     providers |-> [i \in DOMAIN doc.configs |->
                      [name |-> ConfigAddress(doc.configs[i]),
                       arguments |-> LowerConfig(doc.configs[i])]],
     blocks |-> LowerBlocks(Blocks(doc)),
     outputs |-> [name \in {o.name : o \in ToSet(doc.outputs)} |->
                    Lowered[doc.outputs[SelectLastInSeq(doc.outputs, LAMBDA o : o.name = name)].value]],
     moved |-> doc.moves,
     imports |-> [i \in DOMAIN doc.imports |-> doc.imports[i].to]]

=============================================================================
