------------------------------ MODULE Template ------------------------------
(***************************************************************************)
(* OpenTofu reading the texts that lowering writes, and what an expression *)
(* of the document denotes in the terms of such a reading.                 *)
(***************************************************************************)
EXTENDS Lowering

\* OpenTofu reading a template and the expressions in it (external: the native
\* syntax of HCL).  A reading is a node and the text after it; what it cannot
\* read is a node of its own.
Unreadable == Of("unreadable", <<>>)
Root(name) == Named("root", name, <<>>)
Starts(t, mark) == Len(t) >= Len(mark) /\ SubSeq(t, 1, Len(mark)) = mark
After(t, n) == SubSeq(t, n + 1, Len(t))
Reading(node, rest) == [node |-> node, rest |-> rest]

\* One character before the parts that follow it.
Before(character, r) ==
  IF r.node.sub # <<>> /\ r.node.sub[1].kind = "string"
    THEN Reading(Of("template", <<String(<<character>> \o r.node.sub[1].names)>> \o Tail(r.node.sub)), r.rest)
    ELSE Reading(Of("template", <<String(<<character>>)>> \o r.node.sub), r.rest)

RECURSIVE ReadParts(_, _), ReadExpression(_), ReadTerm(_), ReadSteps(_, _), ReadList(_, _)

\* The parts of a template, to the end of the text or to the closing quote.
ReadParts(t, quoted) ==
  IF t = <<>>
    THEN Reading(Of("template", IF quoted THEN <<Unreadable>> ELSE <<>>), t)
  ELSE IF quoted /\ t[1] = "\"" THEN Reading(Of("template", <<>>), Tail(t))
  ELSE IF Starts(t, <<"$", "$", "{">>) \/ Starts(t, <<"%", "%", "{">>)
    THEN Before(t[1], Before("{", ReadParts(After(t, 3), quoted)))
  ELSE IF Starts(t, <<"$", "{">>)
    THEN LET hole == ReadExpression(After(t, 2))
             rest == ReadParts(After(hole.rest, 1), quoted)
         IN Reading(Of("template", <<Of("hole", <<IF Starts(hole.rest, <<"}">>) THEN hole.node
                                                  ELSE Unreadable>>)>> \o rest.node.sub), rest.rest)
  ELSE IF Starts(t, <<"%", "{">>) THEN Reading(Of("template", <<Unreadable>>), <<>>)
  ELSE IF quoted /\ t[1] = "\\" /\ Len(t) > 1 THEN Before(t[2], ReadParts(After(t, 2), quoted))
  ELSE Before(t[1], ReadParts(Tail(t), quoted))

\* A template of nothing but text is a string; of one interpolation, its value.
Unwrapped(template) ==
  CASE template.sub = <<>> -> String(<<>>)
    [] Len(template.sub) = 1 /\ template.sub[1].kind = "string" -> template.sub[1]
    [] Len(template.sub) = 1 /\ template.sub[1].kind = "hole" -> template.sub[1].sub[1]
    [] OTHER -> template

\* Expressions separated by commas, and by "=" between a key and its value.
ReadList(t, close) ==
  IF Starts(t, <<close>>) THEN Reading(Of("array", <<>>), Tail(t))
  ELSE LET item == ReadExpression(t)
           more == Starts(item.rest, <<",">>) \/ Starts(item.rest, <<"=">>)
           rest == ReadList(After(item.rest, IF more THEN 1 ELSE 0), close)
       IN IF more \/ Starts(item.rest, <<close>>)
            THEN Reading(Of("array", <<item.node>> \o rest.node.sub), rest.rest)
            ELSE Reading(Of("array", <<Unreadable>>), <<>>)

ReadTerm(t) ==
  IF t = <<>> \/ t[1] \in {"\\", "$", "%", "}", "]", ")", ".", "?", ":", ",", "=", "*"}
    THEN Reading(Unreadable, <<>>)
  ELSE IF t[1] = "\"" THEN LET r == ReadParts(Tail(t), TRUE) IN Reading(Unwrapped(r.node), r.rest)
  ELSE IF t[1] = "[" THEN ReadList(Tail(t), "]")
  ELSE IF t[1] = "{" THEN LET r == ReadList(Tail(t), "}") IN Reading(Of("object", r.node.sub), r.rest)
  ELSE IF Starts(Tail(t), <<"(">>)
    THEN LET r == ReadList(After(t, 2), ")") IN Reading(Named("function", t[1], r.node.sub), r.rest)
  ELSE IF t[1] \in Identifiers THEN Reading(Root(t[1]), Tail(t))
  ELSE Reading(Named("scalar", t[1], <<>>), Tail(t))

\* What may follow a term: attributes, indices and splats.
ReadSteps(of, t) ==
  IF Starts(t, <<".">>) /\ Len(t) > 1 THEN ReadSteps(Named("attribute", t[2], <<of>>), After(t, 2))
  ELSE IF Starts(t, <<"[", "*", "]">>) THEN ReadSteps(Of("splat", <<of>>), After(t, 3))
  ELSE IF Starts(t, <<"[">>)
    THEN LET key == ReadExpression(Tail(t)) IN
         IF Starts(key.rest, <<"]">>)
           THEN ReadSteps(Of("index", <<of, key.node>>), Tail(key.rest))
           ELSE Reading(Unreadable, <<>>)
  ELSE Reading(of, t)

ReadExpression(t) ==
  LET term == ReadTerm(t)
      operand == ReadSteps(term.node, term.rest)
  IN IF ~Starts(operand.rest, <<"?">>) THEN operand
     ELSE LET yes == ReadExpression(Tail(operand.rest))
              no == ReadExpression(After(yes.rest, 1))
          IN Reading(Of("conditional",
                        <<operand.node, yes.node,
                          IF Starts(yes.rest, <<":">>) THEN no.node ELSE Unreadable>>), no.rest)

RECURSIVE ReadJson(_)
ReadJson(v) ==
  CASE v.kind = "string" -> Unwrapped(ReadParts(v.names, FALSE).node)
    [] v.kind = "scalar" -> v
    [] OTHER -> Of(IF v.kind = "list" THEN "array" ELSE "object",
                   [i \in DOMAIN v.sub |-> ReadJson(v.sub[i])])

-----------------------------------------------------------------------------
\* What a node of the document denotes, in the terms of a reading: references as
\* steps from a root, literals as expressions, adjacent text as one.
RECURSIVE Chain(_, _)
Chain(of, names) ==
  IF names = <<>> THEN of ELSE Chain(Named("attribute", Head(names), <<of>>), Tail(names))

MergedText(parts) ==
  FoldRight(LAMBDA part, merged :
              IF part.kind = "string" /\ part.names = <<>> THEN merged
              ELSE IF part.kind = "string" /\ merged # <<>> /\ merged[1].kind = "string"
                THEN <<String(part.names \o merged[1].names)>> \o Tail(merged)
              ELSE <<part>> \o merged,
            parts, <<>>)

RECURSIVE Denoted(_)
Denoted(e) ==
  LET sub == [i \in DOMAIN e.sub |-> Denoted(e.sub[i])] IN
  CASE e.kind = "ref" -> Chain(Root(e.at.type), <<e.at.name>> \o e.names)
    [] e.kind = "dataRef" -> Chain(Root("data"), <<e.at.type, e.at.name>> \o e.names)
    [] e.kind = "secret" -> Chain(Root("var"), <<SecretVariable(e.names[1])>>)
    [] e.kind = "list" -> Of("array", sub)
    [] e.kind = "map" -> Of("object", sub)
    [] e.kind = "template" -> Unwrapped(Of("template", MergedText(sub)))
    [] OTHER -> [e EXCEPT !.sub = sub]
=============================================================================
