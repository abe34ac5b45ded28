------------------------------ MODULE Meaning ------------------------------
(***************************************************************************)
(* What OpenTofu reads in a configuration that was lowered.                *)
(***************************************************************************)
EXTENDS Document, Template

\* The nodes a lowered configuration mentions, as OpenTofu reads its texts.
Texts(c) ==
  UNION {{v[key] : key \in DOMAIN v} :
           v \in {c.blocks[at].arguments : at \in DOMAIN c.blocks}
                   \cup {c.providers[i].arguments : i \in DOMAIN c.providers} \cup {c.outputs}}
RECURSIVE Read(_)
Read(node) == {node} \cup UNION {Read(node.sub[i]) : i \in DOMAIN node.sub}
Steps(c) == UNION {Read(ReadJson(v)) : v \in Texts(c)}
From(n) == n.sub[1]
MentionedBlocks(c) ==
  {Address(TRUE, From(n).names[1], n.names[1]) :
     n \in {m \in Steps(c) : /\ m.kind = "attribute" /\ From(m).kind = "root"
                             /\ From(m).names[1] \notin {"data", "var"}}}
  \cup
  {Address(FALSE, From(n).names[1], n.names[1]) :
     n \in {m \in Steps(c) : /\ m.kind = "attribute" /\ From(m).kind = "attribute"
                             /\ From(From(m)) = Root("data")}}
MentionedVariables(c) ==
  {n.names[1] : n \in {m \in Steps(c) : m.kind = "attribute" /\ From(m) = Root("var")}}

\* Texts mention blocks of the configuration, secrets have their variables and no
\* other variable is declared.
TextsAreClosed == /\ MentionedBlocks(config) \subseteq DOMAIN config.blocks
                  /\ MentionedVariables(config) = config.variables

-----------------------------------------------------------------------------
\* The expressions whose rendering keeps their meaning: no conditional where a
\* term is expected, no mark that comes about at the seam of two parts of a
\* template, no quoted text inside an interpolation of a quoted template.
Seamless(parts) ==
  \A i \in 1..(Len(parts) - 1) :
    parts[i].kind = "string" /\ parts[i].names # <<>> =>
      \/ Last(parts[i].names) \notin {"$", "%"}
      \/ /\ parts[i + 1].kind = "string" /\ parts[i + 1].names # <<>>
         /\ parts[i + 1].names[1] \notin {"{", "$", "%"}
      \/ /\ parts[i + 1].kind = "hole" /\ Last(parts[i].names) = "%"

Quoted(n) == n.kind \in {"string", "template"} \/ (n.kind \in {"map", "object"} /\ n.sub # <<>>)

RECURSIVE Plain(_, _)
Plain(e, nested) ==
  /\ e.kind # "raw"
  /\ e.kind \in {"attribute", "splat", "index", "conditional"} => e.sub[1].kind # "conditional"
  /\ e.kind = "template" =>
       /\ Seamless(e.sub)
       /\ nested => \A n \in UNION {ToSet(Visited(From(part))) :
                                      part \in {p \in ToSet(e.sub) : p.kind = "hole"}} : ~Quoted(n)
  /\ \A i \in DOMAIN e.sub :
       Plain(e.sub[i], nested \/ e.kind \notin {"list", "map", "array", "object"})

\* "a literal denotes exactly the value the frontend wrote" (lower_expr), and so
\* do the expressions around it: OpenTofu reads every plain argument and output
\* as the expression the document holds, and no text, plain or not, mentions
\* what the configuration lacks.
MeaningKept ==
  stage = "lowered" =>
    /\ TextsAreClosed
    /\ \A b \in ToSet(Blocks(document)) : \A i \in DOMAIN Values(b.arguments) :
         LET key == Keys(b.arguments)[i][1] IN
         Plain(Value(b.arguments, i), FALSE) /\ key \in DOMAIN config.blocks[b.at].arguments =>
           ReadJson(config.blocks[b.at].arguments[key]) = Denoted(Value(b.arguments, i))
    /\ \A o \in ToSet(document.outputs) :
         Plain(o.value, FALSE) => ReadJson(config.outputs[o.name]) = Denoted(o.value)

\* "The attribute `name` of a computed value, `of.name`: an element of a nested
\* block, a splat, or any other expression that is not a plain reference" (Expr):
\* an attribute is read as one of the expression it is of, whatever that is, and
\* even where no template is involved.
AttributeOfAnyExpression ==
  stage = "lowered" =>
    \A o \in ToSet(document.outputs) :
      o.value.kind = "attribute"
        /\ (\A n \in ToSet(Visited(o.value)) : n.kind \notin {"raw", "template"}) =>
        ReadJson(config.outputs[o.name]) = Denoted(o.value)
=============================================================================
