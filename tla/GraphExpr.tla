----------------------------- MODULE GraphExpr -----------------------------
(***************************************************************************)
(* Expressions of the graph document (crates/graph-ir): one node form for  *)
(* all kinds of Expr, since every traversal of the code visits a node and  *)
(* then its parts in one order.  The kinds are                             *)
(*   string, scalar, list, map      the values of Literal                  *)
(*   ref, dataRef                   ResourceAttr, DataSourceAttr           *)
(*   array, object, index, attribute, splat, conditional, function         *)
(*   template                       its parts: string, or hole for an      *)
(*                                  Interpolation                          *)
(*   secret, raw                    SecretEnv, UnsafeRaw                   *)
(* `names` holds what is text in a node (a path, a name, the characters of *)
(* a string), `sub` the expressions in it.  The `sub` of a map or an       *)
(* object alternates keys, which are string nodes, and values.             *)
(***************************************************************************)
EXTENDS Naturals, Sequences, SequencesExt, FiniteSets

CONSTANTS Identifiers,       \* the names valid_identifier accepts
          EnvironmentNames,  \* the names valid_environment_name accepts
          Segments,          \* of every name with dots in it, what is between them
          OutOfRange,        \* numbers serde_json has no value for
          MaxNesting,        \* how deep serde_json follows JSON (127 levels)
          MaxDepth           \* bound: how deep expressions nest

ASSUME DepthAssumption == MaxDepth \in Nat

\* The list of a lifecycle is five levels deep in every document.
ASSUME NestingAssumption == MaxNesting \in Nat \ 0..4

Address(managed, type, name) == [managed |-> managed, type |-> type, name |-> name]
Nowhere == Address(FALSE, "", "")

\* The node a stack reference stands for.
RemoteState == "terraform_remote_state"
StackAddress(stack) == Address(FALSE, RemoteState, stack)

ASSUME NamesAssumption ==
  Identifiers \subseteq STRING /\ RemoteState \in Identifiers /\ "" \in STRING \ Identifiers

\* An identifier has no dot.
ASSUME SegmentsAssumption == DOMAIN Segments \cap Identifiers = {}

\* What is between the dots of the text of an address (Address.toString).
Between(name) == IF name \in DOMAIN Segments THEN Segments[name] ELSE <<name>>
AddressSegments(at) ==
  (IF at.managed THEN <<>> ELSE <<"data">>) \o Between(at.type) \o Between(at.name)

\* Address::parse of that text, with Nowhere for its error.  A name with a dot
\* may be read as the address of another node.
Parse(at) ==
  LET parts == AddressSegments(at) IN
  IF Len(parts) = 2 /\ {parts[1], parts[2]} \subseteq Identifiers
    THEN Address(TRUE, parts[1], parts[2])
  ELSE IF Len(parts) = 3 /\ parts[1] = "data" /\ {parts[2], parts[3]} \subseteq Identifiers
    THEN Address(FALSE, parts[2], parts[3])
  ELSE Nowhere

Node(kind, at, names, sub) == [kind |-> kind, at |-> at, names |-> names, sub |-> sub]
String(characters) == Node("string", Nowhere, characters, <<>>)
Ref(at, path) == Node(IF at.managed THEN "ref" ELSE "dataRef", at, path, <<>>)
Of(kind, sub) == Node(kind, Nowhere, <<>>, sub)
Named(kind, name, sub) == Node(kind, Nowhere, <<name>>, sub)
Entry(key, value) == <<String(<<key>>), value>>

Kinds == {"string", "scalar", "list", "map", "ref", "dataRef", "array", "object", "index",
          "attribute", "splat", "conditional", "function", "template", "hole", "secret", "raw"}
AnyAddress == [managed : BOOLEAN, type : STRING, name : STRING]

\* A map has a value behind each of its keys.
Alternates(n) ==
  \E k \in 0..Len(n.sub) :
    /\ Len(n.sub) = 2 * k
    /\ \A i \in 1..k : n.sub[2 * i - 1] = String(n.sub[2 * i - 1].names)

Nodes(parts) == {n \in [kind : Kinds, at : AnyAddress, names : Seq(STRING), sub : parts] :
                   n.kind \in {"map", "object"} => Alternates(n)}

\* The expressions that nest at most h deep.
Tree[h \in 0..MaxDepth] == Nodes(IF h = 0 THEN {<<>>} ELSE Seq(Tree[h - 1]))

Expr == Tree[MaxDepth]

\* The nodes of an expression in the order every traversal meets them: Rust's
\* references, collect_secret_environment_names and validate_expr_structure,
\* Lean's references, secretNames and validateStructure.
NodeVisited(n, visited) == <<n>> \o FlattenSeq([i \in DOMAIN n.sub |-> visited[n.sub[i]]])

Visited(e) == LET visited[n \in Expr] == NodeVisited(n, visited) IN visited[e]

References(e) == {n.at : n \in {m \in ToSet(Visited(e)) : m.kind \in {"ref", "dataRef"}}}

SecretNames(e) == {n.names[1] : n \in {m \in ToSet(Visited(e)) : m.kind = "secret"}}

Keys(n) == [i \in 1..(Len(n.sub) \div 2) |-> n.sub[2 * i - 1].names]
Value(n, i) == n.sub[2 * i]
Values(n) == [i \in 1..(Len(n.sub) \div 2) |-> Value(n, i)]

Distinct(list) == Cardinality(ToSet(list)) = Len(list)

-----------------------------------------------------------------------------
\* Problems: what an error names, without its wording.
Problem(rule, at, name) == [rule |-> rule, at |-> at, name |-> name]

When(condition, problem) == IF condition THEN <<problem>> ELSE <<>>

IdentifierProblems(name) ==
  When(name \notin Identifiers, Problem("InvalidIdentifier", Nowhere, name))

PathProblems(names) == FlattenSeq([i \in DOMAIN names |-> IdentifierProblems(names[i])])

\* What validate_expr_structure finds at one node.
NodeProblems(n) ==
  CASE n.kind \in {"ref", "dataRef"} ->
         IF n.at.managed # (n.kind = "ref") THEN <<Problem("ReferenceKind", n.at, "")>>
         ELSE PathProblems(n.names)
    [] n.kind \in {"attribute", "function"} -> PathProblems(n.names)
    [] n.kind = "secret" ->
         When(n.names[1] \notin EnvironmentNames,
              Problem("InvalidSecretEnvironment", Nowhere, n.names[1]))
    [] OTHER -> <<>>

StructureProblems(e) ==
  LET nodes == Visited(e) IN FlattenSeq([i \in DOMAIN nodes |-> NodeProblems(nodes[i])])

\* validate_expr: the structure, then the references, in the order of a set.
ExprProblems(e, known) ==
  LET missing == SetToSeq(References(e) \ known) IN
  StructureProblems(e)
    \o [i \in DOMAIN missing |-> Problem("MissingReference", missing[i], "")]

-----------------------------------------------------------------------------
\* Mutant of LeanAcceptsNode: the address of a reference may be of either kind.
AcceptsMisplacedReference(n) ==
  /\ n.kind \in {"ref", "dataRef", "attribute", "function"} =>
       ToSet(n.names) \subseteq Identifiers
  /\ n.kind = "secret" => n.names[1] \in EnvironmentNames
  /\ n.kind \in {"map", "object"} => Distinct(Keys(n))

\* Lean's validateStructure, and validateKeys for the literals in it: as above,
\* and no object or map repeats a key.
LeanAcceptsNode(n) ==
  /\ n.kind = "ref" => n.at.managed
  /\ n.kind = "dataRef" => ~n.at.managed
  /\ n.kind \in {"ref", "dataRef", "attribute", "function"} =>
       ToSet(n.names) \subseteq Identifiers
  /\ n.kind = "secret" => n.names[1] \in EnvironmentNames
  /\ n.kind \in {"map", "object"} => Distinct(Keys(n))

LeanAcceptsExpr(e, known) ==
  /\ \A n \in ToSet(Visited(e)) : LeanAcceptsNode(n)
  /\ References(e) \subseteq known

\* What toJson prints: Json.mkObj keeps the last of two equal keys and sorts them,
\* as the maps of Rust are (SetToSeq stands for their order).
LastKey(n, key) == CHOOSE i \in DOMAIN Keys(n) :
                     /\ Keys(n)[i] = key
                     /\ \A j \in (i + 1)..Len(Keys(n)) : Keys(n)[j] # key

EncodedParts(n, encoded) ==
  IF n.kind \in {"map", "object"}
    THEN LET keys == SetToSeq(ToSet(Keys(n))) IN
         FlattenSeq([k \in DOMAIN keys |->
                       <<String(keys[k]), encoded[Value(n, LastKey(n, keys[k]))]>>])
    ELSE [i \in DOMAIN n.sub |-> encoded[n.sub[i]]]

NodeEncoded(n, encoded) == [n EXCEPT !.sub = EncodedParts(n, encoded)]

Encoded(e) == LET encoded[n \in Expr] == NodeEncoded(n, encoded) IN encoded[e]

\* What the CLI decodes of it: the address of every reference is parsed.
NodeDecoded(n, decoded) ==
  [n EXCEPT !.at = IF n.kind \in {"ref", "dataRef"} THEN Parse(n.at) ELSE n.at,
            !.sub = [i \in DOMAIN n.sub |-> decoded[n.sub[i]]]]

Decoded(e) == LET decoded[n \in Expr] == NodeDecoded(n, decoded) IN decoded[e]

\* How deep the JSON of an expression nests: an object with a tag, and in some
\* kinds an array or an object in it.  A text in a template is a literal, a value
\* in a list or a map is not.
NodeNesting(n, nesting) ==
  (IF n.kind \in {"ref", "dataRef", "array", "object", "function", "template"} THEN 2 ELSE 1)
    + Max({IF n.kind \in {"list", "map"} THEN 1 ELSE 0}
            \cup {nesting[n.sub[i]] : i \in DOMAIN n.sub})

Nesting(e) == LET nesting[n \in Expr] == NodeNesting(n, nesting) IN nesting[e]
=============================================================================
