------------------------------ MODULE Document ------------------------------
(***************************************************************************)
(* One graph from the program that builds it to what OpenTofu reads: the   *)
(* declarations of the program, the document it prints, the checks of      *)
(* `build`, the resolution of stack references and the lowering.  A        *)
(* document may also be written by hand, which no Lean validator sees.     *)
(***************************************************************************)
EXTENDS Lowering

CONSTANTS Menu,              \* the declarations a program may make
          MaxDeclarations,   \* bound: declarations of one program
          Scene,             \* a graph that declares what the expressions below mention
          Shown,             \* outputs, each of them tried as the only one of it
          Handwritten,       \* documents no program printed
          Self,              \* the stack that is built
          Backend            \* the declared stacks, with their backends

\* What Lean prints is of version 1; a document that is not may be written.
Graphs == Documents({"1"})

ASSUME ProgramAssumption ==
  Menu \subseteq Declarations /\ Shown \subseteq AnyOutput /\ MaxDeclarations \in Nat
ASSUME SceneAssumption == Scene \in Graphs /\ Distinct(Scene.required)
ASSUME HandwrittenAssumption == Handwritten \subseteq Documents(STRING \cup {"1"})
ASSUME BackendAssumption == \A stack \in DOMAIN Backend : StateArguments(Backend[stack]) \in Objects

VARIABLES graph,      \* what the program declared so far
          count,      \* how many declarations that were
          stage,      \* how far the command got
          document,   \* the document the command holds
          config      \* what lower returned

vars == <<graph, count, stage, document, config>>

NoConfig == [error |-> "nothing lowered"]

Init == /\ graph = NoGraph /\ count = 0 /\ stage = "program"
        /\ document = NoGraph /\ config = NoConfig

Declare(d) == /\ stage = "program" /\ count < MaxDeclarations
              /\ graph' = Declared(graph, d) /\ count' = count + 1
              /\ UNCHANGED <<stage, document, config>>

Show(output) == /\ stage = "program" /\ count = 0
                /\ graph' = [Scene EXCEPT !.outputs = <<output>>]
                /\ count' = MaxDeclarations
                /\ UNCHANGED <<stage, document, config>>

\* The program's main prints its graph and the CLI decodes it, if it can.
Received == DecodedGraph(EncodedGraph(graph))

Emit == /\ stage = "program"
        /\ \/ /\ Readable(EncodedGraph(graph))
              /\ stage' = "printed" /\ document' = Received
           \/ /\ ~Readable(EncodedGraph(graph))
              /\ stage' = "unreadable" /\ UNCHANGED document
        /\ UNCHANGED <<graph, count, config>>

WriteByHand(doc) == /\ stage = "program" /\ graph = NoGraph /\ stage' = "handwritten"
                    /\ document' = doc
                    /\ UNCHANGED <<graph, count, config>>

\* Project::render: validate, then check_stack_references.
ReferencesDeclared(doc) == ToSet(doc.stacks) \subseteq DOMAIN Backend \ {Self}

Check == /\ stage \in {"printed", "handwritten"}
         /\ stage' = IF ~Valid(document) THEN "invalid"
                     ELSE IF ReferencesDeclared(document) THEN "checked"
                     ELSE "undeclared stack"
         /\ UNCHANGED <<graph, count, document, config>>

Resolve == /\ stage = "checked" /\ stage' = "resolved"
           /\ document' = Resolved(document, Backend)
           /\ UNCHANGED <<graph, count, config>>

\* Mutant of Write: lower's error is not looked at.
WriteRegardless == /\ stage \in {"resolved", "handwritten"}
                   /\ config' = Lower(document) /\ stage' = "lowered"
                   /\ UNCHANGED <<graph, count, document>>

\* write_graph lowers; `render` and a run with --graph do so without the checks.
Write == /\ stage \in {"resolved", "handwritten"}
         /\ config' = Lower(document)
         /\ stage' = IF config'.error = "" THEN "lowered" ELSE "not lowered"
         /\ UNCHANGED <<graph, count, document>>

Next == \/ \E d \in Menu : Declare(d)
        \/ \E output \in Shown : Show(output)
        \/ \E doc \in Handwritten : WriteByHand(doc)
        \/ Emit \/ Check \/ Resolve \/ Write

Spec == Init /\ [][Next]_vars

-----------------------------------------------------------------------------
\* The command is in one of its stages and holds a document, or an error.
TypeOK == /\ stage \in {"program", "printed", "unreadable", "handwritten", "invalid",
                        "undeclared stack", "checked", "resolved", "lowered", "not lowered"}
          /\ count \in 0..MaxDeclarations
          /\ DOMAIN document = DOMAIN NoGraph /\ DOMAIN graph = DOMAIN NoGraph
          /\ (stage = "lowered") <=> (config.error = "")

\* A gate evaluates or proves Graph.Valid in Lean; the CLI decodes the printed JSON
\* and validates that.  Whatever Lean accepts the CLI decodes and accepts too, so
\* that the statement a gate proves is about a document that is deployed - but for
\* what Lean does not look at: where a move comes from, white space only Rust
\* knows as an import id, and the limits of the JSON reader.
GateSpeaksForTheCli ==
  /\ graph # NoGraph
  /\ stage = "unreadable" \/ (stage = "invalid" /\ document = Received)
  /\ \A at \in Origins(graph) : Parse(at) # Nowhere
  /\ \A i \in ToSet(graph.imports) : i.id \notin RustBlank
  /\ WithinReader(EncodedGraph(graph))
  => ~LeanAccepts(graph)

\* "a graph that the CLI would reject fails to compile instead" (Validate.lean),
\* where `decide` is to prove it valid.
RejectedInLean ==
  graph # NoGraph /\ (stage = "unreadable" \/ (stage = "invalid" /\ document = Received))
    => ~LeanAccepts(graph)

\* Conversely, what Lean refuses and the CLI accepts is a repeated key, which the
\* encoder merges, the name of an output, which the CLI does not look at, or an
\* address with a dot in a name, which the CLI reads as another one.
OnlyKeysAndOutputsDiffer ==
  stage = "checked" /\ document = Received /\ graph # NoGraph /\ ~LeanAccepts(graph)
    => \/ \E o \in ToSet(graph.outputs) : o.name \notin Identifiers
       \/ \E e \in Expressions(graph) : \E n \in ToSet(Visited(e)) :
            n.kind \in {"map", "object"} /\ ~Distinct(Keys(n))
       \/ \E at \in Mentioned(graph) : Parse(at) \notin {at, Nowhere}

\* A lowered configuration is closed: what its depends_on, its triggers, its moves
\* and its imports name are blocks of it, and selected providers are configured; a
\* stack reference has become a block like any other.
LoweredIsClosed ==
  stage = "lowered" =>
    /\ \A at \in DOMAIN config.blocks :
         LET b == config.blocks[at] IN
         /\ ToSet(b.dependsOn) \cup ToSet(b.triggers) \subseteq DOMAIN config.blocks
         /\ b.provider # <<>> => \E i \in DOMAIN config.providers :
                                   config.providers[i].name = b.provider
    /\ {config.moved[i].to : i \in DOMAIN config.moved} \subseteq DOMAIN config.blocks
    /\ ToSet(config.imports) \subseteq {at \in DOMAIN config.blocks : at.managed}

\* Lowering puts blocks into maps by type and name, and meta-arguments over the
\* arguments of blocks and providers: of a document that was accepted nothing is
\* overwritten on the way, save an argument that is named as a meta-argument.
NothingOverwritten ==
  stage = "lowered" =>
    /\ Cardinality(DOMAIN config.blocks) = Len(Blocks(document))
    /\ \A b \in ToSet(Blocks(document)) :
         {key[1] : key \in ToSet(Keys(b.arguments))} \ {"depends_on", "provider", "lifecycle"}
           \subseteq DOMAIN config.blocks[b.at].arguments
    /\ \A i \in DOMAIN document.configs :
         {key[1] : key \in ToSet(Keys(document.configs[i].arguments))} \ {"alias"}
           \subseteq DOMAIN config.providers[i].arguments
=============================================================================
