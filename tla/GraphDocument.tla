--------------------------- MODULE GraphDocument ---------------------------
(***************************************************************************)
(* The graph document, and the two validators every document passes: the   *)
(* one of the CLI (GraphDocument::validate, which returns the first of     *)
(* Problems) and its Lean port, which a program proves or evaluates of the *)
(* graph it prints (LeanAccepts).  Blocks, configurations and moves are    *)
(* sequences, as in both languages; arguments are object nodes, a provider *)
(* selector is the sequence of its parts between the dots, <<>> for none.  *)
(***************************************************************************)
EXTENDS GraphExpr

Block(at, arguments, dependsOn, provider, triggers) ==
  [at |-> at, arguments |-> arguments, dependsOn |-> dependsOn, provider |-> provider,
   triggers |-> triggers]

Objects == {e \in Expr : e.kind = "object"}
AnyBlock == [at : AnyAddress, arguments : Objects, dependsOn : Seq(AnyAddress),
             provider : Seq(STRING), triggers : Seq(AnyAddress)]
AnyConfig == [provider : STRING, alias : Seq(STRING), arguments : Objects]
AnyOutput == [name : STRING, value : Expr]
AnyMove == [from : AnyAddress, to : AnyAddress]
AnyImport == [to : AnyAddress, id : STRING]

Documents(versions) ==
  [version : versions, required : Seq(STRING), configs : Seq(AnyConfig),
   resources : Seq(AnyBlock), dataSources : Seq(AnyBlock), outputs : Seq(AnyOutput),
   moves : Seq(AnyMove), imports : Seq(AnyImport), stacks : Seq(STRING)]

NoGraph == [version |-> "1", required |-> <<>>, configs |-> <<>>, resources |-> <<>>,
            dataSources |-> <<>>, outputs |-> <<>>, moves |-> <<>>, imports |-> <<>>,
            stacks |-> <<>>]

\* Import ids that are nothing but white space: str::trim drops more characters
\* than Lean's Char.isWhitespace knows.
LeanBlank == {"", " "}
RustBlank == LeanBlank \cup {"nbsp"}

Blocks(doc) == doc.resources \o doc.dataSources
Addresses(doc) ==
  [i \in DOMAIN Blocks(doc) |-> Blocks(doc)[i].at]
    \o [i \in DOMAIN doc.stacks |-> StackAddress(doc.stacks[i])]
ConfigAddress(config) == <<config.provider>> \o config.alias

Expressions(doc) ==
  {b.arguments : b \in ToSet(Blocks(doc))} \cup {c.arguments : c \in ToSet(doc.configs)}
    \cup {o.value : o \in ToSet(doc.outputs)}

\* The addresses that are texts of the document, in two parts: those the
\* validators look at, and where its moves come from.
Mentioned(doc) ==
  (UNION {References(e) : e \in Expressions(doc)})
    \cup (UNION {ToSet(b.dependsOn) \cup ToSet(b.triggers) : b \in ToSet(Blocks(doc))})
    \cup {move.to : move \in ToSet(doc.moves)} \cup {import.to : import \in ToSet(doc.imports)}
Origins(doc) == {move.from : move \in ToSet(doc.moves)}

\* Every edge of the document: references of the arguments, depends_on and
\* replace_triggered_by.  A provider's arguments have no edge.
Edges(doc) ==
  UNION {{<<from, b.at>> : from \in References(b.arguments) \cup ToSet(b.dependsOn)
                                      \cup ToSet(b.triggers)} : b \in ToSet(Blocks(doc))}

\* Nodes each of which depends on another one of them. (CycleSearch models the
\* two searches step by step, and proves that this is what they report.)
Cyclic(edges) ==
  \E knot \in (SUBSET {edge[2] : edge \in edges}) \ {{}} :
    \A n \in knot : \E from \in knot : <<from, n>> \in edges

-----------------------------------------------------------------------------
\* GraphDocument::validate, rule by rule in its order.
ConfigProblems(doc) ==
  FlattenSeq([i \in DOMAIN doc.configs |->
    LET config == doc.configs[i] IN
    PathProblems(ConfigAddress(config))
      \o When(\E j \in 1..(i - 1) : ConfigAddress(doc.configs[j]) = ConfigAddress(config),
              Problem("DuplicateProviderConfig", Nowhere, config.provider))])

\* Mutant of DeclarationProblems: addresses are checked and not compared.
AddressesNotCompared(doc) ==
  LET all == Addresses(doc) IN
  FlattenSeq([i \in DOMAIN all |-> PathProblems(<<all[i].type, all[i].name>>)])

DeclarationProblems(doc) ==
  LET all == Addresses(doc) IN
  FlattenSeq([i \in DOMAIN all |->
    PathProblems(<<all[i].type, all[i].name>>)
      \o When(\E j \in 1..(i - 1) : all[j] = all[i],
              Problem("DuplicateAddress", all[i], ""))])

ArgumentProblems(arguments, known) ==
  FlattenSeq([i \in DOMAIN Values(arguments) |-> ExprProblems(Value(arguments, i), known)])

\* Mutant of OwnerProblems: depends_on may name what nothing declares.
DependenciesNotLookedUp(block, known) ==
  ArgumentProblems(block.arguments, known)
    \o FlattenSeq([i \in DOMAIN block.dependsOn |->
         LET target == block.dependsOn[i] IN
         When(target = block.at, Problem("SelfDependency", target, ""))])

OwnerProblems(block, known) ==
  ArgumentProblems(block.arguments, known)
    \o FlattenSeq([i \in DOMAIN block.dependsOn |->
         LET target == block.dependsOn[i] IN
         IF target = block.at THEN <<Problem("SelfDependency", target, "")>>
         ELSE When(target \notin known, Problem("MissingReference", target, ""))])

SelectedProviderProblems(block, configs) ==
  IF block.provider = <<>> THEN <<>>
  ELSE IF Len(block.provider) > 2 \/ ~(ToSet(block.provider) \subseteq Identifiers)
    THEN <<Problem("InvalidIdentifier", block.at, "provider")>>
  ELSE When(\A config \in ToSet(configs) : ConfigAddress(config) # block.provider,
            Problem("MissingProviderConfig", block.at, ""))

TriggerProblems(block, known) ==
  FlattenSeq([i \in DOMAIN block.triggers |->
    LET target == block.triggers[i] IN
    IF ~target.managed THEN <<Problem("InvalidReplaceTriggeredBy", target, "")>>
    ELSE When(target \notin known, Problem("MissingReference", target, ""))])

MoveProblems(doc, known) ==
  FlattenSeq([i \in DOMAIN doc.moves |->
    LET to == doc.moves[i].to IN
    IF to \notin known THEN <<Problem("MissingMoveTarget", to, "")>>
    ELSE When(\E j \in 1..(i - 1) : doc.moves[j].to = to,
              Problem("DuplicateMoveTarget", to, ""))])

\* Mutant of ImportProblems: a target may be imported twice.
ImportsNotCompared(doc, known) ==
  FlattenSeq([i \in DOMAIN doc.imports |->
    LET to == doc.imports[i].to IN
    IF ~to.managed THEN <<Problem("InvalidImportTarget", to, "")>>
    ELSE IF to \notin known THEN <<Problem("MissingImportTarget", to, "")>>
    ELSE When(doc.imports[i].id \in RustBlank, Problem("EmptyImportId", to, ""))])

ImportProblems(doc, known) ==
  FlattenSeq([i \in DOMAIN doc.imports |->
    LET to == doc.imports[i].to IN
    IF ~to.managed THEN <<Problem("InvalidImportTarget", to, "")>>
    ELSE IF to \notin known THEN <<Problem("MissingImportTarget", to, "")>>
    ELSE IF doc.imports[i].id \in RustBlank THEN <<Problem("EmptyImportId", to, "")>>
    ELSE When(\E j \in 1..(i - 1) : doc.imports[j].to = to,
              Problem("DuplicateImportTarget", to, ""))])

Problems(doc) ==
  LET known == ToSet(Addresses(doc)) IN
  When(doc.version # "1", Problem("UnsupportedVersion", Nowhere, doc.version))
    \o PathProblems(doc.required)
    \o ConfigProblems(doc)
    \o DeclarationProblems(doc)
    \o FlattenSeq([i \in DOMAIN Blocks(doc) |->
         LET block == Blocks(doc)[i] IN
         OwnerProblems(block, known) \o SelectedProviderProblems(block, doc.configs)
           \o TriggerProblems(block, known)])
    \o FlattenSeq([i \in DOMAIN doc.outputs |-> ExprProblems(doc.outputs[i].value, known)])
    \o FlattenSeq([i \in DOMAIN doc.configs |->
         ArgumentProblems(doc.configs[i].arguments, known)])
    \o MoveProblems(doc, known)
    \o ImportProblems(doc, known)
    \o When(Cyclic(Edges(doc)), Problem("Cycle", Nowhere, ""))

Valid(doc) == Problems(doc) = <<>>

-----------------------------------------------------------------------------
\* Inframe.Graph.validate: what it accepts.  Its order is that of Problems.
LeanAcceptsArguments(arguments, known) ==
  /\ Distinct(Keys(arguments))
  /\ \A value \in ToSet(Values(arguments)) : LeanAcceptsExpr(value, known)

LeanAcceptsBlock(block, known, configs) ==
  /\ LeanAcceptsArguments(block.arguments, known)
  /\ block.at \notin ToSet(block.dependsOn)
  /\ ToSet(block.dependsOn) \cup ToSet(block.triggers) \subseteq known
  /\ \/ block.provider = <<>>
     \/ /\ Len(block.provider) <= 2
        /\ block.provider \in {ConfigAddress(config) : config \in ToSet(configs)}
  /\ \A target \in ToSet(block.triggers) : target.managed

LeanAccepts(graph) ==
  LET known == ToSet(Addresses(graph))
      targets(list) == [i \in DOMAIN list |-> list[i].to]
      names(list) == [i \in DOMAIN list |-> list[i].name]
  IN
  /\ ToSet(graph.required) \subseteq Identifiers /\ Distinct(graph.required)
  /\ Distinct([i \in DOMAIN graph.configs |-> ConfigAddress(graph.configs[i])])
  /\ \A config \in ToSet(graph.configs) :
       /\ ToSet(ConfigAddress(config)) \subseteq Identifiers
       /\ LeanAcceptsArguments(config.arguments, known)
  /\ Distinct(Addresses(graph))
  /\ \A at \in known : {at.type, at.name} \subseteq Identifiers
  /\ \A block \in ToSet(Blocks(graph)) : LeanAcceptsBlock(block, known, graph.configs)
  /\ ToSet(names(graph.outputs)) \subseteq Identifiers /\ Distinct(names(graph.outputs))
  /\ \A output \in ToSet(graph.outputs) : LeanAcceptsExpr(output.value, known)
  /\ ToSet(targets(graph.moves)) \subseteq known /\ Distinct(targets(graph.moves))
  /\ Distinct(targets(graph.imports))
  /\ \A import \in ToSet(graph.imports) :
       import.to.managed /\ import.to \in known /\ import.id \notin LeanBlank
  /\ ~Cyclic(Edges(graph))

-----------------------------------------------------------------------------
\* A program's graph, one declaration after another (Inframe.Builder).
ReplaceOrAppend(list, entry) ==
  IF \E i \in DOMAIN list : list[i].name = entry.name
    THEN [i \in DOMAIN list |-> IF list[i].name = entry.name THEN entry ELSE list[i]]
    ELSE Append(list, entry)

Declarations ==
  [op : {"resource", "dataSource"}, block : AnyBlock]
    \cup [op : {"provider"}, config : AnyConfig] \cup [op : {"output"}, output : AnyOutput]
    \cup [op : {"moved"}, move : AnyMove] \cup [op : {"adopt"}, import : AnyImport]
    \cup [op : {"read"}, stack : STRING]

AppendUnique(list, value) == IF value \in ToSet(list) THEN list ELSE Append(list, value)

Declared(graph, d) ==
  CASE d.op = "resource" -> [graph EXCEPT !.resources = Append(@, d.block)]
    [] d.op = "dataSource" -> [graph EXCEPT !.dataSources = Append(@, d.block)]
    [] d.op = "provider" -> [graph EXCEPT !.required = AppendUnique(@, d.config.provider),
                                          !.configs = Append(@, d.config)]
    [] d.op = "output" -> [graph EXCEPT !.outputs = ReplaceOrAppend(@, d.output)]
    [] d.op = "moved" -> [graph EXCEPT !.moves = Append(@, d.move)]
    [] d.op = "adopt" -> [graph EXCEPT !.imports = Append(@, d.import)]
    [] d.op = "read" -> [graph EXCEPT !.stacks = AppendUnique(@, d.stack)]

\* encodeGraph: what is printed.  The objects of Lean become sorted maps.
EncodedOwner(owner) == [owner EXCEPT !.arguments = Encoded(@)]

EncodedGraph(graph) ==
  LET owners(list) == [i \in DOMAIN list |-> EncodedOwner(list[i])]
      names == SetToSeq({o.name : o \in ToSet(graph.outputs)})
      last(name) == SelectLastInSeq(graph.outputs, LAMBDA o : o.name = name)
  IN
  [graph EXCEPT
     !.required = SetToSeq(ToSet(@)), !.configs = owners(@),
     !.resources = owners(@), !.dataSources = owners(@),
     !.outputs = [i \in DOMAIN names |->
                    [name |-> names[i], value |-> Encoded(@[last(names[i])].value)]]]

\* What serde_json can hold: below the document come three levels around the
\* arguments of a block or a provider, and two around the value of an output.
WithinReader(doc) ==
  /\ \A owner \in ToSet(Blocks(doc)) \cup ToSet(doc.configs) :
       2 + Nesting(owner.arguments) <= MaxNesting
  /\ \A output \in ToSet(doc.outputs) : 3 + Nesting(output.value) <= MaxNesting
  /\ \A e \in Expressions(doc) : \A n \in ToSet(Visited(e)) :
       n.kind = "scalar" => ToSet(n.names) \cap OutOfRange = {}

\* Deserializing succeeds, and what it makes of the document.
Readable(doc) ==
  WithinReader(doc) /\ \A at \in Mentioned(doc) \cup Origins(doc) : Parse(at) # Nowhere

\* A list with everything in it read.
Each(list, Read(_)) == [i \in DOMAIN list |-> Read(list[i])]

DecodedConfig(setup) == [setup EXCEPT !.arguments = Decoded(@)]
DecodedBlock(block) ==
  [block EXCEPT !.arguments = Decoded(@), !.dependsOn = Each(@, Parse), !.triggers = Each(@, Parse)]
DecodedOutput(output) == [output EXCEPT !.value = Decoded(@)]
DecodedMove(move) == [from |-> Parse(move.from), to |-> Parse(move.to)]
DecodedImport(import) == [import EXCEPT !.to = Parse(@)]

DecodedGraph(doc) ==
  [doc EXCEPT !.configs = Each(@, DecodedConfig), !.resources = Each(@, DecodedBlock),
              !.dataSources = Each(@, DecodedBlock), !.outputs = Each(@, DecodedOutput),
              !.moves = Each(@, DecodedMove), !.imports = Each(@, DecodedImport)]

\* GraphDocument::resolve_stack_references, given each stack's backend.
StateArguments(setting) ==
  Of("object", Entry("backend", setting.kind) \o Entry("config", setting.config))

Resolved(doc, backend) ==
  LET read(stack) ==
        Block(StackAddress(stack), StateArguments(backend[stack]), <<>>, <<>>, <<>>)
  IN [doc EXCEPT !.stacks = <<>>,
                 !.dataSources = @ \o [i \in DOMAIN doc.stacks |-> read(doc.stacks[i])]]

\* GraphDocument::secret_environment_names.
DocumentSecrets(doc) ==
  UNION ({SecretNames(b.arguments) : b \in ToSet(Blocks(doc))}
           \cup {SecretNames(c.arguments) : c \in ToSet(doc.configs)}
           \cup {SecretNames(o.value) : o \in ToSet(doc.outputs)})
=============================================================================
