# A verification project for inframe

`inframe` turns infrastructure programs written in Lean or PureScript into a
graph document (Graph IR), checks it, lowers it to OpenTofu's JSON syntax and
drives `tofu`. It also generates typed bindings for providers. This directory
holds TLA+ modules for the parts of it that are hard to test, the TLC
configurations that check them on small instances, and proofs, checked by
TLAPS, that the central properties hold for every instance.

Run a check with `tlc -config <name>.cfg <MC module>.tla`, a proof with
`tlapm <module>.tla`. `PROJECT.json` lists every run, what each definition
models (file and lines), the hazards, the mutants every property was tried
against, the findings and the theorems.

## 1. The system

| Component | Source | State it keeps | Operations |
|---|---|---|---|
| CLI stack pipeline | `crates/cli/src/main.rs`, `project.rs` | the graph artifact `graphs/<stack>.json`, the gate directory, the workspace; per process its graph and config | `build`, `test`, `init/validate/plan/apply/destroy/tofu`, `show`, `output`, `graph ...`, `render` |
| Build all, apply order | `main.rs` `build_project`, `project.rs` `stack_order` | the order, the path of the search | build every stack, order them |
| Project configuration | `project.rs` | the parsed `inframe.toml`, read once per process | load, validate names, look up stack, gate, backend |
| Gate | `project.rs` `run_gate`, `lean/Inframe/Gate.lean` | `gates/<stack>/{Gate.lean,graph.json}`, compiled modules | clear, write, `lake build`, `lake env lean`, read back and compare |
| Workspace and OpenTofu driver | `crates/opentofu/src/lib.rs` | `stacks/<stack>/{backend,main}.tofu.json` | write (temporary file and rename), spawn, read output |
| Graph IR | `crates/graph-ir/src/lib.rs` | the document | validate, edges, find a cycle, resolve stack references, secret names |
| Lowering | `crates/opentofu/src/lib.rs` | none | expressions and blocks to JSON |
| Provider generation | `main.rs` `generate_providers`, `binding-model/src/emit.rs` | hashing thread, job counter, failure flag, files | hash, derive, render, write by a pool |
| Binding derivation | `binding-model/src/lib.rs` | none | schema to bindings |
| Provider schema | `provider-schema/src` | memo tables of shared types | decode, compact, normalise, hash |
| Emitters | `emit-lean`, `emit-purescript` | none | bindings to the files of a package |
| Inspection | `cli/src/inspect.rs` | none | a report about a schema |
| Lean library | `lean/Inframe` | the graph a program builds | builder, validator (the port of the Rust one), policies, gate |
| PureScript library | `purescript/src` | the graph a program builds | builder, JSON |

How they interact: `inframe` runs the stack's `main` (via `lake` or `spago`)
and reads the graph from its standard output; the gate is a Lean module the CLI
writes and `lean` elaborates, which writes its graph to a file the CLI reads
back; `tofu` reads the files of the workspace. All of it is exchanged through
files, and the code takes no lock on any of them. Inside one process only
provider generation is concurrent.

What is hard here:

* several invocations on one stack share files (artifact, gate directory,
  workspace) and the sources may be edited at any time;
* artifacts and backend files outlive the command that wrote them: `--no-build`
  trusts modification times, `--graph` trusts the backend file it finds;
* stacks are applied from several workspaces, and relative paths are taken from
  different directories by the configuration, the command line and OpenTofu;
* a process may be killed between any two steps, and its files stay;
* the recursive searches (apply order, dependency cycles, the latter written
  twice and once with fuel) and their early returns;
* the writer pool: claims from a shared counter, errors of one worker, one
  worker waiting for the hashing thread;
* two implementations that must agree (validators, builders, emitters);
* pure translations whose errors show only in OpenTofu (lowering, names), or
  only in the user's program (the records of a generated package);
* one pass that decodes and normalises a schema and must report what two passes
  would.

What makes each component correct:

* **pipeline**: what OpenTofu deploys is the graph that was built, tested and
  gated; nothing is touched before the checks pass; every run ends;
* **apply order**: each stack after those it reads, all of them, and a cycle
  only when there is one;
* **cycle checks**: both report a cycle exactly when there is one, and name it;
* **generation**: success means every file is whole and every manifest has its
  digest; one writer per file; the command ends on every error;
* **validators**: what Lean accepts the CLI decodes and accepts, and the other
  way round, but in known places;
* **lowering**: OpenTofu reads in the text what the document holds, and what is
  lowered is closed and loses nothing;
* **artifacts**: a silent `--no-build` is one that is up to date;
* **configuration, rollout**: a configuration that loads can be used; a stack
  reads the state its producer wrote; generated packages are apart and find the
  core library;
* **schema, bindings**: no token is lost in compacting, problems come in schema
  order, the format is settled rightly; every record a generated module uses is
  declared, and holds as many blocks as the provider accepts.

## 2. Modules

| Module | Models | Extends / instantiates |
|---|---|---|
| `Pipeline` | invocations on one stack, side by side | |
| `MCPipeline` | its instances | `Pipeline` |
| `PipelineProofs` | theorems about it | `Pipeline` |
| `ApplyOrder` | what `build` promises about the order | |
| `StackOrder` | `build` without `--stack`, `stack_order`, `visit_stack` | `ApplyOrder` as `Promise` |
| `MCStackOrder`, `StackOrderProofs` | instance, theorems | `StackOrder` |
| `Generate` | `provider generate` for one provider | |
| `MCGenerate`, `GenerateProofs` | instance, theorems | `Generate` |
| `CycleSearch` | the depth-first search for a dependency cycle | |
| `CycleCheck` | the Lean and the Rust search on one document | `CycleSearch`, twice |
| `CycleSearchProofs` | theorems about the search on any graph | `CycleSearch` |
| `MCCycleCheck`, `CycleCheckProofs` | instance, theorems | `CycleCheck`; `CycleSearchProofs`, twice |
| `GraphExpr` | expressions and what the traversals find in them | |
| `GraphDocument` | the document, both validators, the builder's declarations | `GraphExpr` |
| `Lowering` | `lower` | `GraphDocument` |
| `Document` | one graph from the program to OpenTofu | `Lowering` |
| `DocumentProofs` | theorems | `Document` |
| `Template` | OpenTofu's reading of the templates that lowering writes | `Lowering` |
| `Meaning` | what OpenTofu reads in a lowered configuration | `Document`, `Template` |
| `MCDocument` | instance | `Meaning` |
| `ProjectConfig` | `inframe.toml`: what loads, paths, targets of generation | |
| `Staleness` | the artifact and `--no-build` | |
| `Rollout` | the commands of a project over time | `ProjectConfig`, `Staleness` |
| `MCRollout` | instance | `Rollout` |
| `RolloutProofs` | theorems about it, and about `Staleness` in it | `Rollout` |
| `Compact` | what the compacting reader does with a byte | |
| `CompactRead` | reading a file through it, in chunks | `Compact` |
| `SchemaDecode` | the one-pass decoder of provider schemas, both formats | |
| `SchemaPromise` | what decoding and then normalising would report | `SchemaDecode` |
| `SchemaWrite` | a normalised schema as JSON | `SchemaDecode` |
| `ProviderLoad` | loading a schema, from a file or from OpenTofu | `CompactRead`, `SchemaPromise`, `SchemaWrite` |
| `ProviderFacts` | what the proofs about it go by: invariants, facts about a node | `ProviderLoad` |
| `ProviderProofs` | theorems about it | `ProviderFacts` |
| `Bindings` | schema to bindings | `SchemaDecode` |
| `LeanShapes` | bindings to the records of Lean modules | `Bindings` |
| `ProviderRead` | from a loaded schema to modules | `ProviderLoad`, `LeanShapes` |
| `MCProviderRead` | instance | `ProviderRead` |

### Pipeline

A process is one invocation with its command line; `pc` names the stage it is
in and each action is one access to something shared. The stages are those of
`run_graph`, `check_stack`, `test_project` and `run_existing_json`:

    readGraph                                   --graph
    render -> openArtifact -> writeArtifact     Project::build
    test                                        Project::test
    gateClear -> gateSource -> gateBuild
      -> gateLoad -> gateEval -> gateRead       Project::run_gate
    writeBackend -> writeMain -> launch -> tofu run_graph, Workspace, OpenTofu
    openWorkspace -> tofu                       run_existing_json

A version of the sources is an opaque value; the constants `MainGraph`,
`ProgramGraph`, `GateHolds` and `TestsPass` say what its entry points do. The
artifact is written by `fs::write`, which truncates first, so it has an action
for the truncation and one for the content; workspace files are renamed into
place, one action each. `EditSource`, `EditConfig` and `Kill` are the outside
world. `since`, `intruded` and `clobbered` are history variables: the versions
that were current during a process's run, and the processes into whose gate run
or workspace another one wrote.

The code gives no exclusion, so the safety properties say exactly what an
invocation may rely on: *if nobody intruded*, the gate and the deployment are
those of its own graph. The two runs that drop this premise show what the
documentation says and the code does not give (section 5).

### StackOrder and ApplyOrder

`visit_stack` is recursive; the model keeps its stack explicitly: `path` is
`visiting`, `pos[k]` the index of the loop of frame `k` (the loop of
`stack_order` being the bottom one). A call that returns at once is `Skip`, one
that reports a cycle is `Close`, one that pushes is `Enter`, the end of a loop
is `Return`. `ApplyOrder` states what a user is promised in three actions:
place a stack whose reads are placed, print when all are, refuse only when some
stacks wait for one another; `KeepsPromise` says that `StackOrder` implements
it, with its fairness.

### Generate

The threads of one `thread::scope`: the hashing thread, the command, and per
target a crew of workers that share `next` and `failed`. `Look` reads the flag
(relaxed, so a set flag may be missed), `Claim` is the `fetch_add`, `Create`,
`Finish` and `Fail` are the three outcomes of one job, `Ask` and `Join` are the
`OnceLock` of the digest. A manifest's worker waits in `join` for the hashing
thread. An error leaves the scope only when the hashing thread has ended, which
is what `thread::scope` does. A job is known by its place in the sorted queue;
files of one package have different paths because the emitters' module names
differ (binding derivation refuses collisions).

### CycleSearch and CycleCheck

`CycleSearch` is the search both validators make, again with explicit frames;
`Fuel` is the set of depths at which a call has fuel left. `CycleCheck` runs it
twice on one document: as Lean does (edges in program order with repeats, roots
all addresses, fuel) and as Rust does (edges from a sorted set of
`<<from, to, explicit>>`, roots the keys of the map, no fuel).

### GraphExpr, GraphDocument, Lowering, Document, Template and Meaning

An expression is a tree of nodes of one form, whatever its `kind`, because the
traversals of the code (`references`, `collect_secret_environment_names`,
`validate_expr_structure`; `references`, `secretNames`, `validateStructure` in
Lean) differ only in what they do at a node: `Visited` is their common order.
Names are single values and the sets `Identifiers` and `EnvironmentNames` say
which of them the code accepts. `Expr` is the set of all expressions that nest
at most `MaxDepth` deep, and what the code computes by recursion is a recursive
function over it, so that something can be proved of it; `AnyDocument` and
`Graphs` are the documents and the printed graphs made of such expressions.

`Problems` lists what `GraphDocument::validate` would report, rule by rule and
in its order; the code returns the first. `LeanAccepts` is what the port in
`Validate.lean` accepts. A program is a series of declarations (`Declared`, one
case for each entry of `Inframe.Builder`). `Emit` prints its graph and decodes
what was printed; `Check`, `Resolve` and `Write` are the rest of
`Project::render`, and `write_graph`. `WriteByHand` gives a document no Lean
validator has seen, to the checks or, like `--graph`, straight to the lowering.

Neither printing nor decoding is the identity. Printing merges keys that Lean
keeps twice (`Encoded`). An address is printed as one text with dots in it, and
`Address::parse` takes that text apart again (`Parse`): it refuses names that
are no identifiers, also of the address a move comes from, which neither
validator looks at, and reads a name with a dot as part of another address
(`Segments` says what is between the dots of such a name). A document with an
address that is refused is not decoded, nor is one that nests deeper than
serde_json follows (`Nesting`, in levels of JSON) or holds a number it has no
value for (`OutOfRange`): then the command ends, `unreadable`. `Readable` is all
of this, and `DecodedGraph` what a readable document becomes.

A text is a sequence of tokens: a name is one token, a character the syntax
gives a meaning is one too, so escaping is modelled by what it does.
`RenderExpression`, `LowerExpr` and `Lower` follow the source. The reading of
a template (`ReadJson` and the `Read...` operators of `Template`) is OpenTofu's
and external; `Denoted` says what tree a reader should find for an expression.
`LoweredIsClosed` is about the parts of a configuration that name others, and
`MeaningKept` about its texts: no text mentions a block or a variable that the
configuration lacks (`TextsAreClosed`), and what is read in the text of an
expression that is `Plain` is what the expression denotes. `Plain` excludes
exactly what was found to change its meaning on the way:

* a conditional that is indexed, splatted, asked for an attribute or the
  condition of another one (section 5);
* a literal `$` or `%` at the end of one part of a template before a part that
  opens with `{` or is an interpolation: escaping looks at one part at a time;
* quoted text in an interpolation of a template that is itself quoted, where
  the quoting of the outer text also escapes the inner quotes;
* raw expressions, which are text and have no meaning of their own.

### ProjectConfig, Staleness and Rollout

`ProjectConfig` is `Project::load` and what is derived from the parsed file:
`Loads` is the conjunction of its checks, `StackFrontend`, `EntryPoint`,
`DefaultOutput`, `LeanCore`, `ProjectTargets` and `DirectTarget` the functions
of the same names. A path is a sequence of components with `.` and `..` among
them, and `Normalize`, `Join` and `RelativePath` are those of the code;
`Normalize` walks the components one after another (`Walk`, a recursive
function over places in the path). `Configuration` says what the parsed file
may be. Of the values of a backend only the keys that lead to them matter, to
the check for secrets, so a value is a set of paths of keys.

`Staleness` gives every file a version and a modification time. A build reads
the versions, and writes the artifact in a later step, with the time of then;
`Edit` and `Compile` may fall anywhere. `Look` is `--no-build`: it compares the
newest time of a source with the artifact's. `muddled` is history: an edit
between the reading and the writing of a build, or in the clock tick of the
artifact, is one no comparison of times can see.

`Rollout` is one project over time. `Apply` writes the backend of a stack into
its workspace, resolves the references to other stacks under the `--workspace`
of this run and runs OpenTofu; `ApplyGraph` does so from a graph file, without
project and without backend; `EditConfig` puts another configuration in place;
`Generate` computes the targets of `provider generate`. `backends` are the
files, `wrote` and `last` history: where each workspace's state went. Where a
backend keeps it (`StateOf`) is OpenTofu's behaviour and external.

### Compact, CompactRead, SchemaDecode, SchemaPromise, SchemaWrite, ProviderLoad, Bindings, LeanShapes, ProviderRead

`Compact` is the reader of `compact.rs`, byte by byte over five kinds of bytes,
with its fields; `AfterChunk` is one round of `read_compact_json`, which copies
the rest unread when the first chunk had nothing to drop. `Tokens` says what a
JSON reader makes of a text: a scanner that goes over it byte by byte
(`ScanStep`). `CompactRead` is the loop around it: `ReadChunk(n)` is a read that
returns `n` bytes, which the operating system may choose each time anew, and
`ReadEnd` the one that returns none. Both are recursive functions over places
in a text, so that something can be proved of them.

`SchemaDecode` works on JSON as a tree: `AnyJson` is the JSON that nests at most
`MaxNesting` deep, with any strings and numbers in it. A table (`Seeds`,
`MapSeeds`) says for each kind of object which fields it has, of which kinds,
and which are required; `ReadFields` and `ReadMap` read an object in document
order, `Finished` and `FinishedMap` are what its seed returns when the object
ends, and `ReadType`, `ReadObjectType`, `ReadTupleType` and the two of the
stored format read types. `Read[json][kind][path]` puts them together: a
function, recursive on what is inside the JSON, that says what a node is read
as by the seed of that kind at that schema path. A result is `Good`, `Bad` (an
error of the JSON, which ends the reading) or `Wrong` (a problem of the schema,
which is carried along until its node is used or dropped): the distinction the
decoder makes with its nested results.

`SchemaPromise` states what is promised of this without passes, as two more such
functions: whether JSON is well-formed as a node of a kind (`WellFormed`), and
the list of all its problems in schema order (`Problems`), from which `Promised`
takes the first. `SchemaWrite` is `canonical_json`: `AnyNode` are the types and
blocks that nest at most `MaxNesting` deep, and `NodeJson[node]` is what is written
of one, a function recursive on what is inside.

`ProviderLoad` is `load_provider_schema`: it reads a file chunk by chunk or asks
OpenTofu, decodes, decodes again uncompacted when there was a problem, and
checks the identity of a stored schema. Either reading of the file may fail, and so
may the runs of OpenTofu. Its
actions `Reading` and `EndOfFile` are those of `CompactRead` with the other
variables unchanged, and no other action touches the reader (`LoadReads`).
`ReadsBack` speaks of JSON that nests at most `MaxNesting` deep because writing can
nest deeper than what was read: the type `["object", {"a": t}]` becomes
`{"kind": "object", "value": {"a": {"type": t}}}`, one level more for each object
inside another, and serde_json stops at its recursion limit of 128. A schema with
some forty objects inside one another can be normalized and written, but not be
read again.

`Bindings` and `LeanShapes` continue with `derive_bindings` and the emitter's
`Shapes`: a public name is a sequence of words, so that the concatenation of
words, and the collisions it makes (`a_b` and `a` below `b`), are those of the
code. A record has fields, types (their layers: `Option`, `List`, `Map`,
`Input`) and the checks of `blocksInRange`. The index `declared` is the trie of
paths.

`ProviderRead` adds the two steps that follow in `generate_providers`: it
derives the bindings of the loaded schema and emits the modules. Neither
changes what was loaded, nor the way it was, so what is proved of `ProviderLoad`
holds here; the prover cannot be asked to say so, because this module uses
operators declared `RECURSIVE`.

## 3. Runs

| Run | Shows | Bounds |
|---|---|---|
| `pipeline` | `TypeOK`, `GateSound`, `DeployedIsChecked`, `MismatchIsReal`, `TestsSound`, `WorkspaceOnlyAfterChecks`, `Terminates` | two processes, seven command lines, four versions of the sources, two configs, one edit |
| `pipeline_race` | violates `GraphDeployedIsGraphChecked` | two processes |
| `gate_race` | violates `GateHoldsForTheGraph` | two processes |
| `stack_order` | `Deployable`, `CycleIsReal`, `KeepsPromise` | four stacks, two references each, self-reference and undeclared name included |
| `generate` | `OneWriter`, `SuccessIsWhole`, `ManifestAfterModules`, `JoinedOnce`, `Ends` | three workers, packages of four and three files |
| `generate_first_error` | violates `FirstErrorReturned` | as `generate` |
| `cycle_check` | `VerdictsAreRight`, `CyclesAreReal`, `FuelNeverRunsOut` | four addresses, two references each |
| `document` | `GateSpeaksForTheCli`, `OnlyKeysAndOutputsDiffer`, `LoweredIsClosed`, `NothingOverwritten`, `MeaningKept` | programs of three out of 40 declarations; every expression of two levels above five leaves; all short strings and seams of templates |
| `attribute_operand` | violates `AttributeOfAnyExpression` | the same expressions |
| `unreadable_move` | violates `RejectedInLean` | a resource, and a move to it |
| `rollout` | `ReadsTheProducer`, `GraphRunKeepsState`, `LoadedIsUsable`, `CoreIsReached`, `TargetsApart`, `SilenceMeansFresh`, `AlarmIsReal` | two stacks, ten configurations, three workspaces, six command lines; two sources, one built file, three ticks |
| `provider` | `TokensKept`, `ErrorsInOrder`, `FormatSettled`, `ReadsBack`, `ShapesDeclared`, `BlocksWithinSchema` | every text of up to five bytes in every chunking; families of schema documents |

Why these bounds are enough. `Pipeline`: the interference is pairwise (one
process acts inside another's window), so two processes meet every window with
every action; the four versions are the four ways `main`, program and gate may
relate (agree and hold, agree and fail, differ, do not compile), and one edit
moves between any two of them. The two processes do the same and no property
tells them apart, so of two assignments of command lines that are exchanges of
one another the run starts from one (`Ordered`). `StackOrder` and `CycleCheck`: with four nodes
there are cycles of every length up to four, chains into a cycle, diamonds, and
nodes reached twice. `Generate`: three workers give one that joins the hashing
thread, one that fails and one that goes on; two targets give the second asker
of the digest. The proofs remove the bounds for the safety properties listed in
section 6.

`Document`: a rule of the validators compares at most two declarations with
one another and a third one they refer to, and the menu has a declaration that
meets and one that breaks each rule, so three of them reach each rule in each
of its cases and in the company of another. For the decoder it has names that
are no identifiers in a reference, in the target of an import and in the origin
of a move, a name with a dot that turns an address into another one, a number out of range and an expression that
nests one level deeper than the bound of the reader. A rendering depends on a node and
what is directly in it; two levels put every kind into every operand of every
other. `Rollout`: a property relates two stacks under one workspace, and the
configurations have a local and a remote backend, a default and a configured
path, one and two frontends, default and named outputs; six of the ten are
refused, each by another check. `Staleness`: three ticks are before, during
and after an artifact, and two sources tell the newest time from the oldest.
`MCRollout` runs commands and artifacts in one behaviour each (`CONSTRAINT
Apart`): they share no variable and no property mentions both, so no state of
one could change a verdict about the other. `ProviderRead`: the compacting reader remembers one
byte and three flags, so five bytes hold every transition between them across a
chunk's end, the first and a later one; the documents are families, each
the product of what one rule tells apart (types, attributes beside one another,
blocks in blocks, parts of the document, stored files), with repeated names and
every order.

Named bounds: `MaxEdits` in `Pipeline`, `MaxDepth` in `GraphExpr` (four: no
expression of the runs nests deeper, or its traversal would not be defined),
`MaxDeclarations` in `Document`, `MaxTime` in `Staleness`, `MaxNesting` in
`SchemaDecode` (24: no document of the run and no schema written from one nests
deeper). `MaxNesting` in `GraphExpr` is not a bound of the check but the limit of
the reader, 127 levels in the code: 11 here, so that a document can exceed it. `CHECK_DEADLOCK FALSE` is set because the systems end:
processes are done, an order is printed, a command has returned.

## 4. Fairness

* `Pipeline`: weak fairness of each started process's next step. A process is
  scheduled by the operating system and the tools it waits for (`lake`,
  `spago`, `tofu`) are taken to end. Nothing is assumed about edits or kills,
  and a process need not be started.
* `StackOrder`: weak fairness of the one process.
* `Generate`: weak fairness of the hashing thread, of the command and of each
  worker: threads of one process.

* The document, rollout and provider families state safety only: they are a
  command's steps in sequence, or a user's commands, and no fairness is assumed.

No strong fairness is used.

## 5. Findings

* `pipeline_race`: `run_graph` writes `main.tofu.json` and then starts OpenTofu,
  and nothing keeps another invocation from replacing the file in between.
  `Gate.lean` says "so the graph that is deployed is the graph that was
  checked".
* `gate_race`: two invocations share `gates/<stack>`; one can read back the
  other's `graph.json`. `check_stack` says the commands run only after "its
  gate holds for `graph`".
* `generate_first_error`: `write_files` says "the first error is returned"; it
  returns the error of the first worker joined, which need not have failed
  first.
* `attribute_operand`: `Expr::Attribute` is documented as an attribute "of a
  computed value, `of.name`: an element of a nested block, a splat, or any other
  expression that is not a plain reference", and `render_expression` puts
  `.name` behind whatever it renders, without parentheses. For a conditional
  the attribute is one of its last branch: `c ? x : y.name`.
* `unreadable_move`: `Validate.lean` says that "a graph that the CLI would reject
  fails to compile instead" where its validity is proved. `validateMoves` looks
  at the targets of moves only, and `moved` takes any `Address` as the origin, so
  `moved (.resource "bad name" "x") handle` is valid in Lean, and the CLI cannot
  decode the document: `Address::parse` refuses the text of the origin. The same
  goes for import ids, nesting and numbers (below).

Smaller things met on the way, listed so that nobody takes the models for
stricter than the code:

* `--no-build` cannot see a deleted source, a file put back with its old time,
  an edit during a build or in the artifact's tick; a file that is only touched
  raises a warning, while the model counts every edit as a new version.
* Lean checks the names of outputs, Rust does not; an import id of white space
  only Rust knows passes Lean. (`Validate.lean` says that only `duplicateKey`
  has no counterpart.) Lean also accepts a graph whose JSON nests more than 127
  levels deep or holds a number past the largest `f64`, which `build` cannot
  read. These and the moves of the finding above are the exceptions
  `GateSpeaksForTheCli` names; of what is modelled there are no others. An address with a dot in a
  name may reach the CLI as another one that is declared (`data.t` and `a` as the
  data source `t.a`): `OnlyKeysAndOutputsDiffer` names it. The arguments of a provider have no edges, so a cycle
  through them is not found.
* `load` accepts a stack that names no frontend when both are configured, unless
  it has a gate; the build refuses it. `provider generate --source ... --frontend lean --output X`
  is refused in a project without Lean frontend, and without `--output` it
  generates. Two frontends in one directory generate into one
  `.generated/<name>`.
* A consumer reads its producer where the producer is configured *now* and
  under *this* run's `--workspace`; what an earlier configuration wrote
  elsewhere is not looked for. `ReadsTheProducer` says so in its premise.
* Public names of fields, and of nested types, may collide (`a_b` beside `a`
  with a block `b`); Lean then refuses the module. `ShapesDeclared` and
  `BlocksWithinSchema` are about modules in which they do not (`NamesApart`).
  Blocks nested in a map are not counted.
* An argument of a provider named `alias` is replaced by the alias the provider
  has, as arguments of blocks named as a meta-argument are
  (`NothingOverwritten` excepts both). A configuration may name one output
  directory for two packages, which nothing checks; `TargetsApart` is about the
  others.

## 6. Proofs

Every theorem is stated for all values of the constants under the named
assumptions of its module (`ConfigAssumption`, `ArgsAssumption`,
`NoneAssumption`, `ToolAssumption` of `Pipeline`; `NameAssumption`,
`KeysAssumption`, `RefListsAssumption` of `StackOrder`; `PackagesAssumption`,
`ManifestAssumption`, `WorkersAssumption`, `NoneAssumption` of `Generate`;
`NodeAssumption`, `ReferencesAssumption` of `CycleCheck`; `FilesAssumption` of
`Staleness`; `PathsAssumption`, `LiteralsAssumption`, `ComponentsAssumption` of
`ProjectConfig`; `ConfigsAssumption`, `ArgumentsAssumption`, `ReadsAssumption` of
`Rollout`; `DepthAssumption`, `NestingAssumption`, `NamesAssumption`,
`SegmentsAssumption` of `GraphExpr`;
`ProgramAssumption`, `SceneAssumption`, `HandwrittenAssumption`,
`BackendAssumption` of `Document`; `ChunksAssumption` of `CompactRead`;
`OrderAssumption`, `NestingAssumption` of `SchemaDecode`; `FilesAssumption` of
`ProviderLoad`), which TLC evaluates on every
run. They say what the constants are, and six say something of the code:
`ManifestAssumption` is how both emitters list a manifest (weightless, after
the modules), `ComponentsAssumption` what `valid_component_name` refuses
(`.`, `..` and nothing), and `ChunksAssumption` that a read before the end of a
file returns a byte; `NamesAssumption` says that identifiers are strings, that the type of the node
a stack reference becomes is one and the empty name, a string as well, is none,
and `SceneAssumption` that what the program starts from requires no provider twice.
`SegmentsAssumption` says that no identifier has a dot in it.
`LiteralsAssumption` only says that the names of
directories in the code are strings, of which the prover knows nothing by
itself.

Where a recursive function is reasoned about, there is no induction: the prover
cannot instantiate the induction theorems of the library. A fact about all
prefixes, walks or sets is proved by its least counterexample instead
(`LeastNumber`): the set of numbers for which it fails would have a least
element, which is not 0, and the step from the one before refutes it.

**PipelineProofs.** The invariant `IInv` ties each process's label to what it
has established: what it has loaded, which config and arguments lead there,
what its gate run elaborated, and, when nobody intruded, what the gate's files
hold. `GateSound`, `DeployedIsChecked`, `TestsSound` and `MismatchIsReal` are
not inductive by themselves: at `gateRead` a process only sees a file, so the
invariant has to say, for every label of the gate's window, whose content that
file is; likewise for `launch` and `tofu` and the workspace. The proof has one
step per action; a process that is not the acting one is handled by a lemma
(`EvidenceInvariance`) that says its evidence survives what others do, with the
history variables recording when it does not.

**StackOrderProofs.** The invariant says that the path is a simple chain of
references (`Reached`, `Apart`), that the frames' positions lie in their loops
and everything before a position is in the order or is being visited (`Passed`),
that the order is closed under references and has no repeats (`Deployable`), and
that a reported cycle is cut out of the path (`CycleIsReal`).
`ChainDeadlocks` turns the reported cycle into a set of stacks that wait for one
another, which is the guard of `ApplyOrder`'s `Refuse`; with that every step of
`StackOrder` is a step of `ApplyOrder` or a stutter (`ImplementsApplyOrder`).

**GenerateProofs.** For any list of packages and any number of workers. The
properties are about ends (a command that succeeded, a package left behind), the
invariant about every place of the queue in between: `Untouched` (not claimed,
old), `Held` (a worker has it, alone, and it is not whole), `Failures` (a failed
worker left it so for good) and `Accounted` (what was claimed is whole or held
until somebody fails). `Leaves` says that a worker goes only when the queue is
used up or somebody failed, so `Collect` with no error finds every place whole.
`Digests` ties the manifests to the hashing thread. Steps that change neither a
place nor a result are dealt with once, by the lemma `Quiet`.

`ManifestAfterModules` adds to this what the order of the queue is. A worker
that waits for the digest holds a manifest (`Asking`), and a place that was
claimed (`Held`); every module is at an earlier place, because the queue is in
the order of weights and then of the list. That `Sorted` has this order needs
that some arrangement of the jobs does (`SortingExists`: the last job is put
behind a sorting of the others, in a smallest set of jobs that had none). From
the same lemma a queue is a permutation of its package (`NothingDropped`), so
that success means that every file the emitter listed was written
(`SuccessWritesEveryJob`), which `SuccessIsWhole` alone says of queues only.

**CycleSearchProofs.** For any finite set of nodes, under `Input`, which says
what the callers see to: every node with dependencies is a root and there is
fuel at each depth up to the number of nodes. The invariant is the one of the
frames again, and `Explored`: explored nodes depend on explored ones, and no
part of them waits for itself. That the fuel lasts is the pigeonhole principle
(`FuelLasts`, by `FS_Injection`): the path is an injection into the nodes.

**CycleCheckProofs.** Instantiates `CycleSearchProofs` once for Lean and once
for Rust, shows `Input` for both, and that the two edge lists have the same
elements (`UpstreamIsSorted`, `SameEdges`). For that a sorted set must have a
listing: `AscendingExists`, by a smallest counterexample. The verdicts then
agree because both are right about the same graph.

**RolloutProofs, artifacts.** For any files and any bound of time. `SilenceMeansFresh` is
not inductive: that no source is younger than the artifact says nothing of
versions unless times and versions are tied together file by file, and kept tied
by builds that have started and not ended. The invariant `IInv` ties them:
`LaterIsEdited` (a source younger than the artifact has another version than the
one it was built from) and `EditedIsLater` (the converse, as long as nothing is
`muddled`), with `PastOnly` (no time is in the future, so a new artifact is
not older than any source, and nothing was built from a later version) and `SaidRight` (the last answer is the one the
comparison would give now, because an edit withdraws it). A build that ends
either sees the versions it started with, and then both sides are empty, or is
`muddled`.

**RolloutProofs, the commands.** The properties compare a command with an earlier one: where a
producer wrote, under which backend, with where its reader looks now. None is
inductive; the invariant (`RolloutInv`) says of every workspace that it holds
the backend of its last project run and that this run wrote where the backend
says *from the directory of the workspace* (`WroteWhereItSays`), of the last
command that what it read or wrote is what a setting says from some directory
(`LastRight`), and of the generated packages that a request and the
configuration gave them (`GeneratedByRequest`). `Clock` is what `TypeOK` needs
beside it. On top of the invariant the substance is about paths: a walk along a
concatenation is one walk after the other, a relative path is walked from where
the other one leads, a path means what the absolute path made of it means, and
`RelativePath` leads from one directory to the other for any two
paths, with the longest common prefix found by `CHOOSE`
(`CoresAreReached`); `TargetsAreApart` goes through the cases of requests and
frontends, with packages apart because the component names of the configuration
lead down. The variables of `Staleness` in `Rollout` implement `Staleness`
(`LookingGoesOn`: every command is one of its steps or leaves it alone), so its
theorems hold in every rollout.

**ProviderProofs, the reader.** `TokensKept` is about the end of a reading, the
invariant (`ReadInv`) about every prefix: what was kept and what was read,
scanned side by side, have the same tokens, and the scanner is at the same place
in both unless whitespace is held back, when it is between tokens in the text
and may still be in an atom in what was kept (`Agrees`). The flags of the reader
are the scanner's place in the text, the last byte kept tells whether the
scanner is in an atom, and without any whitespace dropped both are the same
text, which is why the rest of a file may be copied unread after the first
chunk. One byte keeps all this (`PushAgrees`, by the kinds of bytes and places),
then a chunk does, by its least place where it fails.

**ProviderProofs, the decoder.** For JSON of any depth, with any strings in it.
`Read`, `WellFormed` and `Problems` are recursive on what is inside a node; that
each is the function its equation describes is proved level by level of the
JSON (`ReadIs`, `WellFormedIs`, `ProblemsIs`), and what holds of a node whenever
it holds of everything inside it holds of all JSON (`JsonInduction`, by the
least depth at which it fails). Two facts are proved by it, kind by kind.

`Same`: a node of a stored schema that the shared pass of both formats takes is
read the same by the derived impls. The shared pass takes less - the kind of a
type before its value and nothing beside them -, so the converse fails, and the
decoder reads such a file twice. With `FormatAgrees`, for the fields of the
document itself, the shared pass meets an error whenever it could not tell, and
`ReadingSettles` goes through the outcomes.

`Held`: a node of the raw format is read without an error exactly when it is
well-formed, and then its result has a problem exactly when it has problems, the
first of them. The two sides are made differently: the decoder collects the
results of an object in document order, sorts them or merges repeated names, and
looks for the first that is wrong; the promise goes through the names in order,
takes the last value of each and concatenates their problems. `Together` is the
relation between a list of results and a list of problems that all of this
preserves: of one result (`TogetherOne`), of lists flattened (`FlatTogether`), by name (`ByNameTogether`),
by field (`ByFieldTogether`) and by item (`ByItemTogether`). Then each kind of
node follows from its parts in the order its seed looks at them (`BlockTells`,
`NestedBlockTells`, `AttributeTells`, `TypeTells` and the others), so all JSON
holds (`ReadingTells`); the provider that is chosen and the order of its three
parts give `ReadingInOrder`.

**ProviderProofs, writing.** That a schema is read back as it was holds of the
schemas that reading makes, and not of every value of their type: maps come back
in order and with one entry for each name. So there are two halves. A map is
`Settled` when reading it again leaves it as it is, which is shown of everything
that was sorted (`SortedSettles`); then all that is read of the raw format
without a problem is settled, and what is inside it is, down to any depth (`Fits`,
kind by kind, and `RawFits` by induction on the JSON). The other half goes over
the kinds of nodes that are written: every object has each of its fields once, a
field that is left out is one whose default is read, and a type is written in the
form that the shared pass and the derived impls both take (`WrittenRead`,
`MapBack`, `GivenBack`, `TypeBack`, `BlockBack`), so a node is read back if
those inside it are (`ReadAs`, `Fitting`). Together they give `WrittenIsReadBack`
and, with the loader's invariants, `LoadReadsBack`.

**ProviderProofs, the loader.** `ErrorsInOrder`, `FormatSettled` and `ReadsBack`
speak of what was decoded; the invariant (`LoadInv`) says that it was decoded from
the tree by the way the input was given, and that no stage of one way is reached
on the other. `ReadsBack` takes another: that nothing is derived of a schema with
a problem (`LoadDerives`). The rest is what was proved of the decoder. Every step
of the loader is one of the reader or leaves it alone (`LoadReads`), which gives
it `TokensKept`.

**DocumentProofs.** For any menu of declarations, any number of them and
expressions of any depth. What a command does with one graph is a handful of
steps, and the invariant (`StateInv`) is short: the graph is one the builder can
print, with no provider and no output twice; a document that was checked is
valid; a configuration is there exactly when lowering returned no error, and
then it is `Lower` of the document. The work is in the data. The checks and the
encoder are recursive functions over expressions; each is known by its equation
at a node, proved depth by depth, and what holds of a node whenever it holds of
its parts holds of every expression (`ExprInduction`, by the least depth at
which it fails). With that, `ValidMeans` shows that the list of problems Rust
would report is empty exactly when a declarative predicate holds
(`RustAccepts`: every rule said with quantifiers), `LeanMeans` the same for
Lean, and `EncodedGraphIs` with `EncodedKeepsAll` what printing keeps: it adds no
node and drops none unless a key is repeated, and the rest of the graph is the
same up to order, so that the two predicates can be compared on what each side
sees (`SameForRust`).
Decoding comes on top of that. `Decoded` changes nothing but addresses, so what
it makes of an expression or of a document in which every address is read as
itself is the same again (`DecodedSelf`, `DecodedFits`; the origins of moves may
change, and no rule looks at them). The addresses of a document Rust accepts are
declared, their names are identifiers, and the text of such an address is parsed
as that address (`ParseSelf`, `AcceptedReadAlike`): only the origins of moves and
the limits of the reader can keep it from being decoded.
`GateSpeaks` is one direction (Lean accepts, then the CLI decodes the document and
accepts it, but for the exceptions of section 5), `OnlyTheseDiffer` the other (the
CLI accepts, then Lean does, or a key is repeated, an output's name is none or an
address was read as another one); for both the invariant says that a document
was decoded exactly if it was readable. For `LoweredCloses` and `LoweredApart`, a configuration without
error comes of a document that `lower` found valid and without references to
stacks (`LowerIs`); the places of its blocks then differ, and so the map of
blocks holds every one of them (`LoweredBlocks`); providers are lowered in their
order, each to its own arguments (`KeysLowered`). `DocumentTypeOK` needs the invariant too: that the document
in a command is one is not to be had without the resolved stack references
being blocks again (`ResolvedTyped`).

Only model-checked:

* the liveness properties (`Terminates`, `Ends`, and the fairness part of
  `KeepsPromise`), because fairness and ENABLED are beyond the prover;
* `MeaningKept` of `Document`: OpenTofu's parser goes over a text and back into
  it (an interpolation in a quoted text in an interpolation), and is written with
  RECURSIVE operators in `Template`; that reading undoes rendering is an
  induction over both the expression and what stands around it;
* `ShapesDeclared` and `BlocksWithinSchema` of `ProviderRead`. Their substance is
  recursion over types, blocks and tries of names, written with RECURSIVE
  operators in `Bindings` and `LeanShapes`; what those compute for every input
  takes an induction over data, and no theorem may be stated in a module that
  uses them.

## 7. Not modelled and why

* **Schema inspection**: it reads a schema and prints a report; it changes
  nothing and its substance is the layout.
* **PureScript core library**: its builder makes the declarations of the Lean
  one, without a validator. Its documents reach the CLI as JSON like any other
  and are among those written by hand in `Document`.
* **What the emitters write**: the text of decoders, encoders, handles and of
  the PureScript modules, and reserved field names; for Lean the records, their
  types and ranges are modelled.
* **Lean metaprograms of the gate** (axiom checks): what Lean elaborates is a
  constant of `Pipeline`. Policies are theorems in Lean already.
* **Lean core library**: resource options other than triggers and dependencies,
  `RemoteState` and the deriving of encoders are wrappers around the modelled
  declarations; `Identifier` is about characters.
* **CLI**: `inframe init` and the module roots of generated packages, the loops
  over all stacks of `test` (each iteration is a run of `Pipeline`), `graph
  schema` (prints a constant), arguments passed on to `tofu`, and the decoding
  of what `show` and `output` print.
* **Schema**: the interner (not visible in values), UTF-8, the forms of a struct
  as a JSON array that the derived decoders also take, and the bootstrap
  directory `acquire` writes. Reading a file twice is modelled with the same
  content both times. The parser refuses to read JSON that nests more than 128
  deep, which is not modelled: the theorems hold for every depth.
* **Lifecycle options** other than replacement triggers: copied as they are.
* **Numbers and other scalars** of a document are opaque: that serde_json rounds
  a number to the nearest `f64` is left out, that it refuses one past the
  largest is not (`OutOfRange`).
* **Examples, fixtures, scripts**: inputs and glue.
