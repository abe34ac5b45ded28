------------------------------ MODULE Pipeline ------------------------------
(***************************************************************************)
(* Invocations of the `inframe` command line on one stack, run side by     *)
(* side: `build`, `test`, the lifecycle commands (`init`, `plan`, `apply`  *)
(* ...) and the commands that only look at an existing workspace (`show`,  *)
(* `output`).  An invocation is a sequential process; what the processes   *)
(* share is files, and the code takes no lock on any of them:              *)
(*   - the sources and the project config, which a person may edit at any  *)
(*     moment, and the modules Lake compiled from them;                    *)
(*   - the graph artifact graphs/<stack>.json;                             *)
(*   - the gate directory gates/<stack>, with Gate.lean and graph.json;    *)
(*   - the OpenTofu workspace stacks/<stack>, with backend.tofu.json and   *)
(*     main.tofu.json.                                                     *)
(* A process may be killed between any two steps; its files stay behind.   *)
(*                                                                         *)
(* A version of the sources is an opaque value; the constants MainGraph,   *)
(* ProgramGraph, GateHolds and TestsPass say what its entry points do.     *)
(***************************************************************************)
EXTENDS Naturals

CONSTANTS
  Proc,          \* the invocations; each is given one command line
  Args,          \* the command lines they may be given
  Source,        \* versions of the stack's sources
  Graph,         \* Graph IR documents
  Gate,          \* gate tables a config may hold
  Backend,       \* backend configurations
  Config,        \* versions of the stack's part of inframe.toml
  Foreign,       \* documents a file named by --graph may hold
  Valid,         \* the graphs the reference validator accepts
  Referring,     \* the graphs with a stack reference
  Compiles,      \* the versions that compile
  MainGraph,     \* what the entry point `main` of a version prints
  ProgramGraph,  \* what the program of a gate builds in a version
  GateHolds,     \* the gates that hold, in which versions
  TestsPass,     \* the versions whose test entry point succeeds
  MaxEdits,      \* bound: edits of the sources and of the config
  None,          \* no value; a file that does not exist
  Torn           \* a file that was truncated and not (wholly) written

Commands == {"init", "validate", "plan", "apply", "destroy"}

ASSUME ConfigAssumption ==
  Config \subseteq [test: BOOLEAN, gate: Gate \cup {None}, backend: Backend]

ASSUME ArgsAssumption ==
  Args \subseteq [kind: {"run", "build", "test", "show"}, cmd: Commands,
                  skip: BOOLEAN, file: {"none", "artifact", "foreign"}]

ASSUME NoneAssumption ==
  /\ None \notin Graph \cup Gate \cup Source \cup Backend
  /\ None \notin Gate \X Source
  /\ None \notin [main: Graph \cup {None}, backend: Backend \cup {None}]
  /\ Torn \notin Graph /\ Torn # None

ASSUME ToolAssumption ==
  /\ MainGraph \in [Source -> Graph \cup {None}]
  /\ ProgramGraph \in [Gate \X Source -> Graph \cup {None}]
  /\ GateHolds \subseteq Gate \X Source
  /\ \A held \in GateHolds : ProgramGraph[held] # None
  /\ Compiles \subseteq Source /\ TestsPass \subseteq Compiles
  /\ \A s \in Source : MainGraph[s] # None => s \in Compiles
  /\ Valid \subseteq Graph /\ Referring \subseteq Graph /\ Foreign \subseteq Graph
  /\ MaxEdits \in Nat

VARIABLES
  source, config, edits,         \* what a person edits
  compiled,                      \* the version the compiled modules hold
  artifact,                      \* graphs/<stack>.json
  gateLean, gateGraph,           \* gates/<stack>/{Gate.lean,graph.json}
  backend, main,                 \* stacks/<stack>/{backend,main}.tofu.json
  pc, arg, conf, graph,          \* per process: where it is, its arguments,
                                 \* the config it loaded, its graph
  tested, loaded,                \* the version whose tests passed; the gate
                                 \* and version its Lean run elaborated
  read,                          \* what its OpenTofu process read
  since,                         \* history: versions current during its run
  intruded, clobbered            \* history: whose gate run, whose workspace
                                 \* another process wrote into meanwhile

edited    == <<source, config, edits>>
gateDir   == <<gateLean, gateGraph>>
workspace == <<backend, main>>
history   == <<since, intruded, clobbered>>
vars == <<source, config, edits, compiled, artifact, gateLean, gateGraph,
          backend, main, pc, arg, conf, graph, tested, loaded, read,
          since, intruded, clobbered>>

GateWindow   == {"gateSource", "gateBuild", "gateLoad", "gateEval", "gateRead"}
DeployWindow == {"writeMain", "launch", "tofu"}
Active == {"readGraph", "render", "openArtifact", "writeArtifact", "test",
           "gateClear", "writeBackend", "openWorkspace"}
             \cup GateWindow \cup DeployWindow
Refusals == {"unreadable", "notBuilt", "testsFailed", "gateNotBuilt",
             "gateFailed", "gateMissing", "gateMismatch", "notResolved",
             "notLowered", "noSecrets", "noTofu", "noWorkspace", "tofuFailed"}
Label == {"idle", "done", "killed"} \cup Active \cup Refusals

Goto(p, label) == pc' = [pc EXCEPT ![p] = label]

(***************************************************************************)
(* check_stack, test_project and gate_stack as the order of a process's    *)
(* stages: what follows what, given its arguments and its config.          *)
(***************************************************************************)
AfterTests(p) ==
  IF conf[p].gate = None
    THEN IF arg[p].kind = "test" THEN "done" ELSE "writeBackend"
    ELSE IF arg[p].kind = "test" THEN "render" ELSE "gateClear"

\* Fault: the workspace is written first, the checks are left for later.
ChecksLast(p) == IF arg[p].kind = "build" THEN "done" ELSE "writeBackend"

AfterBuild(p) ==
  IF arg[p].kind = "build" THEN "done"
  ELSE IF arg[p].skip THEN "writeBackend"
  ELSE IF conf[p].test THEN "test"
  ELSE AfterTests(p)

AfterRender(p) == IF arg[p].kind = "test" THEN "gateClear" ELSE "openArtifact"
AfterGate(p)   == IF arg[p].kind = "test" THEN "done" ELSE "writeBackend"

-----------------------------------------------------------------------------
Init ==
  /\ source \in Source /\ config \in Config /\ edits = 0
  /\ compiled \in Source \cup {None}
  /\ artifact = None /\ gateLean = None /\ gateGraph = None
  /\ backend = None /\ main = None
  /\ pc = [p \in Proc |-> "idle"]
  /\ arg \in [Proc -> Args]
  /\ conf = [p \in Proc |-> None]
  /\ graph = [p \in Proc |-> None]
  /\ tested = [p \in Proc |-> None]
  /\ loaded = [p \in Proc |-> None]
  /\ read = [p \in Proc |-> None]
  /\ since = [p \in Proc |-> {}]
  /\ intruded = {} /\ clobbered = {}

\* A person saves another version of the sources, or of the config.
EditSource ==
  /\ edits < MaxEdits /\ edits' = edits + 1
  /\ \E s \in Source \ {source} :
       /\ source' = s
       /\ since' = [p \in Proc |-> IF pc[p] \in Active THEN since[p] \cup {s}
                                   ELSE since[p]]
  /\ UNCHANGED <<config, compiled, artifact, gateDir, workspace, pc, arg, conf,
                 graph, tested, loaded, read, intruded, clobbered>>

EditConfig ==
  /\ edits < MaxEdits /\ edits' = edits + 1
  /\ \E c \in Config \ {config} : config' = c
  /\ UNCHANGED <<source, compiled, artifact, gateDir, workspace, pc, arg, conf,
                 graph, tested, loaded, read, history>>

(***************************************************************************)
(* The dispatch of main: Project::load reads the config once.  A test run  *)
(* without a gate still goes to its tests, to be told there are none.      *)
(***************************************************************************)
FirstStage(p) ==
  IF arg[p].kind = "show" THEN "openWorkspace"
  ELSE IF arg[p].kind = "run" /\ arg[p].file # "none" THEN "readGraph"
  ELSE IF arg[p].kind = "test" /\ (config.test \/ config.gate = None) THEN "test"
  ELSE "render"

Start(p) ==
  /\ pc[p] = "idle"
  /\ Goto(p, FirstStage(p))
  /\ conf' = [conf EXCEPT ![p] = config]
  /\ since' = [since EXCEPT ![p] = {source}]
  /\ UNCHANGED <<edited, compiled, artifact, gateDir, workspace, arg, graph,
                 tested, loaded, read, intruded, clobbered>>

\* Fault: a file that does not decode is taken for a graph.
ReadUndecoded(p) ==
  /\ pc[p] = "readGraph"
  /\ \E g \in IF arg[p].file = "artifact" THEN {artifact} ELSE Foreign :
       Goto(p, "writeMain") /\ graph' = [graph EXCEPT ![p] = g]
  /\ UNCHANGED <<edited, compiled, artifact, gateDir, workspace, arg, conf,
                 tested, loaded, read, history>>

\* Fault: wait for the artifact to be there and whole instead of giving up.
ReadAwaited(p) ==
  (arg[p].file = "artifact" => artifact \in Graph) /\ ReadUndecoded(p)

\* read_graph: the file --graph names is the artifact, or any other document.
ReadGraph(p) ==
  /\ pc[p] = "readGraph"
  /\ \E g \in IF arg[p].file = "artifact" THEN {artifact} ELSE Foreign :
       IF g \in Graph
         THEN Goto(p, "writeMain") /\ graph' = [graph EXCEPT ![p] = g]
         ELSE Goto(p, "unreadable") /\ UNCHANGED graph
  /\ UNCHANGED <<edited, compiled, artifact, gateDir, workspace, arg, conf,
                 tested, loaded, read, history>>

\* Project::render: compile and run `main`, decode and validate what it prints.
Render(p) ==
  /\ pc[p] = "render"
  /\ compiled' = IF source \in Compiles THEN source ELSE compiled
  /\ IF MainGraph[source] \in Valid
       THEN /\ Goto(p, AfterRender(p))
            /\ graph' = [graph EXCEPT ![p] = MainGraph[source]]
       ELSE Goto(p, "notBuilt") /\ UNCHANGED graph
  /\ UNCHANGED <<edited, artifact, gateDir, workspace, arg, conf, tested,
                 loaded, read, history>>

(***************************************************************************)
(* write_graph of project.rs: fs::write truncates the artifact and then    *)
(* fills it.  Of two writers that both truncated first, the later one      *)
(* overwrites the earlier one's bytes and may leave its tail behind.       *)
(***************************************************************************)
OpenArtifact(p) ==
  /\ pc[p] = "openArtifact"
  /\ artifact' = Torn
  /\ Goto(p, "writeArtifact")
  /\ UNCHANGED <<edited, compiled, gateDir, workspace, arg, conf, graph, tested,
                 loaded, read, history>>

WriteArtifact(p) ==
  /\ pc[p] = "writeArtifact"
  /\ artifact' \in {graph[p]} \cup (IF artifact = Torn THEN {} ELSE {Torn})
  /\ Goto(p, AfterBuild(p))
  /\ UNCHANGED <<edited, compiled, gateDir, workspace, arg, conf, graph, tested,
                 loaded, read, history>>

\* Fault: the exit status of the test entry point is not looked at.
TestUnjudged(p) ==
  /\ pc[p] = "test"
  /\ compiled' = IF source \in Compiles THEN source ELSE compiled
  /\ Goto(p, AfterTests(p)) /\ tested' = [tested EXCEPT ![p] = source]
  /\ UNCHANGED <<edited, artifact, gateDir, workspace, arg, conf, graph, loaded,
                 read, history>>

\* Project::test: compile and run the test entry point of the sources as they
\* are now, which may not be the ones `main` was run from.
Test(p) ==
  /\ pc[p] = "test"
  /\ compiled' = IF source \in Compiles THEN source ELSE compiled
  /\ IF conf[p].test /\ source \in TestsPass
       THEN Goto(p, AfterTests(p)) /\ tested' = [tested EXCEPT ![p] = source]
       ELSE Goto(p, "testsFailed") /\ UNCHANGED tested
  /\ UNCHANGED <<edited, artifact, gateDir, workspace, arg, conf, graph, loaded,
                 read, history>>

(***************************************************************************)
(* Project::run_gate, a step per access to the shared gate directory.  A   *)
(* process that steps here intrudes on every other one inside its window.  *)
(***************************************************************************)
Intrude(p) ==
  intruded' = intruded \cup {q \in Proc \ {p} : pc[q] \in GateWindow}

GateClear(p) ==
  /\ pc[p] = "gateClear"
  /\ gateGraph' = None
  /\ Goto(p, "gateSource") /\ Intrude(p)
  /\ UNCHANGED <<edited, compiled, artifact, gateLean, workspace, arg, conf,
                 graph, tested, loaded, read, since, clobbered>>

\* Gate.lean states the gate the process's config names.
GateSource(p) ==
  /\ pc[p] = "gateSource"
  /\ gateLean' = conf[p].gate
  /\ Goto(p, "gateBuild") /\ Intrude(p)
  /\ UNCHANGED <<edited, compiled, artifact, gateGraph, workspace, arg, conf,
                 graph, tested, loaded, read, since, clobbered>>

\* lake build of the gate's module.
GateBuild(p) ==
  /\ pc[p] = "gateBuild"
  /\ IF source \in Compiles
       THEN compiled' = source /\ Goto(p, "gateLoad")
       ELSE Goto(p, "gateNotBuilt") /\ UNCHANGED compiled
  /\ UNCHANGED <<edited, artifact, gateDir, workspace, arg, conf, graph, tested,
                 loaded, read, history>>

\* lake env lean Gate.lean starts: it reads Gate.lean and the compiled modules.
GateLoad(p) ==
  /\ pc[p] = "gateLoad"
  /\ loaded' = [loaded EXCEPT ![p] = <<gateLean, compiled>>]
  /\ Goto(p, "gateEval")
  /\ UNCHANGED <<edited, compiled, artifact, gateDir, workspace, arg, conf,
                 graph, tested, read, history>>

\* Fault: Gate.lean asserts the gate and never writes the graph.
GateEvalOnly(p) ==
  /\ pc[p] = "gateEval"
  /\ Goto(p, IF loaded[p] \in GateHolds THEN "gateRead" ELSE "gateFailed")
  /\ UNCHANGED <<edited, compiled, artifact, gateDir, workspace, arg, conf,
                 graph, tested, loaded, read, history>>

(***************************************************************************)
(* ... and ends: the assertions decide its exit status, and the #eval      *)
(* after them writes the program's graph even when one of them failed.     *)
(***************************************************************************)
GateEval(p) ==
  /\ pc[p] = "gateEval"
  /\ gateGraph' = IF ProgramGraph[loaded[p]] # None
                    THEN ProgramGraph[loaded[p]] ELSE gateGraph
  /\ Goto(p, IF loaded[p] \in GateHolds THEN "gateRead" ELSE "gateFailed")
  /\ Intrude(p)
  /\ UNCHANGED <<edited, compiled, artifact, gateLean, workspace, arg, conf,
                 graph, tested, loaded, read, since, clobbered>>

\* Fault: a gate that holds is enough, whatever graph it was about.
GateTrusted(p) ==
  /\ pc[p] = "gateRead"
  /\ Goto(p, IF gateGraph = None THEN "gateMissing" ELSE AfterGate(p))
  /\ UNCHANGED <<edited, compiled, artifact, gateDir, workspace, arg, conf,
                 graph, tested, loaded, read, history>>

\* The graph that was checked must be the graph `main` printed.
GateRead(p) ==
  /\ pc[p] = "gateRead"
  /\ Goto(p, IF gateGraph = None THEN "gateMissing"
             ELSE IF gateGraph # graph[p] THEN "gateMismatch"
             ELSE AfterGate(p))
  /\ UNCHANGED <<edited, compiled, artifact, gateDir, workspace, arg, conf,
                 graph, tested, loaded, read, history>>

(***************************************************************************)
(* The workspace: resolve_stack_references and write_backend, then         *)
(* write_graph, each file replaced by a rename.  A run with --graph leaves *)
(* the backend file alone and resolves nothing.                            *)
(***************************************************************************)
Clobber(p) ==
  clobbered' = clobbered \cup {q \in Proc \ {p} : pc[q] \in DeployWindow}

WriteBackend(p) ==
  /\ pc[p] = "writeBackend"
  /\ \/ /\ backend' = conf[p].backend
        /\ Goto(p, "writeMain") /\ Clobber(p)
     \/ /\ graph[p] \in Referring    \* a producer's state path is unusable
        /\ Goto(p, "notResolved") /\ UNCHANGED <<backend, clobbered>>
  /\ UNCHANGED <<edited, compiled, artifact, gateDir, main, arg, conf, graph,
                 tested, loaded, read, since, intruded>>

Resolved(p) == arg[p].file = "none"

\* Fault: a configuration that is already there is kept.
WriteMainOnce(p) ==
  /\ pc[p] = "writeMain"
  /\ main' = IF main = None THEN graph[p] ELSE main
  /\ Goto(p, "launch") /\ Clobber(p)
  /\ UNCHANGED <<edited, compiled, artifact, gateDir, backend, arg, conf, graph,
                 tested, loaded, read, since, intruded>>

WriteMain(p) ==
  /\ pc[p] = "writeMain"
  /\ IF graph[p] \in Valid /\ (Resolved(p) \/ graph[p] \notin Referring)
       THEN main' = graph[p] /\ Goto(p, "launch") /\ Clobber(p)
       ELSE Goto(p, "notLowered") /\ UNCHANGED <<main, clobbered>>
  /\ UNCHANGED <<edited, compiled, artifact, gateDir, backend, arg, conf, graph,
                 tested, loaded, read, since, intruded>>

NeedsCredentials(cmd) == cmd \in {"plan", "apply", "destroy"}

\* secret_environment, require_tofu, and the spawn of OpenTofu.
Launch(p) ==
  /\ pc[p] = "launch"
  /\ \/ NeedsCredentials(arg[p].cmd) /\ Goto(p, "noSecrets")
     \/ Goto(p, "noTofu")
     \/ Goto(p, "tofu")
  /\ UNCHANGED <<edited, compiled, artifact, gateDir, workspace, arg, conf,
                 graph, tested, loaded, read, history>>

\* run_existing_json: the directory exists once a file was written into it.
OpenWorkspace(p) ==
  /\ pc[p] = "openWorkspace"
  /\ \/ (backend = None /\ main = None) /\ Goto(p, "noWorkspace")
     \/ (backend # None \/ main # None) /\ Goto(p, "tofu")
     \/ (backend # None \/ main # None) /\ Goto(p, "noTofu")
  /\ UNCHANGED <<edited, compiled, artifact, gateDir, workspace, arg, conf,
                 graph, tested, loaded, read, history>>

\* OpenTofu reads the configuration files of the workspace and exits.
Tofu(p) ==
  /\ pc[p] = "tofu"
  /\ read' = [read EXCEPT ![p] = [main |-> main, backend |-> backend]]
  /\ Goto(p, "done") \/ Goto(p, "tofuFailed")
  /\ UNCHANGED <<edited, compiled, artifact, gateDir, workspace, arg, conf,
                 graph, tested, loaded, history>>

Kill(p) ==
  /\ pc[p] \in Active
  /\ Goto(p, "killed")
  /\ UNCHANGED <<edited, compiled, artifact, gateDir, workspace, arg, conf,
                 graph, tested, loaded, read, history>>

Step(p) ==
  \/ ReadGraph(p) \/ Render(p) \/ OpenArtifact(p) \/ WriteArtifact(p) \/ Test(p)
  \/ GateClear(p) \/ GateSource(p) \/ GateBuild(p) \/ GateLoad(p) \/ GateEval(p)
  \/ GateRead(p) \/ WriteBackend(p) \/ WriteMain(p) \/ Launch(p)
  \/ OpenWorkspace(p) \/ Tofu(p)

Next ==
  \/ EditSource \/ EditConfig
  \/ \E p \in Proc : Start(p) \/ Step(p) \/ Kill(p)

Spec == Init /\ [][Next]_vars

\* A started process keeps running, and the tools it runs come to an end.
Fairness == \A p \in Proc : WF_vars(Step(p))
FairSpec == Spec /\ Fairness

-----------------------------------------------------------------------------
TypeOK ==
  /\ source \in Source /\ config \in Config /\ edits \in Nat
  /\ compiled \in Source \cup {None}
  /\ artifact \in Graph \cup {None, Torn}
  /\ gateLean \in Gate \cup {None} /\ gateGraph \in Graph \cup {None}
  /\ backend \in Backend \cup {None} /\ main \in Graph \cup {None}
  /\ pc \in [Proc -> Label] /\ arg \in [Proc -> Args]
  /\ conf \in [Proc -> Config \cup {None}]
  /\ graph \in [Proc -> Graph \cup {None}]
  /\ tested \in [Proc -> Source \cup {None}]
  /\ loaded \in [Proc -> ((Gate \cup {None}) \X (Source \cup {None})) \cup {None}]
  /\ read \in [Proc -> [main: Graph \cup {None}, backend: Backend \cup {None}]
                           \cup {None}]
  /\ since \in [Proc -> SUBSET Source]
  /\ intruded \subseteq Proc /\ clobbered \subseteq Proc

-----------------------------------------------------------------------------
(***************************************************************************)
(* The properties.  A run is gated when its project configures a gate for  *)
(* the stack and nothing on its command line turns it off.                 *)
(***************************************************************************)
FromProject(p) == arg[p].kind = "run" /\ arg[p].file = "none"
Gated(p) == /\ arg[p].kind \in {"run", "test"}
            /\ arg[p].kind = "run" => FromProject(p) /\ ~arg[p].skip
            /\ conf[p] # None /\ conf[p].gate # None

\* The Lean run of p elaborated p's own gate, it held, in a version that was
\* current while p ran, and the graph it spoke of is p's graph.
Checked(p) ==
  /\ loaded[p] \in GateHolds
  /\ loaded[p][1] = conf[p].gate
  /\ loaded[p][2] \in since[p]
  /\ ProgramGraph[loaded[p]] = graph[p]

PassedGate(p) ==
  /\ Gated(p)
  /\ pc[p] \in (IF arg[p].kind = "test" THEN {"done"}
                ELSE {"writeBackend", "done", "tofuFailed"} \cup DeployWindow)

\* run_gate: a process that gets past its gate, with no other process working
\* in the gate directory meanwhile, holds a graph its own gate was checked for
\* in a version of the sources that was current while it ran.
GateSound == \A p \in Proc : PassedGate(p) /\ p \notin intruded => Checked(p)

\* run_graph: when no other process works in the gate directory or in the
\* workspace meanwhile, the files OpenTofu reads are the graph the process
\* built and its own config's backend, and a gated graph is a checked one.
DeployedIsChecked ==
  \A p \in Proc :
    FromProject(p) /\ read[p] # None /\ p \notin intruded \cup clobbered =>
      /\ read[p] = [main |-> graph[p], backend |-> conf[p].backend]
      /\ Gated(p) => Checked(p)

\* The same with nothing said about other processes: what Gate.lean promises,
\* that the graph that is deployed is the graph that was checked.
GraphDeployedIsGraphChecked ==
  \A p \in Proc :
    FromProject(p) /\ Gated(p) /\ read[p] # None =>
      read[p].main = graph[p] /\ Checked(p)

\* check_stack's promise alone: a lifecycle command runs against a graph only
\* after the stack's gate holds for that graph.
GateHoldsForTheGraph == \A p \in Proc : PassedGate(p) => Checked(p)

\* run_gate refuses for a reason: if the sources stood still and nobody else
\* worked in the gate directory, a process told that its gate wrote no graph,
\* or another graph, has a gate whose program is not what `main` prints.
MismatchIsReal ==
  \A p \in Proc :
    /\ pc[p] \in {"gateMissing", "gateMismatch"} /\ p \notin intruded
    => \A s \in since[p] :
         since[p] = {s} => ProgramGraph[<<conf[p].gate, s>>] # MainGraph[s]

\* check_stack: the tests that let a run pass are those of a version that was
\* current while it ran, and of the version its graph comes from when the
\* sources stood still.
TestsSound ==
  \A p \in Proc :
    /\ FromProject(p) /\ ~arg[p].skip /\ conf[p] # None
    /\ pc[p] \in GateWindow \cup DeployWindow \cup {"gateClear", "writeBackend"}
    /\ conf[p].test
    => /\ tested[p] \in since[p] \cap TestsPass
       /\ since[p] = {tested[p]} => graph[p] = MainGraph[tested[p]]

\* A process that is told to stop by its tests or its gate has not touched the
\* workspace: its files only change at the hand of a process that read its
\* graph from a file, skips the checks, or has passed those it configures.
MayDeploy(p) ==
  \/ arg[p].file # "none" \/ arg[p].skip
  \/ /\ conf[p].test => tested[p] \in TestsPass
     /\ conf[p].gate # None => loaded[p] \in GateHolds

WorkspaceOnlyAfterChecks ==
  [][workspace' # workspace =>
       \E p \in Proc : pc[p] # pc'[p] /\ arg[p].kind = "run" /\ MayDeploy(p)]_vars

\* Every invocation that starts comes to an end, whatever the others do.
Terminates == \A p \in Proc : pc[p] \in Active ~> pc[p] \notin Active
=============================================================================
