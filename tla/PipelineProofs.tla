--------------------------- MODULE PipelineProofs ---------------------------
(***************************************************************************)
(* What Pipeline keeps true for every set of processes, command lines,     *)
(* configs, sources and graphs.  The invariant IInv is inductive: the      *)
(* stage a process has reached fixes what its arguments and config allow   *)
(* (Route), what it may rely on in the gate directory (AtGate) and in the  *)
(* workspace (AtDeploy).                                                   *)
(***************************************************************************)
EXTENDS Pipeline, TLAPS

\* Which stages a command line and a config lead to, and what is known there.
Route(p) ==
  /\ pc[p] # "idle" => conf[p] \in Config
  /\ pc[p] \in Active => source \in since[p]
  /\ pc[p] = "readGraph" => arg[p].kind = "run" /\ arg[p].file # "none"
  /\ pc[p] = "openWorkspace" => arg[p].kind = "show"
  /\ pc[p] \in {"render", "openArtifact", "writeArtifact", "test", "gateClear",
                "writeBackend"} \cup GateWindow
     => arg[p].kind # "show" /\ (arg[p].kind = "run" => arg[p].file = "none")
  /\ pc[p] \in {"test", "gateClear"} \cup GateWindow
     => arg[p].kind # "build" /\ (arg[p].kind = "run" => ~arg[p].skip)
  /\ pc[p] = "test" /\ arg[p].kind = "run" => conf[p].test
  /\ pc[p] \in {"openArtifact", "writeArtifact"} => arg[p].kind # "test"
  /\ pc[p] = "render" /\ arg[p].kind = "test" => conf[p].gate # None
  /\ pc[p] \in {"gateClear"} \cup GateWindow => conf[p].gate # None
  /\ pc[p] \in {"openArtifact", "writeArtifact", "gateClear", "writeBackend",
                "writeMain"} \cup GateWindow => graph[p] \in Graph
  /\ pc[p] = "test" /\ arg[p].kind = "run" => graph[p] \in Graph
  /\ pc[p] \in {"writeBackend", "writeMain", "launch"} => arg[p].kind = "run"
  /\ pc[p] = "tofu" => arg[p].kind \in {"run", "show"}

\* What a process between its steps in the gate directory may rely on.
AtGate(p) ==
  /\ pc[p] \in {"gateBuild", "gateLoad"} => gateLean \in Gate
  /\ pc[p] = "gateLoad" => compiled \in since[p]
  /\ pc[p] = "gateEval" => loaded[p] \in Gate \X since[p]
  /\ pc[p] = "gateRead" => loaded[p] \in GateHolds /\ loaded[p][2] \in since[p]
  /\ p \notin intruded =>
       /\ pc[p] \in {"gateBuild", "gateLoad"} => gateLean = conf[p].gate
       /\ pc[p] \in {"gateEval", "gateRead"} => loaded[p][1] = conf[p].gate
       /\ pc[p] = "gateRead" => gateGraph = ProgramGraph[loaded[p]]
       /\ PassedGate(p) => Checked(p)

\* What a process between its steps in the workspace may rely on.
AtDeploy(p) ==
  /\ read[p] # None => pc[p] \in {"done", "tofuFailed"}
  /\ FromProject(p) /\ p \notin clobbered =>
       /\ pc[p] \in DeployWindow => backend = conf[p].backend
       /\ pc[p] \in {"launch", "tofu"} => main = graph[p]
       /\ read[p] # None =>
            read[p] = [main |-> graph[p], backend |-> conf[p].backend]

IInv ==
  /\ TypeOK
  /\ \A p \in Proc : Route(p)
  /\ \A p \in Proc : AtGate(p)
  /\ \A p \in Proc : AtDeploy(p)

-----------------------------------------------------------------------------
\* The stages a helper names are labels.
LEMMA StagesAreLabels ==
  ASSUME TypeOK, NEW p \in Proc
  PROVE  /\ AfterTests(p) \in {"done", "writeBackend", "render", "gateClear"}
         /\ AfterBuild(p) \in {"done", "writeBackend", "test", "render", "gateClear"}
         /\ AfterRender(p) \in {"gateClear", "openArtifact"}
         /\ AfterGate(p) \in {"done", "writeBackend"}
         /\ FirstStage(p) \in {"openWorkspace", "readGraph", "test", "render"}
BY DEF AfterTests, AfterBuild, AfterRender, AfterGate, FirstStage

\* A file system in which nothing has run yet satisfies the invariant.
LEMMA InitIInv == Init => IInv
<1> SUFFICES ASSUME Init PROVE IInv
  OBVIOUS
<1> USE DEF Init
<1>1. TypeOK
  BY ToolAssumption DEF TypeOK, Label
<1>2. ASSUME NEW p \in Proc PROVE Route(p) /\ AtGate(p) /\ AtDeploy(p)
  BY DEF Route, AtGate, AtDeploy, Active, GateWindow, DeployWindow, PassedGate
<1>3. QED
  BY <1>1, <1>2 DEF IInv

\* Types: only a decoded document becomes a graph, only a gate of a config
\* reaches Gate.lean, only a version reaches the compiled modules.
LEMMA TypePreserved == IInv /\ [Next]_vars => TypeOK'
<1> SUFFICES ASSUME IInv, [Next]_vars PROVE TypeOK'
  OBVIOUS
<1> USE DEF TypeOK, edited, gateDir, workspace, history, Goto
<1>0. TypeOK
  BY DEF IInv
<1>1. CASE EditSource
  BY <1>0, <1>1 DEF EditSource
<1>2. CASE EditConfig
  BY <1>0, <1>2 DEF EditConfig
<1>3. ASSUME NEW p \in Proc, Start(p) PROVE TypeOK'
  <2>1. FirstStage(p) \in Label
    BY <1>0, StagesAreLabels DEF Label, Active
  <2>2. QED
    BY <1>0, <1>3, <2>1 DEF Start
<1>4. ASSUME NEW p \in Proc, ReadGraph(p) PROVE TypeOK'
  <2>1. {"writeMain", "unreadable"} \subseteq Label
    BY DEF Label, Active, DeployWindow, Refusals
  <2>2. QED
    BY <1>0, <1>4, <2>1 DEF ReadGraph
<1>5. ASSUME NEW p \in Proc, Render(p) PROVE TypeOK'
  <2>1. AfterRender(p) \in Label /\ "notBuilt" \in Label
    BY <1>0, StagesAreLabels DEF Label, Active, Refusals
  <2>2. QED
    BY <1>0, <1>5, <2>1, ToolAssumption DEF Render
<1>6. ASSUME NEW p \in Proc, OpenArtifact(p) PROVE TypeOK'
  BY <1>0, <1>6 DEF OpenArtifact, Label, Active
<1>7. ASSUME NEW p \in Proc, WriteArtifact(p) PROVE TypeOK'
  <2>1. AfterBuild(p) \in Label
    BY <1>0, StagesAreLabels DEF Label, Active
  <2>2. graph[p] \in Graph
    BY <1>7 DEF IInv, Route, WriteArtifact
  <2>3. QED
    BY <1>0, <1>7, <2>1, <2>2 DEF WriteArtifact
<1>8. ASSUME NEW p \in Proc, Test(p) PROVE TypeOK'
  <2>1. AfterTests(p) \in Label /\ "testsFailed" \in Label
    BY <1>0, StagesAreLabels DEF Label, Active, Refusals
  <2>2. QED
    BY <1>0, <1>8, <2>1 DEF Test
<1>9. ASSUME NEW p \in Proc, GateClear(p) PROVE TypeOK'
  BY <1>0, <1>9 DEF GateClear, Intrude, Label, Active, GateWindow
<1>10. ASSUME NEW p \in Proc, GateSource(p) PROVE TypeOK'
  <2>1. conf[p].gate \in Gate \cup {None}
    BY <1>0, <1>10, ConfigAssumption DEF IInv, Route, GateSource
  <2>2. QED
    BY <1>0, <1>10, <2>1 DEF GateSource, Intrude, Label, Active, GateWindow
<1>11. ASSUME NEW p \in Proc, GateBuild(p) PROVE TypeOK'
  BY <1>0, <1>11 DEF GateBuild, Label, Active, GateWindow, Refusals
<1>12. ASSUME NEW p \in Proc, GateLoad(p) PROVE TypeOK'
  BY <1>0, <1>12 DEF GateLoad, Label, Active, GateWindow
<1>13. ASSUME NEW p \in Proc, GateEval(p) PROVE TypeOK'
  <2>1. loaded[p] \in Gate \X Source
    BY <1>0, <1>13 DEF IInv, AtGate, GateEval
  <2>2. ProgramGraph[loaded[p]] \in Graph \cup {None}
    BY <2>1, ToolAssumption
  <2>3. {"gateRead", "gateFailed"} \subseteq Label
    BY DEF Label, Active, GateWindow, Refusals
  <2>4. QED
    BY <1>0, <1>13, <2>2, <2>3 DEF GateEval, Intrude
<1>14. ASSUME NEW p \in Proc, GateRead(p) PROVE TypeOK'
  <2>1. AfterGate(p) \in Label /\ {"gateMissing", "gateMismatch"} \subseteq Label
    BY <1>0, StagesAreLabels DEF Label, Active, Refusals
  <2>2. QED
    BY <1>0, <1>14, <2>1 DEF GateRead
<1>15. ASSUME NEW p \in Proc, WriteBackend(p) PROVE TypeOK'
  <2>1. conf[p].backend \in Backend
    BY <1>0, <1>15, ConfigAssumption DEF IInv, Route, WriteBackend
  <2>2. {"writeMain", "notResolved"} \subseteq Label
    BY DEF Label, Active, DeployWindow, Refusals
  <2>3. QED
    BY <1>0, <1>15, <2>1, <2>2 DEF WriteBackend, Clobber
<1>16. ASSUME NEW p \in Proc, WriteMain(p) PROVE TypeOK'
  <2>1. {"launch", "notLowered"} \subseteq Label
    BY DEF Label, Active, DeployWindow, Refusals
  <2>2. QED
    BY <1>0, <1>16, <2>1 DEF WriteMain, Clobber
<1>17. ASSUME NEW p \in Proc, Launch(p) PROVE TypeOK'
  <2>1. {"noSecrets", "noTofu", "tofu"} \subseteq Label
    BY DEF Label, Active, DeployWindow, Refusals
  <2>2. QED
    BY <1>0, <1>17, <2>1 DEF Launch
<1>18. ASSUME NEW p \in Proc, OpenWorkspace(p) PROVE TypeOK'
  <2>1. {"noWorkspace", "noTofu", "tofu"} \subseteq Label
    BY DEF Label, Active, DeployWindow, Refusals
  <2>2. QED
    BY <1>0, <1>18, <2>1 DEF OpenWorkspace
<1>19. ASSUME NEW p \in Proc, Tofu(p) PROVE TypeOK'
  <2>1. {"done", "tofuFailed"} \subseteq Label
    BY DEF Label, Refusals
  <2>2. QED
    BY <1>0, <1>19, <2>1 DEF Tofu
<1>20. ASSUME NEW p \in Proc, Kill(p) PROVE TypeOK'
  BY <1>0, <1>20 DEF Kill, Label
<1>21. CASE UNCHANGED vars
  BY <1>0, <1>21 DEF vars
<1>22. QED
  BY <1>1, <1>2, <1>3, <1>4, <1>5, <1>6, <1>7, <1>8, <1>9, <1>10, <1>11, <1>12,
     <1>13, <1>14, <1>15, <1>16, <1>17, <1>18, <1>19, <1>20, <1>21 DEF Next, Step

\* Where a process is tells which command line and config brought it there.
LEMMA RoutePreserved ==
  IInv /\ [Next]_vars => \A q \in Proc : Route(q)'
<1> SUFFICES ASSUME IInv, [Next]_vars, NEW q \in Proc PROVE Route(q)'
  OBVIOUS
<1>0. TypeOK /\ Route(q) /\ AtGate(q) /\ AtDeploy(q)
  BY DEF IInv
<1> USE <1>0 DEF Route, TypeOK, Active, GateWindow, DeployWindow, edited, gateDir,
    workspace, history, Goto, FromProject
<1>1. CASE EditSource
  BY <1>1 DEF EditSource
<1>2. CASE EditConfig
  BY <1>2 DEF EditConfig
<1>3. ASSUME NEW p \in Proc, Start(p) PROVE Route(q)'
  BY <1>3 DEF Start, FirstStage
<1>4. ASSUME NEW p \in Proc, ReadGraph(p) PROVE Route(q)'
  BY <1>4 DEF ReadGraph
<1>5. ASSUME NEW p \in Proc, Render(p) PROVE Route(q)'
  BY <1>5, ArgsAssumption, ToolAssumption DEF Render, AfterRender
<1>6. ASSUME NEW p \in Proc, OpenArtifact(p) PROVE Route(q)'
  BY <1>6 DEF OpenArtifact
<1>7. ASSUME NEW p \in Proc, WriteArtifact(p) PROVE Route(q)'
  BY <1>7, ArgsAssumption DEF WriteArtifact, AfterBuild, AfterTests
<1>8. ASSUME NEW p \in Proc, Test(p) PROVE Route(q)'
  BY <1>8, ArgsAssumption DEF Test, AfterTests
<1>9. ASSUME NEW p \in Proc, GateClear(p) PROVE Route(q)'
  BY <1>9 DEF GateClear, Intrude
<1>10. ASSUME NEW p \in Proc, GateSource(p) PROVE Route(q)'
  BY <1>10 DEF GateSource, Intrude
<1>11. ASSUME NEW p \in Proc, GateBuild(p) PROVE Route(q)'
  BY <1>11 DEF GateBuild
<1>12. ASSUME NEW p \in Proc, GateLoad(p) PROVE Route(q)'
  BY <1>12 DEF GateLoad
<1>13. ASSUME NEW p \in Proc, GateEval(p) PROVE Route(q)'
  BY <1>13 DEF GateEval, Intrude
<1>14. ASSUME NEW p \in Proc, GateRead(p) PROVE Route(q)'
  BY <1>14, ArgsAssumption DEF GateRead, AfterGate
<1>15. ASSUME NEW p \in Proc, WriteBackend(p) PROVE Route(q)'
  BY <1>15 DEF WriteBackend, Clobber
<1>16. ASSUME NEW p \in Proc, WriteMain(p) PROVE Route(q)'
  BY <1>16 DEF WriteMain, Clobber
<1>17. ASSUME NEW p \in Proc, Launch(p) PROVE Route(q)'
  BY <1>17 DEF Launch
<1>18. ASSUME NEW p \in Proc, OpenWorkspace(p) PROVE Route(q)'
  BY <1>18 DEF OpenWorkspace
<1>19. ASSUME NEW p \in Proc, Tofu(p) PROVE Route(q)'
  BY <1>19 DEF Tofu
<1>20. ASSUME NEW p \in Proc, Kill(p) PROVE Route(q)'
  BY <1>20 DEF Kill
<1>21. CASE UNCHANGED vars
  BY <1>21 DEF vars
<1>22. QED
  BY <1>1, <1>2, <1>3, <1>4, <1>5, <1>6, <1>7, <1>8, <1>9, <1>10, <1>11, <1>12,
     <1>13, <1>14, <1>15, <1>16, <1>17, <1>18, <1>19, <1>20, <1>21 DEF Next, Step

\* A process alone in the gate directory finds there what it put there.
LEMMA AtGatePreserved ==
  IInv /\ [Next]_vars => \A q \in Proc : AtGate(q)'
<1> SUFFICES ASSUME IInv, [Next]_vars, NEW q \in Proc PROVE AtGate(q)'
  OBVIOUS
<1>0. TypeOK /\ Route(q) /\ AtGate(q) /\ AtDeploy(q)
  BY DEF IInv
<1> USE <1>0 DEF AtGate, TypeOK, Active, GateWindow, DeployWindow, edited, gateDir,
    workspace, history, Goto, Route, PassedGate, Gated, FromProject, Checked
<1>1. CASE EditSource
  BY <1>1 DEF EditSource
<1>2. CASE EditConfig
  BY <1>2 DEF EditConfig
<1>3. ASSUME NEW p \in Proc, Start(p) PROVE AtGate(q)'
  BY <1>3 DEF Start, FirstStage
<1>4. ASSUME NEW p \in Proc, ReadGraph(p) PROVE AtGate(q)'
  BY <1>4 DEF ReadGraph
<1>5. ASSUME NEW p \in Proc, Render(p) PROVE AtGate(q)'
  BY <1>5 DEF Render, AfterRender
<1>6. ASSUME NEW p \in Proc, OpenArtifact(p) PROVE AtGate(q)'
  BY <1>6 DEF OpenArtifact
<1>7. ASSUME NEW p \in Proc, WriteArtifact(p) PROVE AtGate(q)'
  BY <1>7 DEF WriteArtifact, AfterBuild, AfterTests
<1>8. ASSUME NEW p \in Proc, Test(p) PROVE AtGate(q)'
  BY <1>8 DEF Test, AfterTests
<1>9. ASSUME NEW p \in Proc, GateClear(p) PROVE AtGate(q)'
  BY <1>9 DEF GateClear, Intrude
<1>10. ASSUME NEW p \in Proc, GateSource(p) PROVE AtGate(q)'
  <2>1. conf[p] \in Config /\ conf[p].gate # None
    BY <1>10 DEF GateSource, IInv, Route
  <2>2. conf[p].gate \in Gate
    BY <2>1, ConfigAssumption
  <2>3. QED
    BY <1>10, <2>2 DEF GateSource, Intrude
<1>11. ASSUME NEW p \in Proc, GateBuild(p) PROVE AtGate(q)'
  BY <1>11 DEF GateBuild
<1>12. ASSUME NEW p \in Proc, GateLoad(p) PROVE AtGate(q)'
  BY <1>12 DEF GateLoad
<1>13. ASSUME NEW p \in Proc, GateEval(p) PROVE AtGate(q)'
  BY <1>13, ToolAssumption DEF GateEval, Intrude
<1>14. ASSUME NEW p \in Proc, GateRead(p) PROVE AtGate(q)'
  BY <1>14 DEF GateRead, AfterGate
<1>15. ASSUME NEW p \in Proc, WriteBackend(p) PROVE AtGate(q)'
  BY <1>15 DEF WriteBackend, Clobber
<1>16. ASSUME NEW p \in Proc, WriteMain(p) PROVE AtGate(q)'
  BY <1>16 DEF WriteMain, Clobber
<1>17. ASSUME NEW p \in Proc, Launch(p) PROVE AtGate(q)'
  BY <1>17 DEF Launch
<1>18. ASSUME NEW p \in Proc, OpenWorkspace(p) PROVE AtGate(q)'
  BY <1>18 DEF OpenWorkspace
<1>19. ASSUME NEW p \in Proc, Tofu(p) PROVE AtGate(q)'
  BY <1>19 DEF Tofu
<1>20. ASSUME NEW p \in Proc, Kill(p) PROVE AtGate(q)'
  BY <1>20 DEF Kill
<1>21. CASE UNCHANGED vars
  BY <1>21 DEF vars
<1>22. QED
  BY <1>1, <1>2, <1>3, <1>4, <1>5, <1>6, <1>7, <1>8, <1>9, <1>10, <1>11, <1>12,
     <1>13, <1>14, <1>15, <1>16, <1>17, <1>18, <1>19, <1>20, <1>21 DEF Next, Step

\* A process alone in the workspace finds there what it put there.
LEMMA AtDeployPreserved ==
  IInv /\ [Next]_vars => \A q \in Proc : AtDeploy(q)'
<1> SUFFICES ASSUME IInv, [Next]_vars, NEW q \in Proc PROVE AtDeploy(q)'
  OBVIOUS
<1>0. TypeOK /\ Route(q) /\ AtGate(q) /\ AtDeploy(q)
  BY DEF IInv
<1> USE <1>0 DEF AtDeploy, TypeOK, Active, GateWindow, DeployWindow, edited, gateDir,
    workspace, history, Goto, Route, FromProject
<1>1. CASE EditSource
  BY <1>1 DEF EditSource
<1>2. CASE EditConfig
  BY <1>2 DEF EditConfig
<1>3. ASSUME NEW p \in Proc, Start(p) PROVE AtDeploy(q)'
  BY <1>3 DEF Start, FirstStage
<1>4. ASSUME NEW p \in Proc, ReadGraph(p) PROVE AtDeploy(q)'
  BY <1>4 DEF ReadGraph
<1>5. ASSUME NEW p \in Proc, Render(p) PROVE AtDeploy(q)'
  BY <1>5 DEF Render, AfterRender
<1>6. ASSUME NEW p \in Proc, OpenArtifact(p) PROVE AtDeploy(q)'
  BY <1>6 DEF OpenArtifact
<1>7. ASSUME NEW p \in Proc, WriteArtifact(p) PROVE AtDeploy(q)'
  BY <1>7 DEF WriteArtifact, AfterBuild, AfterTests
<1>8. ASSUME NEW p \in Proc, Test(p) PROVE AtDeploy(q)'
  BY <1>8 DEF Test, AfterTests
<1>9. ASSUME NEW p \in Proc, GateClear(p) PROVE AtDeploy(q)'
  BY <1>9 DEF GateClear, Intrude
<1>10. ASSUME NEW p \in Proc, GateSource(p) PROVE AtDeploy(q)'
  BY <1>10 DEF GateSource, Intrude
<1>11. ASSUME NEW p \in Proc, GateBuild(p) PROVE AtDeploy(q)'
  BY <1>11 DEF GateBuild
<1>12. ASSUME NEW p \in Proc, GateLoad(p) PROVE AtDeploy(q)'
  BY <1>12 DEF GateLoad
<1>13. ASSUME NEW p \in Proc, GateEval(p) PROVE AtDeploy(q)'
  BY <1>13 DEF GateEval, Intrude
<1>14. ASSUME NEW p \in Proc, GateRead(p) PROVE AtDeploy(q)'
  BY <1>14 DEF GateRead, AfterGate
<1>15. ASSUME NEW p \in Proc, WriteBackend(p) PROVE AtDeploy(q)'
  BY <1>15 DEF WriteBackend, Clobber
<1>16. ASSUME NEW p \in Proc, WriteMain(p) PROVE AtDeploy(q)'
  BY <1>16 DEF WriteMain, Clobber
<1>17. ASSUME NEW p \in Proc, Launch(p) PROVE AtDeploy(q)'
  BY <1>17 DEF Launch
<1>18. ASSUME NEW p \in Proc, OpenWorkspace(p) PROVE AtDeploy(q)'
  BY <1>18 DEF OpenWorkspace
<1>19. ASSUME NEW p \in Proc, Tofu(p) PROVE AtDeploy(q)'
  BY <1>19 DEF Tofu
<1>20. ASSUME NEW p \in Proc, Kill(p) PROVE AtDeploy(q)'
  BY <1>20 DEF Kill
<1>21. CASE UNCHANGED vars
  BY <1>21 DEF vars
<1>22. QED
  BY <1>1, <1>2, <1>3, <1>4, <1>5, <1>6, <1>7, <1>8, <1>9, <1>10, <1>11, <1>12,
     <1>13, <1>14, <1>15, <1>16, <1>17, <1>18, <1>19, <1>20, <1>21 DEF Next, Step

-----------------------------------------------------------------------------
\* Every behaviour of the command line stays inside the inductive invariant.
THEOREM Invariance == Spec => []IInv
<1>1. IInv /\ [Next]_vars => IInv'
  BY TypePreserved, RoutePreserved, AtGatePreserved, AtDeployPreserved DEF IInv
<1>2. QED
  BY InitIInv, <1>1, PTL DEF Spec

\* Type correctness: run_graph, check_stack and run_gate never write anything
\* but a decoded graph, a config's gate and a config's backend.
THEOREM TypeCorrect == Spec => []TypeOK
<1>1. IInv => TypeOK
  BY DEF IInv
<1>2. QED
  BY Invariance, <1>1, PTL

\* run_gate: a process that nobody else joined in the gate directory and that
\* gets past its gate holds a graph its own gate was checked for, in a version
\* of the sources that was current while it ran.
THEOREM GateIsSound == Spec => []GateSound
<1>1. IInv => GateSound
  BY DEF IInv, AtGate, GateSound
<1>2. QED
  BY Invariance, <1>1, PTL

\* run_graph: a process that nobody else joined in the gate directory or the
\* workspace has OpenTofu read the graph it built and its config's backend,
\* and that graph is a checked one when the run is gated.
THEOREM DeploymentIsChecked == Spec => []DeployedIsChecked
<1>1. IInv => DeployedIsChecked
  <2> SUFFICES ASSUME IInv, NEW p \in Proc, FromProject(p), read[p] # None,
                      p \notin intruded \cup clobbered
               PROVE  /\ read[p] = [main |-> graph[p], backend |-> conf[p].backend]
                      /\ Gated(p) => Checked(p)
    BY DEF DeployedIsChecked
  <2>1. AtDeploy(p) /\ AtGate(p)
    BY DEF IInv
  <2>2. pc[p] \in {"done", "tofuFailed"}
    BY <2>1 DEF AtDeploy
  <2>3. Gated(p) => PassedGate(p)
    BY <2>2 DEF PassedGate, FromProject
  <2>4. QED
    BY <2>1, <2>3 DEF AtDeploy, AtGate
<1>2. QED
  BY Invariance, <1>1, PTL

-----------------------------------------------------------------------------
(***************************************************************************)
(* A second invariant, for what a process has learnt when it passes its    *)
(* checks or is refused: where its graph comes from, and which version its *)
(* tests and its gate were run in.                                         *)
(***************************************************************************)
HasGraph(p) ==
  \/ /\ FromProject(p)
     /\ pc[p] \in {"openArtifact", "writeArtifact", "test", "gateClear",
                   "writeBackend"} \cup GateWindow \cup DeployWindow
  \/ pc[p] \in {"gateClear", "gateMissing", "gateMismatch"} \cup GateWindow

Evidence(p) ==
  /\ HasGraph(p) => \E s \in since[p] : graph[p] = MainGraph[s]
  /\ FromProject(p) /\ ~arg[p].skip =>
       /\ /\ pc[p] \in {"gateClear", "writeBackend"} \cup GateWindow \cup DeployWindow
          /\ conf[p].test
          => tested[p] \in since[p] \cap TestsPass
       /\ pc[p] \in {"writeBackend"} \cup DeployWindow /\ conf[p].gate # None
          => loaded[p] \in GateHolds
  /\ pc[p] \in {"gateMissing", "gateMismatch"} /\ p \notin intruded =>
       /\ loaded[p][1] = conf[p].gate /\ loaded[p][2] \in since[p]
       /\ loaded[p] \in GateHolds /\ ProgramGraph[loaded[p]] # graph[p]


\* A step adds to what a process has learnt, and takes nothing away.
LEMMA EvidencePreserved ==
  IInv /\ (\A q \in Proc : Evidence(q)) /\ [Next]_vars
    => \A q \in Proc : Evidence(q)'
<1> SUFFICES ASSUME IInv, \A q \in Proc : Evidence(q), [Next]_vars, NEW q \in Proc
             PROVE  Evidence(q)'
  OBVIOUS
<1>0. TypeOK /\ Route(q) /\ AtGate(q) /\ Evidence(q)
  BY DEF IInv
<1> USE <1>0 DEF Evidence, TypeOK, Active, GateWindow, DeployWindow, edited, gateDir,
    workspace, history, Goto, Route, AtGate, FromProject, HasGraph
<1>1. CASE EditSource
  BY <1>1 DEF EditSource
<1>2. CASE EditConfig
  BY <1>2 DEF EditConfig
<1>3. ASSUME NEW p \in Proc, Start(p) PROVE Evidence(q)'
  BY <1>3 DEF Start, FirstStage
<1>4. ASSUME NEW p \in Proc, ReadGraph(p) PROVE Evidence(q)'
  BY <1>4 DEF ReadGraph
<1>5. ASSUME NEW p \in Proc, Render(p) PROVE Evidence(q)'
  BY <1>5, ArgsAssumption DEF Render, AfterRender
<1>6. ASSUME NEW p \in Proc, OpenArtifact(p) PROVE Evidence(q)'
  BY <1>6 DEF OpenArtifact
<1>7. ASSUME NEW p \in Proc, WriteArtifact(p) PROVE Evidence(q)'
  BY <1>7, ArgsAssumption DEF WriteArtifact, AfterBuild, AfterTests
<1>8. ASSUME NEW p \in Proc, Test(p) PROVE Evidence(q)'
  BY <1>8, ArgsAssumption DEF Test, AfterTests
<1>9. ASSUME NEW p \in Proc, GateClear(p) PROVE Evidence(q)'
  BY <1>9, ArgsAssumption DEF GateClear, Intrude
<1>10. ASSUME NEW p \in Proc, GateSource(p) PROVE Evidence(q)'
  BY <1>10 DEF GateSource, Intrude
<1>11. ASSUME NEW p \in Proc, GateBuild(p) PROVE Evidence(q)'
  BY <1>11 DEF GateBuild
<1>12. ASSUME NEW p \in Proc, GateLoad(p) PROVE Evidence(q)'
  BY <1>12 DEF GateLoad
<1>13. ASSUME NEW p \in Proc, GateEval(p) PROVE Evidence(q)'
  BY <1>13, ToolAssumption DEF GateEval, Intrude
<1>14. ASSUME NEW p \in Proc, GateRead(p) PROVE Evidence(q)'
  <2>1. CASE q # p
    BY <1>14, <2>1 DEF GateRead
  <2>2. CASE q = p
    <3>1. /\ loaded[p] \in GateHolds /\ loaded[p][2] \in since[p]
          /\ p \notin intruded =>
               loaded[p][1] = conf[p].gate /\ gateGraph = ProgramGraph[loaded[p]]
      BY <1>14, <2>2 DEF GateRead
    <3>2. ProgramGraph[loaded[p]] # None /\ graph[p] \in Graph
      BY <1>14, <2>2, <3>1, ToolAssumption DEF GateRead
    <3>3. CASE gateGraph = None \/ gateGraph # graph[p]
      <4>1. pc'[p] \in {"gateMissing", "gateMismatch"}
        BY <1>14, <3>3 DEF GateRead
      <4>2. p \notin intruded => ProgramGraph[loaded[p]] # graph[p]
        BY <3>1, <3>2, <3>3
      <4>3. QED
        BY <1>14, <2>2, <3>1, <4>1, <4>2 DEF GateRead
    <3>4. CASE gateGraph # None /\ gateGraph = graph[p]
      BY <1>14, <2>2, <3>1, <3>4, ArgsAssumption DEF GateRead, AfterGate
    <3>5. QED
      BY <3>3, <3>4
  <2>3. QED
    BY <2>1, <2>2
<1>15. ASSUME NEW p \in Proc, WriteBackend(p) PROVE Evidence(q)'
  BY <1>15 DEF WriteBackend, Clobber
<1>16. ASSUME NEW p \in Proc, WriteMain(p) PROVE Evidence(q)'
  BY <1>16 DEF WriteMain, Clobber
<1>17. ASSUME NEW p \in Proc, Launch(p) PROVE Evidence(q)'
  BY <1>17 DEF Launch
<1>18. ASSUME NEW p \in Proc, OpenWorkspace(p) PROVE Evidence(q)'
  BY <1>18 DEF OpenWorkspace
<1>19. ASSUME NEW p \in Proc, Tofu(p) PROVE Evidence(q)'
  BY <1>19 DEF Tofu
<1>20. ASSUME NEW p \in Proc, Kill(p) PROVE Evidence(q)'
  BY <1>20 DEF Kill
<1>21. CASE UNCHANGED vars
  BY <1>21 DEF vars
<1>22. QED
  BY <1>1, <1>2, <1>3, <1>4, <1>5, <1>6, <1>7, <1>8, <1>9, <1>10, <1>11, <1>12,
     <1>13, <1>14, <1>15, <1>16, <1>17, <1>18, <1>19, <1>20, <1>21 DEF Next, Step

\* Throughout a run, what its tests and its gate run have shown stays true.
THEOREM EvidenceInvariance == Spec => []\A p \in Proc : Evidence(p)
<1> DEFINE EInv == \A p \in Proc : Evidence(p)
<1>1. Init => EInv
  BY DEF Init, Evidence, HasGraph, GateWindow, DeployWindow
<1>2. IInv /\ EInv /\ [Next]_vars => EInv'
  BY EvidencePreserved
<1>3. QED
  BY Invariance, <1>1, <1>2, PTL DEF Spec

\* check_stack: the tests that let a run pass are those of a version that was
\* current while it ran, and of its graph's version if the sources stood still.
THEOREM TestsAreSound == Spec => []TestsSound
<1>1. (\A p \in Proc : Evidence(p)) => TestsSound
  <2> SUFFICES ASSUME \A p \in Proc : Evidence(p), NEW p \in Proc,
                      FromProject(p), ~arg[p].skip, conf[p].test,
                      pc[p] \in GateWindow \cup DeployWindow
                                  \cup {"gateClear", "writeBackend"}
               PROVE  /\ tested[p] \in since[p] \cap TestsPass
                      /\ since[p] = {tested[p]} => graph[p] = MainGraph[tested[p]]
    BY DEF TestsSound
  <2> QED
    BY DEF Evidence, HasGraph
<1>2. QED
  BY EvidenceInvariance, <1>1, PTL

\* run_gate: with the sources standing still and nobody else in the gate
\* directory, a refusal for the wrong graph is never spurious.
THEOREM MismatchesAreReal == Spec => []MismatchIsReal
<1>1. IInv /\ (\A p \in Proc : Evidence(p)) => MismatchIsReal
  <2> SUFFICES ASSUME IInv, \A p \in Proc : Evidence(p), NEW p \in Proc,
                      pc[p] \in {"gateMissing", "gateMismatch"}, p \notin intruded,
                      NEW s \in since[p], since[p] = {s}
               PROVE  ProgramGraph[<<conf[p].gate, s>>] # MainGraph[s]
    BY DEF MismatchIsReal
  <2>1. graph[p] = MainGraph[s]
    BY DEF Evidence, HasGraph
  <2>2. loaded[p] \in Gate \X Source /\ loaded[p][1] = conf[p].gate /\ loaded[p][2] = s
    BY ToolAssumption DEF Evidence
  <2>3. loaded[p] = <<conf[p].gate, s>>
    BY <2>2
  <2>4. ProgramGraph[loaded[p]] # graph[p]
    BY DEF Evidence
  <2>5. QED
    BY <2>1, <2>3, <2>4
<1>2. QED
  BY Invariance, EvidenceInvariance, <1>1, PTL

\* run_graph: the workspace only changes at the hand of a process that skips
\* the checks, was given a graph, or has passed the checks it configures.
THEOREM ChecksComeFirst == Spec => WorkspaceOnlyAfterChecks
<1> DEFINE Allowed == workspace' # workspace =>
      \E p \in Proc : pc[p] # pc'[p] /\ arg[p].kind = "run" /\ MayDeploy(p)
<1>1. IInv /\ (\A p \in Proc : Evidence(p)) /\ [Next]_vars => [Allowed]_vars
  <2> SUFFICES ASSUME IInv, \A p \in Proc : Evidence(p), Next, workspace' # workspace
               PROVE  \E p \in Proc :
                        pc[p] # pc'[p] /\ arg[p].kind = "run" /\ MayDeploy(p)
    BY DEF Allowed, vars
  <2>1. PICK p \in Proc : WriteBackend(p) \/ WriteMain(p)
    BY DEF Next, Step, EditSource, EditConfig, Start, ReadGraph, Render,
       OpenArtifact, WriteArtifact, Test, GateClear, GateSource, GateBuild,
       GateLoad, GateEval, GateRead, Launch, OpenWorkspace, Tofu, Kill, workspace
  <2>2. pc[p] \in {"writeBackend", "writeMain"} /\ pc'[p] # pc[p]
    BY <2>1 DEF WriteBackend, WriteMain, Goto, IInv, TypeOK
  <2>3. arg[p].kind = "run"
    BY <2>2 DEF IInv, Route
  <2>4. MayDeploy(p)
    BY <2>2, <2>3 DEF MayDeploy, Evidence, FromProject, DeployWindow
  <2>5. QED
    BY <2>2, <2>3, <2>4
<1>2. QED
  BY Invariance, EvidenceInvariance, <1>1, PTL DEF Spec, WorkspaceOnlyAfterChecks
=============================================================================
