----------------------------- MODULE MCPipeline -----------------------------
(***************************************************************************)
(* Small instances of Pipeline.  Version "good" prints g1, which its gate  *)
(* accepts; "bad" prints g2, which the gate refuses; in "split" `main`     *)
(* prints g2 while the gated program is g1; "broken" does not compile.     *)
(***************************************************************************)
EXTENDS Pipeline, TLC

CONSTANTS g1, g2, g3, b1, b2, k1, p1, p2

Graphs == {g1, g2, g3}

Main == [s \in Source |-> CASE s = "good" -> g1 [] s = "broken" -> None
                            [] OTHER -> g2]

Program == [x \in Gate \X Source |->
              CASE x[2] = "bad" -> g2 [] x[2] = "broken" -> None [] OTHER -> g1]

Holds == {x \in Gate \X Source : x[2] \in {"good", "split"}}

Compiling == Source \ {"broken"}
Passing   == Source \cap {"good", "split"}

Cmd(kind, cmd, skip, file) ==
  [kind |-> kind, cmd |-> cmd, skip |-> skip, file |-> file]

Gated1   == [test |-> TRUE, gate |-> k1, backend |-> b1]
GateOnly == [test |-> FALSE, gate |-> k1, backend |-> b1]
NoChecks == [test |-> FALSE, gate |-> None, backend |-> b2]

\* Command lines.
Apply      == Cmd("run", "apply", FALSE, "none")
InitSkip   == Cmd("run", "init", TRUE, "none")
PlanFile   == Cmd("run", "plan", FALSE, "artifact")
InitForeign == Cmd("run", "init", FALSE, "foreign")
BuildOnly  == Cmd("build", "init", FALSE, "none")
TestRun    == Cmd("test", "init", FALSE, "none")
Show       == Cmd("show", "init", FALSE, "none")

CommandLines == <<Apply, InitSkip, PlanFile, InitForeign, BuildOnly, TestRun, Show>>
AllArgs  == {CommandLines[i] : i \in DOMAIN CommandLines}
TwoRuns  == {Apply, InitSkip}
GatedRuns == {Apply, TestRun}
Sources  == {"good", "bad", "split", "broken"}
GoodBad  == {"good", "bad"}
Configs  == {Gated1, NoChecks}
OneGated == {GateOnly}

\* The processes are interchangeable, in what they do and in what is said of them.
Symmetric == Permutations(Proc)

\* Under fairness that set is no help, but of two assignments of command lines that
\* differ by an exchange one will do.
Ordered ==
  /\ Init
  /\ \E i, j \in DOMAIN CommandLines :
       i <= j /\ arg[p1] = CommandLines[i] /\ arg[p2] = CommandLines[j]
OrderedSpec == Ordered /\ [][Next]_vars /\ Fairness
=============================================================================
