------------------------------ MODULE Rollout ------------------------------
(***************************************************************************)
(* The commands of one project over time: stacks applied in workspaces,    *)
(* also from a graph file, while the configuration is edited; where        *)
(* OpenTofu keeps the state of a stack and where the stacks that read its  *)
(* outputs look for it; and the packages generated on the way.  The        *)
(* artifacts of a stack and what --no-build says of them (Staleness) run   *)
(* beside.                                                                 *)
(***************************************************************************)
EXTENDS ProjectConfig, Staleness

CONSTANTS Configs,    \* the configurations the file may hold
          Bases,      \* what --workspace may be: <<>> or a path
          Reads,      \* the stacks each stack's graph refers to
          Requests    \* command lines of provider generate

ASSUME ConfigsAssumption == \A config \in Configs : Configuration(config)
ASSUME ArgumentsAssumption == Bases \subseteq Option(Paths) /\ Requests \subseteq Arguments
ASSUME ReadsAssumption == DOMAIN Reads \subseteq STRING

VARIABLES config,     \* what inframe.toml says
          backends,   \* backend.tofu.json of each workspace that has one
          wrote,      \* of each workspace, the setting and place of its last project run
          last,       \* what the last command, a run of OpenTofu, wrote and read
          generated   \* the targets of the last command, a provider generate

rollout == <<config, backends, wrote, last, generated>>
vars == <<rollout, looking>>

Nothing == [stack |-> "", from |-> "", at |-> <<>>, wrote |-> <<>>, reads |-> <<>>]

Init == /\ config \in Configs
        /\ backends = <<>> /\ wrote = <<>> /\ last = Nothing /\ generated = {}
        /\ LookingInit

-----------------------------------------------------------------------------
Put(f, key, value) == [k \in DOMAIN f \cup {key} |-> IF k = key THEN value ELSE f[k]]

WorkspaceDirectory == Join(Root, config.workspace)
WorkspaceRoot(base, stack) ==
  Join(IF base = <<>> THEN WorkspaceDirectory ELSE base[1], Relative(<<"stacks", stack>>))

\* Where OpenTofu, working in `at`, keeps the state a backend names (external):
\* a local path is taken from there, by default terraform.tfstate.
StateOf(at, backend) ==
  IF backend.kind # "local" THEN <<backend.kind, backend.path>>
  ELSE Normalize(Join(at, OrElse(backend.path, Relative(<<"terraform.tfstate">>))))
InForce(at) == IF Normalize(at) \in DOMAIN backends THEN backends[Normalize(at)]
               ELSE [kind |-> "local", path |-> <<>>]

\* Mutant: the path stays as the configuration writes it.
PathAsWritten(base, producer) ==
  LET backend == config.stacks[producer].backend
      state == Join(WorkspaceRoot(base, producer),
                    OrElse(backend.path, Relative(<<"terraform.tfstate">>)))
  IN [kind |-> backend.kind, path |-> IF backend.kind = "local" THEN <<state>> ELSE backend.path]

\* resolve_stack_references: a local path is taken from the producer's workspace,
\* under the base of this run, and made absolute.
ResolvedBackend(base, producer) ==
  LET backend == config.stacks[producer].backend
      state == Join(WorkspaceRoot(base, producer),
                    OrElse(backend.path, Relative(<<"terraform.tfstate">>)))
  IN [kind |-> backend.kind,
      path |-> IF backend.kind = "local" THEN <<Join(Cwd, state)>> ELSE backend.path]

Settings(stack) == LET b == config.stacks[stack].backend IN [kind |-> b.kind, path |-> b.path]

\* A lifecycle command of the project: main refers to declared stacks, the
\* backend and the graph are written, and OpenTofu runs.
References(stack) == Reads[stack]

\* Mutant: the backend is not written beside the graph.
ApplyWithoutBackend(stack, base) ==
  LET at == WorkspaceRoot(base, stack)
      place == StateOf(at, InForce(at))
  IN
  /\ Loads(config) /\ stack \in DOMAIN config.stacks
  /\ wrote' = Put(wrote, Normalize(at), [setting |-> Settings(stack), place |-> place])
  /\ last' = [Nothing EXCEPT !.from = "project", !.at = Normalize(at), !.wrote = place]
  /\ generated' = {} /\ UNCHANGED <<config, backends, looking>>

Apply(stack, base) ==
  LET at == WorkspaceRoot(base, stack)
      place == StateOf(at, Settings(stack))
  IN
  /\ Loads(config) /\ stack \in DOMAIN config.stacks
  /\ StackFrontend(config, config.stacks[stack]) # <<>>
  /\ References(stack) \subseteq DOMAIN config.stacks \ {stack}
  /\ backends' = Put(backends, Normalize(at), Settings(stack))
  /\ wrote' = Put(wrote, Normalize(at), [setting |-> Settings(stack), place |-> place])
  /\ last' = [stack |-> stack, from |-> "project", at |-> Normalize(at), wrote |-> place,
              reads |-> [p \in References(stack) |->
                           [at |-> Normalize(WorkspaceRoot(base, p)),
                            setting |-> Settings(p),
                            place |-> StateOf(at, ResolvedBackend(base, p))]]]
  /\ generated' = {} /\ UNCHANGED <<config, looking>>

\* Mutant: a graph run goes by a default backend of its own.
ApplyGraphAfresh(stack, base) ==
  LET at == Join(OrElse(base, Relative(<<".inframe">>)), Relative(<<"stacks", stack>>)) IN
  /\ References(stack) = {}
  /\ last' = [stack |-> stack, from |-> "graph", at |-> Normalize(at),
              wrote |-> StateOf(at, [kind |-> "local", path |-> <<>>]), reads |-> <<>>]
  /\ generated' = {} /\ UNCHANGED <<config, backends, wrote, looking>>

\* The same from a graph file: the project is not read, no backend is written,
\* and a graph with stack references is not lowered.
ApplyGraph(stack, base) ==
  LET at == Join(OrElse(base, Relative(<<".inframe">>)), Relative(<<"stacks", stack>>)) IN
  /\ References(stack) = {}
  /\ last' = [stack |-> stack, from |-> "graph", at |-> Normalize(at),
              wrote |-> StateOf(at, InForce(at)), reads |-> <<>>]
  /\ generated' = {} /\ UNCHANGED <<config, backends, wrote, looking>>

EditConfig(c) == /\ config' = c /\ last' = Nothing /\ generated' = {}
                 /\ UNCHANGED <<backends, wrote, looking>>

\* generate_providers, in a directory with a project file or without.
Generate(request, project) ==
  /\ project # <<>> => Loads(config)
  /\ generated' = Targets(project, request) /\ last' = Nothing
  /\ UNCHANGED <<config, backends, wrote, looking>>

Next == \/ \E stack \in DOMAIN Reads, base \in Bases : Apply(stack, base) \/ ApplyGraph(stack, base)
        \/ \E c \in Configs : EditConfig(c)
        \/ \E request \in Requests, project \in {<<>>, <<config>>} : Generate(request, project)
        \/ LookingNext /\ UNCHANGED rollout

Spec == Init /\ [][Next]_vars

-----------------------------------------------------------------------------
\* Records of runs and times have their form.
TypeOK == /\ config \in Configs
          /\ DOMAIN wrote = DOMAIN backends
          /\ now \in 1..MaxTime /\ \A f \in DOMAIN files : files[f].time \in 0..now
          /\ warned \in {<<>>, <<TRUE>>, <<FALSE>>}

\* A stack that reads another one looks where that one's last run under the same
\* --workspace wrote its state, as long as the producer's backend is still what
\* it was then: whatever directory the paths of the configuration start from.
ReadsTheProducer ==
  last.from = "project" =>
    \A p \in DOMAIN last.reads :
      LET read == last.reads[p] IN
      read.at \in DOMAIN wrote /\ wrote[read.at].setting = read.setting
        => read.place = wrote[read.at].place

\* A run of a graph file writes the state the project's runs in the same
\* workspace write, although it reads no project: the backend file they left.
GraphRunKeepsState ==
  last.from = "graph" /\ last.at \in DOMAIN wrote => last.wrote = wrote[last.at].place

\* What the build takes for granted of a configuration that loads: every stack has
\* entry points in a configured frontend, and a gate only if that frontend is Lean,
\* the one run_gate knows.  A stack may leave open which of two frontends builds it,
\* which the build refuses; it has no gate.
LoadedIsUsable ==
  Loads(config) =>
    \A name \in DOMAIN config.stacks :
      LET stack == config.stacks[name]
          frontend == StackFrontend(config, stack) IN
      IF frontend = <<>> THEN Len(Frontends(config)) = 2 /\ stack.gate = <<>>
      ELSE /\ frontend[1] \in ToSet(Frontends(config))
           /\ stack.gate # <<>> => frontend = <<"lean">>
           /\ \A which \in {"main", "test"} : ~Empty(EntryPoint(config, stack, which))

\* The lakefile of a generated Lean package names the core library by a path that
\* leads there from wherever the package is put: by default, by the project, or
\* by --output.  (One without a path names a git repository, of which nothing is
\* said here.)
CoreIsReached ==
  \A t \in generated : t.frontend = "lean" =>
    LET core == t.core[1] IN
    core.path # <<>> =>
      /\ config.lean # <<>> /\ config.lean[1].core.path # <<>>
      /\ Normalize(Join(t.output, core.path[1])) = Normalize(Join(Root, config.lean[1].core.path[1]))

\* Two targets of one command go to different directories, by default or given
\* --output, unless the configuration gives both frontends one directory.  A
\* configuration that names outputs itself is exempt: nothing in the code compares
\* the directories it names.
TargetsApart ==
  \A t, u \in generated :
    /\ t # u /\ Normalize(t.output) = Normalize(u.output)
    => \/ /\ t.frontend # u.frontend
          /\ Normalize(Join(Root, FrontendDirectory(config, t.frontend)))
               = Normalize(Join(Root, FrontendDirectory(config, u.frontend)))
       \/ \E name \in DOMAIN config.providers :
            config.providers[name].output # <<>> \/ config.providers[name].leanOutput # <<>>
=============================================================================
