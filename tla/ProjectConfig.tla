--------------------------- MODULE ProjectConfig ---------------------------
(***************************************************************************)
(* inframe.toml as the CLI reads it (crates/cli/src/project.rs): what load *)
(* refuses, the frontend of a stack, and where generated packages go and   *)
(* find the core library.  An optional value is a sequence of at most one. *)
(* A path is absolute or relative and a sequence of components.            *)
(***************************************************************************)
EXTENDS Naturals, Sequences, SequencesExt

CONSTANTS Cwd,             \* the working directory, an absolute path
          Root,            \* the project's directory, as given on the command line
          ComponentNames,  \* the names valid_component_name accepts
          BackendKinds,    \* the types valid_backend_kind accepts
          LeanNames,       \* the names valid_lean_name accepts
          SecretLike       \* the keys secret_like_key refuses

Path(absolute, parts) == [absolute |-> absolute, parts |-> parts]
Relative(parts) == Path(FALSE, parts)
Paths == [absolute : BOOLEAN, parts : Seq(STRING)]
ASSUME PathsAssumption == Cwd \in Paths /\ Cwd.absolute /\ Root \in Paths

\* The directories the commands name themselves are strings.
PathLiterals == {".", "..", "purescript", "lean", ".generated", ".inframe", "stacks",
                 "terraform.tfstate", "p"}
ASSUME LiteralsAssumption == PathLiterals \subseteq STRING

\* valid_component_name: a component that leads one directory down.
ASSUME ComponentsAssumption == ComponentNames \subseteq STRING \ {"", ".", ".."}

Join(p, q) == IF q.absolute THEN q ELSE Path(p.absolute, p.parts \o q.parts)

\* The directory that `part` leads to from `done`, and the one that all `parts` do.
Step(done, part) ==
  CASE part = "." -> done
    [] part = ".." -> IF done = <<>> THEN done ELSE Front(done)
    [] OTHER -> Append(done, part)

Walk(from, parts) ==
  LET done[n \in 0..Len(parts)] == IF n = 0 THEN from ELSE Step(done[n - 1], parts[n])
  IN done[Len(parts)]

\* normalize: "." and ".." resolved without the file system.
Normalize(path) == Walk(<<>>, Join(Cwd, path).parts)

\* Mutant: the path is not taken from a common directory.
PathDownOnly(from, to) == Relative(SelectSeq(Join(Cwd, to).parts, LAMBDA part : part # "."))

\* relative_path: up to the common directory, and down again.
RelativePath(from, to) ==
  LET f == Normalize(from)
      t == Normalize(to)
      common == CHOOSE n \in 0..Len(f) :
                  /\ n <= Len(t) /\ SubSeq(f, 1, n) = SubSeq(t, 1, n)
                  /\ n < Len(f) /\ n < Len(t) => f[n + 1] # t[n + 1]
      steps == [i \in 1..(Len(f) - common) |-> ".."] \o SubSeq(t, common + 1, Len(t))
  IN Relative(IF steps = <<>> THEN <<".">> ELSE steps)

-----------------------------------------------------------------------------
\* What the file may hold.
Option(S) == {option \in Seq(S) : Len(option) <= 1}
FrontendNames == {"purescript", "lean"}
Cores == [path : Option(Paths), git : Option(STRING), rev : Option(STRING), subdir : Option(STRING)]
PureScriptFrontends ==
  [package : STRING, main : STRING, test : Option(STRING), directory : Paths]
LeanFrontends == [main : STRING, test : Option(STRING), directory : Paths, core : Cores]
Backends == [kind : STRING, path : Option(Paths), values : SUBSET Seq(STRING)]
Stacks == [frontend : Option(FrontendNames), main : Option(STRING), test : Option(STRING),
           gate : Seq(STRING), backend : Backends]
Providers ==
  [source : STRING, version : STRING, output : Option(Paths), leanOutput : Option(Paths)]

Configuration(config) ==
  /\ config.purescript \in Option(PureScriptFrontends)
  /\ config.lean \in Option(LeanFrontends)
  /\ config.workspace \in Paths
  /\ \A name \in DOMAIN config.stacks : config.stacks[name] \in Stacks
  /\ \A name \in DOMAIN config.providers : config.providers[name] \in Providers

Arguments ==
  [direct : BOOLEAN, provider : Option(STRING), frontend : Option(FrontendNames),
   output : Option(Paths)]

-----------------------------------------------------------------------------
Blank(text) == text \in {"", " "}
Empty(option) == option = <<"">>

\* The keys of a backend's configuration, at any depth: it is the set of the paths
\* of keys that lead to its values (validate_backend_value).
BackendKeys(values) == UNION {ToSet(keys) : keys \in values}

StackAccepted(config, stack) ==
  /\ stack.backend.kind \in BackendKinds
  /\ ~Empty(stack.main) /\ ~Empty(stack.test)
  /\ stack.frontend = <<"purescript">> => config.purescript # <<>>
  /\ stack.frontend = <<"lean">> => config.lean # <<>>
  /\ BackendKeys(stack.backend.values) \cap SecretLike = {}
  /\ \A name \in ToSet(stack.gate) : name \in LeanNames

Frontends(config) ==
  (IF config.purescript # <<>> THEN <<"purescript">> ELSE <<>>)
    \o (IF config.lean # <<>> THEN <<"lean">> ELSE <<>>)

\* stack_frontend: the frontend, or <<>> for the error.
StackFrontend(config, stack) ==
  IF stack.frontend # <<>> THEN stack.frontend
  ELSE IF Len(Frontends(config)) = 1 THEN Frontends(config) ELSE <<>>

CoreAccepted(core) ==
  /\ core.path = <<>> \/ core.git = <<>>
  /\ core.git = <<>> => core.rev = <<>> /\ core.subdir = <<>>

\* Mutant of GatesAreLean: a gated stack has to have some frontend.
GatesHaveFrontends(config) ==
  \A name \in DOMAIN config.stacks :
    config.stacks[name].gate # <<>> => StackFrontend(config, config.stacks[name]) # <<>>

\* The last check of load: a stack whose frontend is open, or is not Lean, has no gate.
GatesAreLean(config) ==
  \A name \in DOMAIN config.stacks :
    config.stacks[name].gate # <<>> => StackFrontend(config, config.stacks[name]) = <<"lean">>

\* Project::load.
Loads(config) ==
  /\ Frontends(config) # <<>>
  /\ config.purescript # <<>> =>
       LET c == config.purescript[1] IN
       ~Blank(c.package) /\ ~Blank(c.main) /\ ~Empty(c.test)
  /\ config.lean # <<>> =>
       LET c == config.lean[1] IN ~Blank(c.main) /\ ~Empty(c.test) /\ CoreAccepted(c.core)
  /\ \A name \in DOMAIN config.providers :
       /\ name \in ComponentNames
       /\ ~Blank(config.providers[name].source) /\ ~Blank(config.providers[name].version)
  /\ DOMAIN config.stacks # {}
  /\ \A name \in DOMAIN config.stacks :
       /\ name \in ComponentNames
       /\ StackAccepted(config, config.stacks[name])
  /\ GatesAreLean(config)

\* test_entry_point and the default of main: the stack's own, or the frontend's.
EntryPoint(config, stack, which) ==
  LET frontend == StackFrontend(config, stack)
      defaults == IF frontend = <<"lean">> THEN config.lean[1] ELSE config.purescript[1]
  IN IF which = "test"
       THEN IF stack.test # <<>> THEN stack.test ELSE defaults.test
       ELSE IF stack.main # <<>> THEN stack.main ELSE <<defaults.main>>

-----------------------------------------------------------------------------
\* Where packages are generated.
FrontendDirectory(config, frontend) ==
  LET c == IF frontend = "lean" THEN config.lean ELSE config.purescript
  IN IF c = <<>> THEN Relative(<<frontend>>) ELSE c[1].directory

\* Mutant: the packages of all providers in one directory.
OutputOfFrontend(config, frontend, name) ==
  Join(Join(Root, FrontendDirectory(config, frontend)), Relative(<<".generated">>))

DefaultOutput(config, frontend, name) ==
  Join(Join(Root, FrontendDirectory(config, frontend)), Relative(<<".generated", name>>))

Git(git, rev, subdir) == [path |-> <<>>, git |-> git, rev |-> rev, subdir |-> subdir]
Published == Git("repository", "main", "lean")
OrElse(option, default) == IF option = <<>> THEN default ELSE option[1]

\* lean_core_dependency, when the Lean frontend is configured.
LeanCore(config, output) ==
  LET core == config.lean[1].core IN
  IF core.path # <<>>
    THEN [path |-> <<RelativePath(output, Join(Root, core.path[1]))>>, git |-> "", rev |-> "",
          subdir |-> ""]
    ELSE Git(OrElse(core.git, Published.git), OrElse(core.rev, Published.rev),
             OrElse(core.subdir, Published.subdir))

Target(name, frontend, output, core) ==
  [name |-> name, frontend |-> frontend, output |-> output, core |-> core]

\* provider_generations: the targets of the selected providers, or {} for an error.
ProjectTargets(config, provider, frontend) ==
  LET names == IF provider = <<>> THEN DOMAIN config.providers
               ELSE DOMAIN config.providers \cap ToSet(provider)
      frontends == {f \in ToSet(Frontends(config)) : frontend = <<>> \/ frontend = <<f>>}
      output(name, f) ==
        LET own == IF f = "lean" THEN config.providers[name].leanOutput
                   ELSE config.providers[name].output
        IN IF own = <<>> THEN DefaultOutput(config, f, name) ELSE Join(Root, own[1])
      core(name, f) == IF f = "lean" THEN <<LeanCore(config, output(name, f))>> ELSE <<>>
  IN {Target(name, f, output(name, f), core(name, f)) : name \in names, f \in frontends}

\* generate_providers given --source and --version: one target, with or without a
\* project (`config` is <<>> or holds it).  <<>> is an error.
DirectTarget(config, arguments, name) ==
  LET frontend == IF arguments.frontend # <<>> THEN arguments.frontend
                  ELSE IF config = <<>> THEN <<"purescript">>
                  ELSE IF Len(Frontends(config[1])) = 1 THEN Frontends(config[1]) ELSE <<>>
      output == IF arguments.output # <<>> THEN arguments.output[1]
                ELSE IF config # <<>> THEN DefaultOutput(config[1], frontend[1], name)
                ELSE Relative(<<frontend[1], ".generated", name>>)
      core == IF frontend[1] = "purescript" THEN <<>>
              ELSE IF config # <<>> /\ config[1].lean # <<>> THEN <<LeanCore(config[1], output)>>
              ELSE <<Published>>
  IN IF frontend = <<>> THEN <<>> ELSE <<Target(name, frontend[1], output, core)>>

\* generate_providers: the targets its loop generates.  An --output moves the one
\* target there is, and a Lean target then asks the project for the core again.
Targets(config, arguments) ==
  LET chosen == IF arguments.direct
                  THEN ToSet(DirectTarget(config, arguments, OrElse(arguments.provider, "p")))
                ELSE IF config = <<>> THEN {}
                ELSE ProjectTargets(config[1], arguments.provider, arguments.frontend)
      refused == arguments.output # <<>> /\ \E t, u \in chosen : t.name # u.name
      moved(t) == [t EXCEPT !.output = arguments.output[1],
                            !.core = IF t.frontend = "lean" /\ config # <<>>
                                       THEN <<LeanCore(config[1], arguments.output[1])>> ELSE @]
      askable == \A t \in chosen : t.frontend = "lean" /\ config # <<>> => config[1].lean # <<>>
  IN IF refused THEN {}
     ELSE IF arguments.output = <<>> THEN chosen
     ELSE IF askable /\ \E t \in chosen : chosen = {t} THEN {moved(t) : t \in chosen}
     ELSE {}
=============================================================================
