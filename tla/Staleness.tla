----------------------------- MODULE Staleness -----------------------------
(***************************************************************************)
(* What `--no-build` says of an artifact that was built earlier            *)
(* (read_selected_graph and warn_if_stale in crates/cli/src/main.rs): the  *)
(* newest modification time below the stack's package, build output        *)
(* directories left out, against the time of the artifact.                 *)
(***************************************************************************)
EXTENDS Naturals

CONSTANTS Sources,    \* files of the stack's package
          Outputs,    \* files in the build output directories below it
          MaxTime     \* bound: the last clock tick, and the last version of a file

ASSUME FilesAssumption == Sources # {} /\ Sources \cap Outputs = {} /\ MaxTime \in Nat \ {0}

VARIABLES now,        \* the clock, at the resolution of the file system
          files,      \* version and modification time of each file
          artifact,   \* the versions the artifact was built from and its time, or <<>>
          building,   \* the versions a running build has read, or <<>>
          muddled,    \* an edit that times cannot tell has happened
          warned      \* what the last look at the artifact said, or <<>>

looking == <<now, files, artifact, building, muddled, warned>>

LookingInit ==
  /\ now = 1 /\ files = [f \in Sources \cup Outputs |-> [version |-> 1, time |-> 0]]
  /\ artifact = <<>> /\ building = <<>> /\ muddled = FALSE /\ warned = <<>>

-----------------------------------------------------------------------------
Versions == [f \in Sources |-> files[f].version]

Tick == /\ now < MaxTime /\ now' = now + 1
        /\ UNCHANGED <<files, artifact, building, muddled, warned>>

\* An edit gets the time it is made at, which is not later than the artifact's
\* when that was written in the same tick.
Edit(f) == /\ files[f].version < MaxTime
           /\ files' = [files EXCEPT ![f] = [version |-> @.version + 1, time |-> now]]
           /\ muddled' = (muddled \/ (artifact # <<>> /\ artifact[1].time = now))
           /\ warned' = <<>>
           /\ UNCHANGED <<now, artifact, building>>

\* Project::build: the program runs on the sources, and then the artifact is
\* written, also when a source was edited in between.
StartBuild == /\ building = <<>> /\ building' = <<Versions>>
              /\ UNCHANGED <<now, files, artifact, muddled, warned>>
FinishBuild == /\ building # <<>> /\ building' = <<>>
               /\ artifact' = <<[sources |-> building[1], time |-> now]>>
               /\ muddled' = (building[1] # Versions)
               /\ warned' = <<>>
               /\ UNCHANGED <<now, files>>
FailBuild == /\ building # <<>> /\ building' = <<>>
             /\ UNCHANGED <<now, files, artifact, muddled, warned>>

\* `lake build` and `spago build` write below the package too.
Compile(f) == /\ files' = [files EXCEPT ![f] = [version |-> @.version, time |-> now]]
              /\ warned' = <<>>
              /\ UNCHANGED <<now, artifact, building, muddled>>

\* Mutants: build output counts as source; the oldest time is compared.
AnyChangedAfter(t) == \E f \in DOMAIN files : files[f].time > t
AllChangedAfter(t) == \A f \in Sources : files[f].time > t

\* newest_source_mtime, which skips BUILD_OUTPUT_DIRECTORIES, is later than t.
ChangedAfter(t) == \E f \in Sources : files[f].time > t

\* read_selected_graph with --no-build, and warn_if_stale.
Look == /\ artifact # <<>>
        /\ warned' = <<ChangedAfter(artifact[1].time)>>
        /\ UNCHANGED <<now, files, artifact, building, muddled>>

LookingNext == \/ \E f \in Sources : Edit(f)
               \/ \E f \in Outputs : Compile(f)
               \/ StartBuild \/ FinishBuild \/ FailBuild \/ Look \/ Tick

LookingSpec == LookingInit /\ [][LookingNext]_looking

-----------------------------------------------------------------------------
\* A look at an artifact is silent only if it was built from the sources as they
\* are, unless a source was edited during its build or in the tick of its end:
\* an edit any later is seen, however many builds were started and failed since.
SilenceMeansFresh == warned = <<FALSE>> /\ ~muddled => artifact[1].sources = Versions

\* A warning means that a source is another one than the artifact was built from:
\* the build's own output below the package never raises it.
AlarmIsReal == warned = <<TRUE>> => artifact[1].sources # Versions

=============================================================================
