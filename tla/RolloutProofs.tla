--------------------------- MODULE RolloutProofs ---------------------------
(***************************************************************************)
(* What Rollout says of paths holds for every project, wherever the        *)
(* working directory and the project are, and what --no-build says is      *)
(* right for every set of sources and outputs.  Four parts:                *)
(*                                                                         *)
(*  - artifacts: the invariant of Staleness compares each file alone, a    *)
(*    source later than the artifact has another version than the one      *)
(*    built in, and one of another version is later, unless times cannot   *)
(*    tell;                                                                *)
(*  - paths: walking along p \o q is walking along p and then along q, and *)
(*    walking down leads to the concatenation, so that Join composes with  *)
(*    Normalize, the resolved path of a producer means for its readers     *)
(*    what it means for itself, and RelativePath leads where it says;      *)
(*  - histories: a workspace holds the backend of its last project run,    *)
(*    and that run wrote where the backend says (WroteWhereItSays), which  *)
(*    is what a later reader and a later graph run are compared with;      *)
(*  - configurations: what load refuses leaves frontends, directories and  *)
(*    targets as the properties claim.                                     *)
(*                                                                         *)
(* Walk is a recursive function, and there is no induction over it here: a *)
(* fact about all walks is proved by its least counterexample              *)
(* (LeastNumber).                                                          *)
(***************************************************************************)
EXTENDS Rollout, SequenceTheorems, WellFoundedInduction, TLAPS

-----------------------------------------------------------------------------
\* Artifacts.  What an artifact is and when it was written: a stamp of each file.
Stamps == [version : Nat, time : Nat]
Recorded == [Sources -> Nat]
Artifacts == [sources : Recorded, time : Nat]

\* Types, which the runs check with the specification's own bounds.
Typed == /\ now \in Nat
         /\ files \in [Sources \cup Outputs -> Stamps]
         /\ artifact = <<>> \/ \E a \in Artifacts : artifact = <<a>>
         /\ building = <<>> \/ \E b \in Recorded : building = <<b>>
         /\ muddled \in BOOLEAN

\* Nothing is later than the clock, and nothing was built from a later version.
PastOnly ==
  /\ \A f \in Sources : files[f].time <= now
  /\ artifact # <<>> =>
       /\ artifact[1].time <= now
       /\ \A f \in Sources : artifact[1].sources[f] <= files[f].version
  /\ building # <<>> => \A f \in Sources : building[1][f] <= files[f].version

\* A time later than the artifact's is an edit since the artifact was built.
LaterIsEdited ==
  artifact # <<>> =>
    \A f \in Sources : files[f].time > artifact[1].time
                         => artifact[1].sources[f] < files[f].version

\* And an edit since then has a later time.
EditedIsLater ==
  artifact # <<>> /\ ~muddled =>
    \A f \in Sources : artifact[1].sources[f] < files[f].version
                         => files[f].time > artifact[1].time

\* What was said is still true: an edit or a build takes it back.
SaidRight ==
  warned # <<>> => artifact # <<>> /\ warned = <<ChangedAfter(artifact[1].time)>>

IInv == Typed /\ PastOnly /\ LaterIsEdited /\ EditedIsLater /\ SaidRight

-----------------------------------------------------------------------------
\* The versions of the sources are a function on them.
LEMMA VersionsTyped ==
  ASSUME Typed
  PROVE  /\ Versions \in Recorded
         /\ \A f \in Sources : Versions[f] = files[f].version
BY DEF Typed, Versions, Recorded, Stamps

LEMMA InitHolds == LookingInit => IInv
<1>. SUFFICES ASSUME LookingInit PROVE IInv
  OBVIOUS
<1>. USE DEF LookingInit
<1>1. Typed
  BY DEF Typed, Stamps
<1>2. PastOnly
  BY DEF PastOnly
<1>3. LaterIsEdited /\ EditedIsLater /\ SaidRight
  BY DEF LaterIsEdited, EditedIsLater, SaidRight
<1>. QED
  BY <1>1, <1>2, <1>3 DEF IInv

\* The clock only moves away from all times.
LEMMA TickKeeps == IInv /\ Tick => IInv'
<1>. SUFFICES ASSUME IInv, Tick PROVE IInv'
  OBVIOUS
<1>. USE DEF IInv, Tick
<1>1. Typed' /\ LaterIsEdited' /\ EditedIsLater' /\ SaidRight'
  <2>1. Typed'
    BY FilesAssumption DEF Typed
  <2>2. LaterIsEdited' /\ EditedIsLater'
    BY DEF LaterIsEdited, EditedIsLater
  <2>3. SaidRight'
    BY DEF SaidRight, ChangedAfter
  <2>. QED
    BY <2>1, <2>2, <2>3
<1>2. \A f \in Sources : files'[f].time <= now'
  BY DEF Typed, Stamps, PastOnly
<1>3. artifact' # <<>> => /\ artifact'[1].time <= now'
                          /\ \A f \in Sources : artifact'[1].sources[f] <= files'[f].version
  BY DEF Typed, Artifacts, PastOnly
<1>4. PastOnly'
  BY <1>2, <1>3 DEF PastOnly
<1>. QED
  BY <1>1, <1>4

\* An edit is later than every artifact but one of its own tick.
LEMMA EditKeeps ==
  ASSUME IInv, NEW g \in Sources, Edit(g)
  PROVE  IInv'
<1>. USE DEF IInv, Edit
<1>1. /\ files' \in [Sources \cup Outputs -> Stamps]
      /\ files'[g].time = now /\ files'[g].version = files[g].version + 1
      /\ \A f \in Sources \ {g} : files'[f] = files[f]
  BY DEF Typed, Stamps
<1>2. Typed'
  BY <1>1 DEF Typed
<1>3. PastOnly'
  <2>1. \A f \in Sources : files'[f].time <= now' /\ files[f].version <= files'[f].version
    BY <1>1 DEF Typed, Stamps, PastOnly
  <2>2. artifact' # <<>> => /\ artifact'[1].time <= now'
                            /\ \A f \in Sources : artifact'[1].sources[f] <= files'[f].version
    BY <1>1, <2>1 DEF Typed, Stamps, PastOnly, Artifacts, Recorded
  <2>3. building' # <<>> => \A f \in Sources : building'[1][f] <= files'[f].version
    BY <1>1, <2>1 DEF Typed, Stamps, PastOnly, Recorded
  <2>. QED
    BY <2>1, <2>2, <2>3 DEF PastOnly
<1>4. LaterIsEdited'
  BY <1>1 DEF LaterIsEdited, PastOnly, Typed, Artifacts, Recorded, Stamps
<1>5. EditedIsLater'
  <2>. SUFFICES ASSUME artifact # <<>>, ~muddled'
                PROVE  \A f \in Sources : artifact[1].sources[f] < files'[f].version
                                             => files'[f].time > artifact[1].time
    BY DEF EditedIsLater
  <2>1. ~muddled /\ artifact[1].time # now
    OBVIOUS
  <2>2. artifact[1].time < now
    BY <2>1 DEF PastOnly, Typed, Artifacts
  <2>3. \A f \in Sources \ {g} : artifact[1].sources[f] < files'[f].version
                                   => files'[f].time > artifact[1].time
    BY <1>1, <2>1 DEF EditedIsLater
  <2>. QED
    BY <1>1, <2>2, <2>3 DEF Typed, Artifacts
<1>6. SaidRight'
  BY DEF SaidRight
<1>. QED
  BY <1>2, <1>3, <1>4, <1>5, <1>6

\* A build ends with an artifact at least as late as every source.
LEMMA FinishBuildKeeps == IInv /\ FinishBuild => IInv'
<1>. SUFFICES ASSUME IInv, FinishBuild PROVE IInv'
  OBVIOUS
<1>. USE DEF IInv, FinishBuild
<1>1. PICK b \in Recorded : building = <<b>>
  BY DEF Typed
<1>2. artifact' # <<>> /\ artifact'[1].sources = b /\ artifact'[1].time = now
  BY <1>1
<1>3. Typed'
  BY <1>1 DEF Typed, Artifacts
<1>4. PastOnly'
  BY <1>1, <1>2 DEF PastOnly, Typed, Recorded, Stamps
<1>5. LaterIsEdited'
  BY <1>2 DEF LaterIsEdited, PastOnly, Typed, Stamps
<1>6. EditedIsLater'
  <2>1. ~muddled' => \A f \in Sources : b[f] = files[f].version
    BY <1>1, VersionsTyped
  <2>. QED
    BY <1>2, <2>1 DEF EditedIsLater, Typed, Recorded, Stamps
<1>7. SaidRight'
  BY DEF SaidRight
<1>. QED
  BY <1>3, <1>4, <1>5, <1>6, <1>7

LEMMA StartBuildKeeps == IInv /\ StartBuild => IInv'
<1>. SUFFICES ASSUME IInv, StartBuild PROVE IInv'
  OBVIOUS
<1>. USE DEF IInv, StartBuild
<1>1. building' = <<Versions>> /\ Versions \in Recorded
      /\ \A f \in Sources : Versions[f] = files[f].version
  BY VersionsTyped
<1>2. Typed' /\ LaterIsEdited' /\ EditedIsLater' /\ SaidRight'
  BY <1>1 DEF Typed, LaterIsEdited, EditedIsLater, SaidRight, ChangedAfter
<1>3. PastOnly'
  BY <1>1 DEF PastOnly, Typed, Recorded, Stamps
<1>. QED
  BY <1>2, <1>3

LEMMA FailBuildKeeps == IInv /\ FailBuild => IInv'
<1>. SUFFICES ASSUME IInv, FailBuild PROVE IInv'
  OBVIOUS
<1>. USE DEF IInv, FailBuild
<1>1. Typed' /\ LaterIsEdited' /\ EditedIsLater' /\ SaidRight'
  BY DEF Typed, LaterIsEdited, EditedIsLater, SaidRight, ChangedAfter
<1>2. PastOnly'
  BY DEF PastOnly
<1>. QED
  BY <1>1, <1>2

\* What the frontends' own builds write is no source.
LEMMA CompileKeeps ==
  ASSUME IInv, NEW g \in Outputs, Compile(g)
  PROVE  IInv'
<1>. USE DEF IInv, Compile
<1>1. /\ files' \in [Sources \cup Outputs -> Stamps]
      /\ \A f \in Sources : files'[f] = files[f]
  BY FilesAssumption DEF Typed, Stamps
<1>2. Typed' /\ SaidRight'
  BY <1>1 DEF Typed, SaidRight
<1>3. PastOnly' /\ LaterIsEdited' /\ EditedIsLater'
  BY <1>1 DEF PastOnly, LaterIsEdited, EditedIsLater
<1>. QED
  BY <1>2, <1>3

LEMMA LookKeeps == IInv /\ Look => IInv'
BY DEF Look, IInv, Typed, PastOnly, LaterIsEdited, EditedIsLater, SaidRight, ChangedAfter

LEMMA StepKeeps == IInv /\ [LookingNext]_looking => IInv'
<1>. SUFFICES ASSUME IInv, [LookingNext]_looking PROVE IInv'
  OBVIOUS
<1>1. CASE \E f \in Sources : Edit(f)
  BY <1>1, EditKeeps
<1>2. CASE \E f \in Outputs : Compile(f)
  BY <1>2, CompileKeeps
<1>3. CASE UNCHANGED looking
  BY <1>3 DEF looking, IInv, Typed, PastOnly, LaterIsEdited, EditedIsLater, SaidRight, ChangedAfter
<1>. QED
  BY <1>1, <1>2, <1>3, TickKeeps, StartBuildKeeps, FinishBuildKeeps, FailBuildKeeps, LookKeeps
     DEF LookingNext

\* What was said follows from the comparison of single files.
LEMMA SaidRightMeans == IInv => SilenceMeansFresh /\ AlarmIsReal
<1>. SUFFICES ASSUME IInv PROVE SilenceMeansFresh /\ AlarmIsReal
  OBVIOUS
<1>. USE DEF IInv
<1>1. ASSUME warned = <<FALSE>>, ~muddled PROVE artifact[1].sources = Versions
  <2>1. artifact # <<>> /\ ~ChangedAfter(artifact[1].time)
    BY <1>1 DEF SaidRight
  <2>2. PICK a \in Artifacts : artifact = <<a>>
    BY <2>1 DEF Typed
  <2>3. ASSUME NEW f \in Sources PROVE a.sources[f] = files[f].version
    <3>1. a.sources[f] \in Nat /\ a.time \in Nat
      BY <2>2 DEF Artifacts, Recorded
    <3>2. files[f].version \in Nat /\ files[f].time \in Nat
      BY DEF Typed, Stamps
    <3>3. a.sources[f] <= files[f].version /\ ~(files[f].time > a.time)
      BY <2>1, <2>2 DEF PastOnly, ChangedAfter
    <3>4. a.sources[f] < files[f].version => files[f].time > a.time
      BY <1>1, <2>1, <2>2 DEF EditedIsLater
    <3>. QED
      BY <3>1, <3>2, <3>3, <3>4
  <2>. QED
    BY <2>2, <2>3, VersionsTyped DEF Artifacts, Recorded
<1>2. ASSUME warned = <<TRUE>> PROVE artifact[1].sources # Versions
  <2>1. artifact # <<>> /\ ChangedAfter(artifact[1].time)
    BY <1>2 DEF SaidRight
  <2>2. PICK f \in Sources : artifact[1].sources[f] < files[f].version
    BY <2>1 DEF LaterIsEdited, ChangedAfter
  <2>3. artifact[1].sources[f] # Versions[f]
    BY <2>1, <2>2, VersionsTyped DEF Typed, Artifacts, Recorded, Stamps
  <2>. QED
    BY <2>3
<1>. QED
  BY <1>1, <1>2 DEF SilenceMeansFresh, AlarmIsReal

-----------------------------------------------------------------------------
\* The inductive invariant holds: times tell of every edit but those made during
\* a build or in the tick an artifact is written in.
THEOREM TimesTell == LookingSpec => []IInv
<1>1. LookingInit => IInv
  BY InitHolds
<1>2. IInv /\ [LookingNext]_looking => IInv'
  BY StepKeeps
<1>. QED
  BY <1>1, <1>2, PTL DEF LookingSpec

\* --no-build without a warning uses an artifact of the sources as they are, for
\* any package and any history, unless times cannot tell.
THEOREM SilenceIsFresh == LookingSpec => []SilenceMeansFresh
<1>1. IInv => SilenceMeansFresh
  BY SaidRightMeans
<1>. QED
  BY <1>1, TimesTell, PTL

\* A warning of --no-build is never a false alarm, whatever the frontends write
\* into their output directories.
THEOREM AlarmsAreReal == LookingSpec => []AlarmIsReal
<1>1. IInv => AlarmIsReal
  BY SaidRightMeans
<1>. QED
  BY <1>1, TimesTell, PTL

-----------------------------------------------------------------------------

\* What paths are made of: their components, and sequences of them.
Components == STRING
Names == Seq(Components)

-----------------------------------------------------------------------------
\* A set of numbers that is not empty has a least one.
LEMMA LeastNumber ==
  ASSUME NEW S \in SUBSET Nat, S # {}
  PROVE  \E m \in S : \A n \in S : m <= n
<1>1. PICK m \in S : \A n \in S : <<n, m>> \notin OpToRel(<, Nat)
  BY NatLessThanWellFounded, WFMin
<1>2. \A n \in S : ~(n < m)
  BY <1>1 DEF OpToRel
<1> QED
  BY <1>2

\* The two components that lead up or nowhere are components.
LEMMA Dots == ".." \in Components /\ "." \in Components
  BY LiteralsAssumption DEF Components, PathLiterals

\* What the proofs below use of sequences of components.
LEMMA NamesConcat ==
  ASSUME NEW p \in Names, NEW q \in Names
  PROVE  /\ p \o q \in Names
         /\ Len(p) \in Nat /\ Len(q) \in Nat
         /\ Len(p \o q) = Len(p) + Len(q)
         /\ p \o <<>> = p /\ <<>> \o p = p
  BY ConcatProperties, LenProperties, ConcatEmptySeq DEF Names

\* Concatenation of paths is associative.
LEMMA NamesAssociative ==
  ASSUME NEW p \in Names, NEW q \in Names, NEW r \in Names
  PROVE  (p \o q) \o r = p \o (q \o r)
  BY ConcatAssociative DEF Names

\* What a path with one component more is.
LEMMA NamesAppend ==
  ASSUME NEW p \in Names, NEW x \in Components
  PROVE  /\ Append(p, x) \in Names /\ <<x>> \in Names
         /\ Append(p, x) = p \o <<x>>
         /\ Len(Append(p, x)) = Len(p) + 1
         /\ \A i \in 1..Len(p) : Append(p, x)[i] = p[i]
         /\ Append(p, x)[Len(p) + 1] = x
<1>1. /\ Append(p, x) \in Names
      /\ Len(Append(p, x)) = Len(p) + 1
      /\ \A i \in 1..Len(p) : Append(p, x)[i] = p[i]
      /\ Append(p, x)[Len(p) + 1] = x
  BY AppendProperties DEF Names
<1>2. <<x>> \in Names
  BY DEF Names
<1>3. Append(p, x) = p \o <<x>>
  BY AppendIsConcat DEF Names
<1> QED
  BY <1>1, <1>2, <1>3

\* What a stretch of a path is.
LEMMA NamesSubSeq ==
  ASSUME NEW p \in Names, NEW m \in 1..(Len(p) + 1), NEW n \in (m - 1)..Len(p)
  PROVE  /\ SubSeq(p, m, n) \in Names
         /\ Len(SubSeq(p, m, n)) = n - m + 1
         /\ \A i \in 1..(n - m + 1) : SubSeq(p, m, n)[i] = p[m + i - 1]
<1>1. m \in Int /\ n \in Int /\ Len(p) \in Nat
  BY LenProperties DEF Names
<1>2. \A i \in 1..Len(p) : p[i] \in Components
  BY LenProperties DEF Names
<1>3. \A i \in m..n : p[i] \in Components
  BY <1>1, <1>2
<1>4. /\ SubSeq(p, m, n) \in Seq(Components)
      /\ Len(SubSeq(p, m, n)) = IF m <= n THEN n - m + 1 ELSE 0
      /\ \A i \in 1..(n - m + 1) : SubSeq(p, m, n)[i] = p[m + i - 1]
  BY <1>1, <1>3, SubSeqProperties
<1>5. (IF m <= n THEN n - m + 1 ELSE 0) = n - m + 1
  BY <1>1
<1> QED
  BY <1>4, <1>5 DEF Names

\* What a prefix of a path is.
LEMMA NamesPrefix ==
  ASSUME NEW p \in Names, NEW n \in 0..Len(p)
  PROVE  /\ SubSeq(p, 1, n) \in Names /\ Len(SubSeq(p, 1, n)) = n
         /\ \A i \in 1..n : SubSeq(p, 1, n)[i] = p[i]
<1>1. Len(p) \in Nat
  BY NamesConcat
<1>2. 1 \in 1..(Len(p) + 1) /\ n \in (1 - 1)..Len(p)
  BY <1>1
<1>3. /\ SubSeq(p, 1, n) \in Names
      /\ Len(SubSeq(p, 1, n)) = n - 1 + 1
      /\ \A i \in 1..(n - 1 + 1) : SubSeq(p, 1, n)[i] = p[1 + i - 1]
  BY <1>2, NamesSubSeq
<1>4. n - 1 + 1 = n /\ \A i \in 1..n : 1 + i - 1 = i
  BY <1>1
<1> QED
  BY <1>3, <1>4

\* A component may be added after a concatenation or within it.
LEMMA NamesConcatAppend ==
  ASSUME NEW p \in Names, NEW q \in Names, NEW x \in Components
  PROVE  p \o Append(q, x) = Append(p \o q, x)
<1>1. p \o q \in Names /\ <<x>> \in Names
  BY NamesConcat, NamesAppend
<1>2. Append(q, x) = q \o <<x>> /\ Append(p \o q, x) = (p \o q) \o <<x>>
  BY <1>1, NamesAppend
<1>3. (p \o q) \o <<x>> = p \o (q \o <<x>>)
  BY <1>1, NamesAssociative
<1> QED
  BY <1>2, <1>3, Zenon

\* The empty path, beside others.
LEMMA NamesEmpty ==
  /\ <<>> \in Names /\ Len(<<>>) = 0
  /\ \A p \in Names : Len(p) = 0 => p = <<>>
  BY EmptySeq, LenProperties DEF Names

\* One component of a path leads from a directory to a directory: none, the
\* parent, or one below.
LEMMA StepCases ==
  ASSUME NEW done \in Names, NEW part \in Components
  PROVE  /\ Step(done, part) \in Names
         /\ part = "." => Step(done, part) = done
         /\ part = ".." /\ done # <<>> => Step(done, part) = SubSeq(done, 1, Len(done) - 1)
         /\ part \notin {".", ".."} => Step(done, part) = Append(done, part)
<1>1. CASE part = "."
  BY <1>1 DEF Step
<1>2. CASE part = ".." /\ done = <<>>
  BY <1>2 DEF Step
<1>3. CASE part = ".." /\ done # <<>>
  <2>1. Step(done, part) = SubSeq(done, 1, Len(done) - 1)
    BY <1>3 DEF Step, Front
  <2> QED
    BY <1>3, <2>1 DEF Names
<1>4. CASE part # "." /\ part # ".."
  <2>1. Step(done, part) = Append(done, part)
    BY <1>4 DEF Step
  <2>2. Append(done, part) \in Names
    BY AppendProperties DEF Names
  <2> QED
    BY <1>4, <2>1, <2>2
<1> QED
  BY <1>1, <1>2, <1>3, <1>4

\* The directories a walk comes through in its first n steps.
Walks(run, from, parts, n) ==
  /\ run \in [0..n -> Names]
  /\ run[0] = from
  /\ \A i \in 1..n : run[i] = Step(run[i - 1], parts[i])

\* Walk is the last directory of a walk: the recursive function is unique.
LEMMA WalkEnds ==
  ASSUME NEW from \in Names, NEW parts \in Names,
         NEW run, Walks(run, from, parts, Len(parts))
  PROVE  Walk(from, parts) = run[Len(parts)]
<1> DEFINE last1 == Len(parts)
           Follows(f) == f = [n \in 0..last1 |-> IF n = 0 THEN from ELSE Step(f[n - 1], parts[n])]
           chosen == CHOOSE f : Follows(f)
<1>0. last1 \in Nat
  BY DEF Names
<1>1. Follows(run)
  BY <1>0 DEF Walks
<1>2. Follows(chosen)
  BY <1>1
<1>3. Walk(from, parts) = chosen[last1]
  BY DEF Walk
<1> HIDE DEF chosen
<1>5. \A n \in 0..last1 : chosen[n] = IF n = 0 THEN from ELSE Step(chosen[n - 1], parts[n])
  BY <1>2
<1>6. \A n \in 1..last1 : run[n] = Step(run[n - 1], parts[n])
  BY DEF Walks
<1>7. run[0] = from
  BY DEF Walks
<1> HIDE DEF last1, Follows
<1> DEFINE Wrong == {n \in 0..last1 : chosen[n] # run[n]}
<1>4. ASSUME Wrong # {} PROVE FALSE
  <2>1. PICK m \in Wrong : \A n \in Wrong : m <= n
    <3>1. Wrong \in SUBSET Nat
      BY <1>0
    <3> QED
      BY <1>4, <3>1, LeastNumber
  <2>2. m # 0
    BY <1>5, <1>7, <2>1, <1>0
  <2>3. m - 1 \in 0..last1 /\ m - 1 \notin Wrong /\ m \in 1..last1 /\ m \in 0..last1
    BY <2>1, <2>2, <1>0
  <2>4. chosen[m] = Step(chosen[m - 1], parts[m])
    BY <1>5, <2>2, <2>3
  <2>5. chosen[m - 1] = run[m - 1]
    BY <2>3
  <2>6. run[m] = Step(run[m - 1], parts[m])
    BY <1>6, <2>3
  <2> QED
    BY <2>1, <2>4, <2>5, <2>6
<1>8. last1 \in 0..last1
  BY <1>0
<1>9. chosen[last1] = run[last1]
  BY <1>4, <1>8
<1> QED
  BY <1>3, <1>9 DEF last1

\* There is a walk along every path, from everywhere.
LEMMA WalkExists ==
  ASSUME NEW from \in Names, NEW parts \in Names
  PROVE  \E run : Walks(run, from, parts, Len(parts))
<1> DEFINE Wrong == {n \in 0..Len(parts) : ~ \E run : Walks(run, from, parts, n)}
<1>0. Len(parts) \in Nat /\ \A i \in 1..Len(parts) : parts[i] \in Components
  BY DEF Names
<1>1. ASSUME Wrong # {} PROVE FALSE
  <2>1. PICK m \in Wrong : \A n \in Wrong : m <= n
    <3>1. Wrong \in SUBSET Nat
      BY <1>0
    <3> QED
      BY <1>1, <3>1, LeastNumber
  <2>2. m # 0
    <3>1. Walks([i \in 0..0 |-> from], from, parts, 0)
      BY DEF Walks
    <3> QED
      BY <2>1, <3>1
  <2>3. m - 1 \in 0..Len(parts) /\ m - 1 \notin Wrong /\ m \in 1..Len(parts)
    BY <2>1, <2>2, <1>0
  <2>4. PICK run : Walks(run, from, parts, m - 1)
    BY <2>3
  <2> DEFINE longer == [i \in 0..m |-> IF i = m THEN Step(run[m - 1], parts[m]) ELSE run[i]]
  <2>5. Step(run[m - 1], parts[m]) \in Names
    <3>1. run[m - 1] \in Names /\ parts[m] \in Components
      BY <1>0, <2>3, <2>4 DEF Walks
    <3> QED
      BY <3>1, StepCases
  <2>6. Walks(longer, from, parts, m)
    BY <2>3, <2>4, <2>5 DEF Walks
  <2> HIDE DEF longer
  <2>7. \E r : Walks(r, from, parts, m)
    BY <2>6
  <2> QED
    BY <2>1, <2>7
<1> QED
  BY <1>0, <1>1

\* A walk ends in a directory.
LEMMA WalkTyped ==
  ASSUME NEW from \in Names, NEW parts \in Names
  PROVE  Walk(from, parts) \in Names
<1>1. PICK run : Walks(run, from, parts, Len(parts))
  BY WalkExists
<1>2. Walk(from, parts) = run[Len(parts)]
  BY <1>1, WalkEnds
<1> QED
  BY <1>1, <1>2 DEF Walks, Names

\* A walk along two paths, one after the other, is a walk along the first and from
\* there along the second.
LEMMA WalkConcat ==
  ASSUME NEW from \in Names, NEW p \in Names, NEW q \in Names
  PROVE  Walk(from, p \o q) = Walk(Walk(from, p), q)
<1>1. PICK first : Walks(first, from, p, Len(p))
  BY WalkExists
<1>2. Walk(from, p) = first[Len(p)] /\ Walk(from, p) \in Names
  BY <1>1, WalkEnds, WalkTyped
<1>3. PICK second : Walks(second, Walk(from, p), q, Len(q))
  BY <1>2, WalkExists
<1>4. Walk(Walk(from, p), q) = second[Len(q)]
  BY <1>2, <1>3, WalkEnds
<1> DEFINE a == Len(p)
           b == Len(q)
           run == [i \in 0..(a + b) |-> IF i <= a THEN first[i] ELSE second[i - a]]
<1>5. a \in Nat /\ b \in Nat /\ p \o q \in Names /\ Len(p \o q) = a + b
  BY ConcatProperties DEF Names
<1>6. \A i \in 1..a : (p \o q)[i] = p[i]
  BY <1>5, ConcatProperties DEF Names
<1>7. \A i \in 1..(a + b) : i > a => (p \o q)[i] = q[i - a]
  BY <1>5, ConcatProperties DEF Names
<1>8. first \in [0..a -> Names] /\ second \in [0..b -> Names] /\ first[0] = from /\ second[0] = first[a]
  BY <1>1, <1>2, <1>3 DEF Walks
<1>9. /\ \A i \in 1..a : first[i] = Step(first[i - 1], p[i])
      /\ \A i \in 1..b : second[i] = Step(second[i - 1], q[i])
  BY <1>1, <1>3 DEF Walks
<1> HIDE DEF a, b
<1>10. Walks(run, from, p \o q, a + b)
  <2>1. run \in [0..(a + b) -> Names] /\ run[0] = from
    BY <1>5, <1>8
  <2>2. ASSUME NEW i \in 1..(a + b) PROVE run[i] = Step(run[i - 1], (p \o q)[i])
    <3>1. CASE i <= a
      BY <3>1, <1>5, <1>6, <1>9
    <3>2. CASE i > a
      <4>1. run[i] = second[i - a] /\ i - a \in 1..b
        BY <3>2, <1>5
      <4>2. run[i - 1] = second[(i - a) - 1]
        <5>1. CASE i - 1 = a
          BY <5>1, <1>5, <1>8
        <5>2. CASE i - 1 > a
          <6>1. (i - 1) - a = (i - a) - 1 /\ ~(i - 1 <= a) /\ i - 1 \in 0..(a + b)
            BY <5>2, <1>5
          <6> QED
            BY <6>1
        <5> QED
          BY <3>2, <5>1, <5>2, <1>5
      <4>3. second[i - a] = Step(second[(i - a) - 1], q[i - a])
        BY <4>1, <1>9
      <4> QED
        BY <3>2, <4>1, <4>2, <4>3, <1>7
    <3> QED
      BY <3>1, <3>2, <1>5
  <2> QED
    BY <2>1, <2>2 DEF Walks
<1>11. Walk(from, p \o q) = run[a + b]
  <2> HIDE DEF run
  <2>1. Walks(run, from, p \o q, Len(p \o q))
    BY <1>5, <1>10
  <2>2. Walk(from, p \o q) = run[Len(p \o q)]
    BY <1>5, <2>1, WalkEnds
  <2> QED
    BY <1>5, <2>2
<1>12. run[a + b] = second[b]
  <2>1. CASE b = 0
    BY <2>1, <1>5, <1>8
  <2>2. CASE b > 0
    BY <2>2, <1>5
  <2> QED
    BY <2>1, <2>2, <1>5
<1> QED
  BY <1>2, <1>4, <1>11, <1>12 DEF b

\* A walk along nothing, and along one component.
LEMMA WalkShort ==
  ASSUME NEW from \in Names
  PROVE  /\ Walk(from, <<>>) = from
         /\ \A part \in Components : Walk(from, <<part>>) = Step(from, part)
<1>1. Walk(from, <<>>) = from
  <2>1. Walks([i \in 0..0 |-> from], from, <<>>, 0)
    BY DEF Walks
  <2>2. Walk(from, <<>>) = [i \in 0..0 |-> from][Len(<<>>)]
    BY <2>1, WalkEnds DEF Names
  <2> QED
    BY <2>2
<1>2. ASSUME NEW part \in Components PROVE Walk(from, <<part>>) = Step(from, part)
  <2> DEFINE run == [i \in 0..1 |-> IF i = 0 THEN from ELSE Step(from, part)]
  <2>1. Walks(run, from, <<part>>, 1)
    BY StepCases DEF Walks
  <2>2. run[1] = Step(from, part)
    OBVIOUS
  <2> HIDE DEF run
  <2>3. <<part>> \in Names /\ Len(<<part>>) = 1
    BY NamesAppend
  <2>4. Walk(from, <<part>>) = run[1]
    BY <2>1, <2>3, WalkEnds
  <2> QED
    BY <2>2, <2>4
<1> QED
  BY <1>1, <1>2

\* The directories of a normal path: no "." and no "..".
Plain(parts) == \A i \in 1..Len(parts) : parts[i] \notin {".", ".."}

\* A step from a directory without dots leads to one without dots: it drops the
\* last component, or adds one that is no dot.
LEMMA StepPlain ==
  ASSUME NEW done \in Names, Plain(done), NEW part \in Components
  PROVE  Plain(Step(done, part))
<1>1. CASE part = "."
  BY <1>1, StepCases
<1>2. CASE part = ".." /\ done = <<>>
  BY <1>2 DEF Step
<1>3. CASE part = ".." /\ done # <<>>
  <2>1. Step(done, part) = SubSeq(done, 1, Len(done) - 1)
    BY <1>3, StepCases
  <2>2. Len(done) \in Nat \ {0}
    BY <1>3 DEF Names
  <2>3. /\ Len(SubSeq(done, 1, Len(done) - 1)) = Len(done) - 1
        /\ \A i \in 1..(Len(done) - 1) : SubSeq(done, 1, Len(done) - 1)[i] = done[i]
    <3>1. Len(done) - 1 \in 0..Len(done)
      BY <2>2
    <3> QED
      BY <3>1, NamesPrefix
  <2>4. \A i \in 1..(Len(done) - 1) : i \in 1..Len(done)
    BY <2>2
  <2> QED
    BY <2>1, <2>3, <2>4 DEF Plain
<1>4. CASE part # "." /\ part # ".."
  <2>1. Step(done, part) = Append(done, part)
    BY <1>4, StepCases
  <2>2. /\ Len(Append(done, part)) = Len(done) + 1
        /\ \A i \in 1..Len(done) : Append(done, part)[i] = done[i]
        /\ Append(done, part)[Len(done) + 1] = part
    BY NamesAppend
  <2>3. Len(done) \in Nat
    BY NamesConcat
  <2>4. \A i \in 1..(Len(done) + 1) : i \in 1..Len(done) \/ i = Len(done) + 1
    BY <2>3
  <2> QED
    BY <1>4, <2>1, <2>2, <2>4 DEF Plain
<1> QED
  BY <1>1, <1>2, <1>3, <1>4

\* From a normal path one comes to normal paths only.
LEMMA WalkPlain ==
  ASSUME NEW from \in Names, Plain(from), NEW parts \in Names
  PROVE  Plain(Walk(from, parts))
<1>1. PICK run : Walks(run, from, parts, Len(parts))
  BY WalkExists
<1>2. Walk(from, parts) = run[Len(parts)]
  BY <1>1, WalkEnds
<1>3. Len(parts) \in Nat /\ \A i \in 1..Len(parts) : parts[i] \in Components
  BY DEF Names
<1> DEFINE Wrong == {n \in 0..Len(parts) : ~ Plain(run[n])}
<1>4. ASSUME Wrong # {} PROVE FALSE
  <2>1. PICK m \in Wrong : \A n \in Wrong : m <= n
    <3>1. Wrong \in SUBSET Nat
      BY <1>3
    <3> QED
      BY <1>4, <3>1, LeastNumber
  <2>2. m # 0
    BY <1>1, <2>1 DEF Walks
  <2>3. m - 1 \in 0..Len(parts) /\ m - 1 \notin Wrong /\ m \in 1..Len(parts)
    BY <2>1, <2>2, <1>3
  <2>4. Plain(run[m - 1]) /\ run[m - 1] \in Names /\ parts[m] \in Components
    BY <1>1, <1>3, <2>3 DEF Walks
  <2>5. run[m] = Step(run[m - 1], parts[m])
    BY <1>1, <2>3 DEF Walks
  <2>6. Plain(Step(run[m - 1], parts[m]))
    BY <2>4, StepPlain
  <2> QED
    BY <2>1, <2>5, <2>6
<1> QED
  BY <1>2, <1>3, <1>4

\* Along names one goes down.
LEMMA WalkDown ==
  ASSUME NEW from \in Names, NEW parts \in Names, Plain(parts)
  PROVE  Walk(from, parts) = from \o parts
<1> DEFINE a == Len(from)
           b == Len(parts)
           run == [n \in 0..b |-> from \o SubSeq(parts, 1, n)]
<1>1. a \in Nat /\ b \in Nat /\ \A i \in 1..b : parts[i] \in Components
  BY DEF Names
<1>2. \A n \in 0..b : SubSeq(parts, 1, n) \in Names
  BY <1>1 DEF Names
<1>3. run \in [0..b -> Names]
  <2>1. ASSUME NEW n \in 0..b PROVE from \o SubSeq(parts, 1, n) \in Names
    BY <1>2, ConcatProperties DEF Names
  <2> QED
    BY <2>1
<1>4. run[0] = from
  <2>1. SubSeq(parts, 1, 0) = <<>>
    BY <1>1 DEF Names
  <2>2. from \o <<>> = from
    BY NamesConcat
  <2>3. run[0] = from \o SubSeq(parts, 1, 0)
    BY <1>1
  <2> QED
    BY <2>1, <2>2, <2>3
<1>5. ASSUME NEW n \in 1..b PROVE run[n] = Step(run[n - 1], parts[n])
  <2>1. n - 1 \in 0..b /\ n \in 0..b
    BY <1>1
  <2>2. SubSeq(parts, 1, n) = Append(SubSeq(parts, 1, n - 1), parts[n])
    BY <1>1, <2>1 DEF Names
  <2> DEFINE before == SubSeq(parts, 1, n - 1)
             part == parts[n]
  <2>3. before \in Names /\ part \in Components
    BY <1>1, <1>2, <2>1
  <2>4. from \o Append(before, part) = Append(from \o before, part)
    BY <2>3, NamesConcatAppend
  <2>5. from \o before \in Names
    <3> HIDE DEF before
    <3> QED
      BY <2>3, ConcatProperties DEF Names
  <2>6. Step(from \o before, part) = Append(from \o before, part)
    <3>1. part \notin {".", ".."}
      BY DEF Plain
    <3> HIDE DEF before, part
    <3> QED
      BY <2>3, <2>5, <3>1, StepCases
  <2> QED
    BY <2>1, <2>2, <2>4, <2>6
<1>6. Walks(run, from, parts, b)
  BY <1>3, <1>4, <1>5 DEF Walks
<1>7. Walk(from, parts) = run[b]
  <2> HIDE DEF run
  <2> QED
    BY <1>6, WalkEnds
<1>8. run[b] = from \o SubSeq(parts, 1, b)
  BY <1>1
<1>9. SubSeq(parts, 1, b) = parts
  BY DEF Names
<1> QED
  BY <1>7, <1>8, <1>9

\* `times` components "..".
Ups(times) == [i \in 1..times |-> ".."]

\* Along ".." one goes up, by as many directories.
LEMMA WalkUp ==
  ASSUME NEW from \in Names, NEW k \in 0..Len(from)
  PROVE  Ups(k) \in Names /\ Walk(from, Ups(k)) = SubSeq(from, 1, Len(from) - k)
<1> DEFINE a == Len(from)
           run == [n \in 0..k |-> SubSeq(from, 1, a - n)]
<1>1. a \in Nat /\ k \in Nat
  BY DEF Names
<1>2. Ups(k) \in Names /\ Len(Ups(k)) = k /\ \A i \in 1..k : Ups(k)[i] = ".."
  <2>1. Ups(k) \in [1..k -> Components]
    BY Dots DEF Ups
  <2>2. Ups(k) \in Names /\ Len(Ups(k)) = k
    <3> DEFINE ups == Ups(k)
    <3> HIDE DEF ups
    <3>1. ups \in [1..k -> Components]
      BY <2>1 DEF ups
    <3>2. ups \in Names /\ Len(ups) = k
      BY <1>1, <3>1 DEF Names
    <3> QED
      BY <3>2 DEF ups
  <2> QED
    BY <2>2 DEF Ups
<1>3. \A n \in 0..k : /\ SubSeq(from, 1, a - n) \in Names
                      /\ Len(SubSeq(from, 1, a - n)) = a - n
  BY <1>1, SubSeqProperties DEF Names
<1>4. run \in [0..k -> Names]
  BY <1>3
<1>5. run[0] = from
  <2>1. SubSeq(from, 1, a) = from
    BY DEF Names
  <2> QED
    BY <1>1, <2>1
<1>6. ASSUME NEW n \in 1..k PROVE run[n] = Step(run[n - 1], "..")
  <2> DEFINE done == SubSeq(from, 1, a - (n - 1))
  <2>1. n - 1 \in 0..k /\ n \in 0..k
    BY <1>1
  <2>2. done \in Names /\ Len(done) = a - (n - 1)
    BY <1>3, <2>1
  <2>3. done # <<>>
    <3> HIDE DEF done
    <3> QED
      BY <1>1, <2>2, NamesEmpty
  <2>4. SubSeq(done, 1, Len(done) - 1) = SubSeq(from, 1, a - n)
    <3>1. SubSeq(done, 1, a - n) = SubSeq(from, 1, a - n)
      BY <1>1 DEF Names
    <3>2. Len(done) - 1 = a - n
      BY <1>1, <2>2
    <3> QED
      BY <3>1, <3>2
  <2>5. Step(done, "..") = SubSeq(done, 1, Len(done) - 1)
    <3> HIDE DEF done
    <3> QED
      BY <2>2, <2>3, StepCases, Dots
  <2> QED
    BY <2>1, <2>4, <2>5
<1>7. Walks(run, from, Ups(k), k)
  BY <1>2, <1>4, <1>5, <1>6 DEF Walks
<1>8. Walk(from, Ups(k)) = run[k]
  <2> HIDE DEF run
  <2> QED
    BY <1>2, <1>7, WalkEnds
<1> QED
  BY <1>1, <1>2, <1>8

-----------------------------------------------------------------------------
\* Paths are records of a flag and components.
LEMMA PathForm ==
  /\ \A p \in Paths : p.absolute \in BOOLEAN /\ p.parts \in Names
  /\ \A absolute \in BOOLEAN, parts \in Names :
       /\ Path(absolute, parts) \in Paths
       /\ Path(absolute, parts).absolute = absolute /\ Path(absolute, parts).parts = parts
  BY DEF Paths, Path, Names, Components

\* Join: the second path, or the first one followed by it.
LEMMA JoinForm ==
  ASSUME NEW a \in Paths, NEW b \in Paths
  PROVE  /\ Join(a, b) \in Paths
         /\ b.absolute => Join(a, b) = b
         /\ ~b.absolute => /\ Join(a, b).absolute = a.absolute
                           /\ Join(a, b).parts = a.parts \o b.parts
<1>1. a.parts \in Names /\ b.parts \in Names /\ a.absolute \in BOOLEAN
  BY PathForm
<1>2. a.parts \o b.parts \in Names
  BY <1>1, NamesConcat
<1>3. CASE b.absolute
  BY <1>3 DEF Join
<1>4. CASE ~b.absolute
  <2>1. Join(a, b) = Path(a.absolute, a.parts \o b.parts)
    BY <1>4 DEF Join
  <2> DEFINE parts == a.parts \o b.parts
  <2>2. parts \in Names
    BY <1>2
  <2>3. Join(a, b) = Path(a.absolute, parts)
    BY <2>1
  <2> HIDE DEF parts
  <2>4. /\ Join(a, b) \in Paths
        /\ Join(a, b).absolute = a.absolute /\ Join(a, b).parts = parts
    BY <1>1, <2>2, <2>3, PathForm
  <2> QED
    BY <1>4, <2>4 DEF parts
<1> QED
  BY <1>3, <1>4

\* A normal path is one of names only.
LEMMA NormalizeForm ==
  ASSUME NEW a \in Paths
  PROVE  Normalize(a) \in Names /\ Plain(Normalize(a))
<1>1. Join(Cwd, a).parts \in Names
  <2>1. Cwd \in Paths
    BY PathsAssumption
  <2>2. Join(Cwd, a) \in Paths
    BY <2>1, JoinForm
  <2> QED
    BY <2>2, PathForm
<1>2. <<>> \in Names /\ Plain(<<>>)
  BY NamesEmpty DEF Plain
<1> QED
  BY <1>1, <1>2, WalkTyped, WalkPlain DEF Normalize

\* Normalising is done with `a` before `b` begins, unless `b` starts at the root.
LEMMA NormalizeJoin ==
  ASSUME NEW a \in Paths, NEW b \in Paths
  PROVE  Normalize(Join(a, b)) =
           IF b.absolute THEN Normalize(b) ELSE Walk(Normalize(a), b.parts)
<1>1. CASE b.absolute
  BY <1>1, JoinForm
<1>2. CASE ~b.absolute
  <2>1. a.parts \in Names /\ b.parts \in Names /\ Cwd.parts \in Names /\ Cwd \in Paths
    BY PathForm, PathsAssumption
  <2>2. /\ Join(a, b) \in Paths /\ Join(a, b).absolute = a.absolute
        /\ Join(a, b).parts = a.parts \o b.parts
    BY <1>2, JoinForm
  <2>3. Join(Cwd, a).parts \in Names /\ <<>> \in Names
    BY <2>1, JoinForm, PathForm, NamesEmpty
  <2>4. Join(Cwd, Join(a, b)).parts = Join(Cwd, a).parts \o b.parts
    <3>1. CASE a.absolute
      <4>1. Join(Cwd, a) = a
        BY <2>1, <3>1, JoinForm
      <4>2. Join(Cwd, Join(a, b)) = Join(a, b)
        <5> DEFINE both == Join(a, b)
        <5>1. both \in Paths /\ both.absolute
          BY <2>2, <3>1
        <5> HIDE DEF both
        <5>2. Join(Cwd, both) = both
          BY <2>1, <5>1, JoinForm
        <5> QED
          BY <5>2 DEF both
      <4> QED
        BY <2>2, <4>1, <4>2
    <3>2. CASE ~a.absolute
      <4>1. Join(Cwd, Join(a, b)).parts = Cwd.parts \o (a.parts \o b.parts)
        <5> DEFINE both == Join(a, b)
        <5>1. both \in Paths /\ ~both.absolute
          BY <2>2, <3>2
        <5> HIDE DEF both
        <5>2. Join(Cwd, both).parts = Cwd.parts \o both.parts
          BY <2>1, <5>1, JoinForm
        <5> QED
          BY <2>2, <5>2 DEF both
      <4>2. Join(Cwd, a).parts = Cwd.parts \o a.parts
        BY <2>1, <3>2, JoinForm
      <4>3. (Cwd.parts \o a.parts) \o b.parts = Cwd.parts \o (a.parts \o b.parts)
        BY <2>1, NamesAssociative
      <4> QED
        BY <4>1, <4>2, <4>3
    <3> QED
      BY <3>1, <3>2
  <2>5. Walk(<<>>, Join(Cwd, a).parts \o b.parts) = Walk(Walk(<<>>, Join(Cwd, a).parts), b.parts)
    BY <2>1, <2>3, WalkConcat
  <2> QED
    BY <1>2, <2>4, <2>5 DEF Normalize
<1> QED
  BY <1>1, <1>2

\* A path means the same as the absolute path made of it.
LEMMA NormalizeHere ==
  ASSUME NEW a \in Paths
  PROVE  Join(Cwd, a) \in Paths /\ Join(Cwd, a).absolute /\ Normalize(Join(Cwd, a)) = Normalize(a)
<1>1. Cwd \in Paths /\ Cwd.absolute
  BY PathsAssumption
<1>2. Join(Cwd, a) \in Paths
  BY <1>1, JoinForm
<1>3. Join(Cwd, a).absolute
  <2>1. CASE a.absolute
    BY <1>1, <2>1, JoinForm
  <2>2. CASE ~a.absolute
    BY <1>1, <2>2, JoinForm
  <2> QED
    BY <2>1, <2>2
<1>4. Join(Cwd, Join(Cwd, a)) = Join(Cwd, a)
  BY <1>1, <1>2, <1>3, JoinForm
<1> QED
  BY <1>2, <1>3, <1>4 DEF Normalize

\* A prefix grows by one component at a time.
LEMMA PrefixGrows ==
  ASSUME NEW p \in Names, NEW n \in 0..Len(p), n < Len(p)
  PROVE  /\ n + 1 \in 1..Len(p) /\ p[n + 1] \in Components
         /\ SubSeq(p, 1, n + 1) = Append(SubSeq(p, 1, n), p[n + 1])
<1>1. Len(p) \in Nat /\ n + 1 \in 1..Len(p)
  BY NamesConcat
<1>2. p[n + 1] \in Components
  BY <1>1 DEF Names
<1>3. SubSeq(p, 1, n + 1) = SubSeq(p, 1, (n + 1) - 1) \o <<p[n + 1]>>
  <2>1. 1 \in 1..Len(p) /\ n + 1 \in 1..Len(p)
    BY <1>1
  <2> QED
    BY <2>1, SubSeqRecursiveSecond DEF Names
<1>4. (n + 1) - 1 = n
  OBVIOUS
<1>5. Append(SubSeq(p, 1, n), p[n + 1]) = SubSeq(p, 1, n) \o <<p[n + 1]>>
  <2>1. SubSeq(p, 1, n) \in Names
    BY NamesPrefix
  <2> QED
    BY <1>2, <2>1, NamesAppend
<1> QED
  BY <1>1, <1>2, <1>3, <1>4, <1>5

\* Two paths have a longest common beginning.
Common(f, t, n) ==
  /\ n <= Len(t) /\ SubSeq(f, 1, n) = SubSeq(t, 1, n)
  /\ n < Len(f) /\ n < Len(t) => f[n + 1] # t[n + 1]

\* Two directories have a greatest common prefix: the one of the least number of
\* components left in the first.
LEMMA CommonExists ==
  ASSUME NEW f \in Names, NEW t \in Names
  PROVE  \E n \in 0..Len(f) : Common(f, t, n)
<1> DEFINE Agree(n) == n \in 0..Len(f) /\ n <= Len(t) /\ SubSeq(f, 1, n) = SubSeq(t, 1, n)
           Left == {k \in 0..Len(f) : Agree(Len(f) - k)}
<1>1. Len(f) \in Nat /\ Len(t) \in Nat
  BY NamesConcat
<1>2. Agree(0)
  <2>1. SubSeq(f, 1, 0) \in Names /\ Len(SubSeq(f, 1, 0)) = 0
    BY <1>1, NamesPrefix
  <2>2. SubSeq(t, 1, 0) \in Names /\ Len(SubSeq(t, 1, 0)) = 0
    BY <1>1, NamesPrefix
  <2>3. SubSeq(f, 1, 0) = <<>> /\ SubSeq(t, 1, 0) = <<>>
    BY <2>1, <2>2, NamesEmpty
  <2> QED
    BY <1>1, <2>3
<1> HIDE DEF Agree
<1>3. Left \in SUBSET Nat /\ Left # {}
  <2>1. Len(f) - Len(f) = 0 /\ Len(f) \in 0..Len(f)
    BY <1>1
  <2>2. Len(f) \in Left
    BY <1>2, <2>1
  <2> QED
    BY <1>1, <2>2
<1>4. PICK k \in Left : \A other \in Left : k <= other
  BY <1>3, LeastNumber
<1> DEFINE n == Len(f) - k
<1>5. k \in 0..Len(f) /\ Agree(n)
  BY <1>4
<1>6. n \in 0..Len(f) /\ k = Len(f) - n
  BY <1>1, <1>5
<1> HIDE DEF n
<1>7. ASSUME n < Len(f), n < Len(t), f[n + 1] = t[n + 1] PROVE FALSE
  <2>1. n \in 0..Len(t)
    BY <1>1, <1>6, <1>7
  <2>2. SubSeq(f, 1, n + 1) = Append(SubSeq(f, 1, n), f[n + 1])
    BY <1>6, <1>7, PrefixGrows
  <2>3. SubSeq(t, 1, n + 1) = Append(SubSeq(t, 1, n), t[n + 1])
    BY <1>7, <2>1, PrefixGrows
  <2>4. SubSeq(f, 1, n) = SubSeq(t, 1, n)
    BY <1>5 DEF Agree
  <2>5. SubSeq(f, 1, n + 1) = SubSeq(t, 1, n + 1)
    BY <1>7, <2>2, <2>3, <2>4
  <2>6. n + 1 \in 0..Len(f) /\ n + 1 <= Len(t) /\ Len(f) - (k - 1) = n + 1 /\ k - 1 \in 0..Len(f)
    BY <1>1, <1>5, <1>6, <1>7
  <2>7. Agree(n + 1)
    BY <2>5, <2>6 DEF Agree
  <2>8. k - 1 \in Left
    BY <2>6, <2>7
  <2>9. k <= k - 1
    BY <1>4, <2>8
  <2> QED
    BY <1>5, <1>1, <2>9
<1>8. Common(f, t, n)
  BY <1>5, <1>7 DEF Common, Agree
<1> QED
  BY <1>6, <1>8

\* The path that relative_path answers leads from the one directory to the other:
\* up to their common beginning, and down again.
LEMMA RelativePathLeads ==
  ASSUME NEW from \in Paths, NEW to \in Paths
  PROVE  /\ RelativePath(from, to) \in Paths
         /\ Normalize(Join(from, RelativePath(from, to))) = Normalize(to)
<1> DEFINE f == Normalize(from)
           t == Normalize(to)
           c == CHOOSE n \in 0..Len(f) : Common(f, t, n)
           up == Ups(Len(f) - c)
           down == SubSeq(t, c + 1, Len(t))
           steps == up \o down
           parts == IF steps = <<>> THEN <<".">> ELSE steps
<1>1. f \in Names /\ t \in Names /\ Plain(t)
  BY NormalizeForm
<1>2. RelativePath(from, to) = Path(FALSE, parts)
  BY DEF RelativePath, Relative, Common, Ups
<1> HIDE DEF f, t
<1>3. c \in 0..Len(f) /\ Common(f, t, c)
  BY <1>1, CommonExists
<1> HIDE DEF c
<1>4. Len(f) \in Nat /\ Len(t) \in Nat /\ c \in 0..Len(t)
  BY <1>1, <1>3, NamesConcat DEF Common
<1>5. up \in Names /\ Walk(f, up) = SubSeq(f, 1, c)
  <2>1. Len(f) - c \in 0..Len(f) /\ Len(f) - (Len(f) - c) = c
    BY <1>3, <1>4
  <2> QED
    BY <1>1, <2>1, WalkUp
<1>6. down \in Names /\ Plain(down)
  <2>1. c + 1 \in 1..(Len(t) + 1) /\ Len(t) \in ((c + 1) - 1)..Len(t)
    BY <1>4
  <2>2. /\ down \in Names /\ Len(down) = Len(t) - (c + 1) + 1
        /\ \A i \in 1..(Len(t) - (c + 1) + 1) : down[i] = t[(c + 1) + i - 1]
    BY <1>1, <2>1, NamesSubSeq
  <2>3. \A i \in 1..(Len(t) - (c + 1) + 1) : (c + 1) + i - 1 \in 1..Len(t)
    BY <1>4
  <2> QED
    BY <1>1, <2>2, <2>3 DEF Plain
<1>7. Walk(f, steps) = t
  <2>1. Walk(f, steps) = Walk(SubSeq(f, 1, c), down)
    <3> HIDE DEF up, down
    <3>1. Walk(f, up \o down) = Walk(Walk(f, up), down)
      BY <1>1, <1>5, <1>6, WalkConcat
    <3> QED
      BY <1>5, <3>1
  <2>2. SubSeq(f, 1, c) = SubSeq(t, 1, c)
    BY <1>3 DEF Common
  <2>3. SubSeq(t, 1, c) \in Names
    BY <1>1, <1>4, NamesPrefix
  <2>4. Walk(SubSeq(t, 1, c), down) = SubSeq(t, 1, c) \o down
    BY <1>6, <2>3, WalkDown
  <2>5. SubSeq(t, 1, c) \o down = SubSeq(t, 1, Len(t))
    <3>1. 1 \in 1..(Len(t) + 1) /\ c \in (1 - 1)..Len(t) /\ Len(t) \in c..Len(t)
      BY <1>4
    <3> QED
      BY <1>1, <3>1, ConcatAdjacentSubSeq DEF Names
  <2>6. SubSeq(t, 1, Len(t)) = t
    BY <1>1, SubSeqFull DEF Names
  <2> QED
    BY <2>1, <2>2, <2>4, <2>5, <2>6
<1>8. steps \in Names
  BY <1>5, <1>6, NamesConcat
<1> HIDE DEF up, down, steps
<1>9. parts \in Names /\ Walk(f, parts) = t
  <2>1. CASE steps = <<>>
    <3>1. <<".">> \in Names /\ Walk(f, <<".">>) = f
      BY <1>1, Dots, NamesAppend, NamesEmpty, WalkShort, StepCases
    <3>2. Walk(f, <<>>) = f
      BY <1>1, WalkShort
    <3> QED
      BY <1>7, <2>1, <3>1, <3>2
  <2>2. CASE steps # <<>>
    BY <1>7, <1>8, <2>2
  <2> QED
    BY <2>1, <2>2
<1> HIDE DEF parts
<1>10. Path(FALSE, parts) \in Paths /\ ~Path(FALSE, parts).absolute
       /\ Path(FALSE, parts).parts = parts
  BY <1>9, PathForm
<1>11. Normalize(Join(from, Path(FALSE, parts))) = Walk(f, parts)
  BY <1>10, NormalizeJoin DEF f
<1> QED
  BY <1>2, <1>9, <1>10, <1>11 DEF t

-----------------------------------------------------------------------------
\* An optional value is absent or there.
LEMMA OptionForm ==
  ASSUME NEW S, NEW option \in Option(S)
  PROVE  /\ option # <<>> => option[1] \in S /\ option = <<option[1]>>
         /\ \A default \in S : OrElse(option, default) \in S
<1>0. \A n \in Nat : n <= 1 /\ n # 0 => n = 1
  OBVIOUS
<1>1. option \in Seq(S) /\ Len(option) <= 1
  BY DEF Option
<1>2. \A seq \in Seq(S) : seq # <<>> => Len(seq) # 0
  BY EmptySeq, Zenon
<1>3. ASSUME option # <<>> PROVE option[1] \in S /\ option = <<option[1]>>
  <2>1. Len(option) \in Nat
    BY <1>1, LenProperties
  <2>2. Len(option) # 0
    BY <1>1, <1>2, <1>3, Zenon
  <2>3. Len(option) = 1
    BY <1>0, <1>1, <2>1, <2>2, Zenon
  <2>4. option[1] \in S
    BY <1>1, <2>3, ElementOfSeq
  <2>5. option = <<option[1]>>
    BY <1>1, <2>3
  <2> QED
    BY <2>4, <2>5
<1> QED
  BY <1>3 DEF OrElse

\* A relative path is the parts it is made of.
LEMMA RelativeForm ==
  ASSUME NEW parts \in Names
  PROVE  /\ Relative(parts) \in Paths
         /\ ~Relative(parts).absolute /\ Relative(parts).parts = parts
  BY PathForm DEF Relative

\* The names the commands use themselves are components, of paths of one or two.
LEMMA LiteralsForm ==
  /\ \A part \in PathLiterals : part \in Components
  /\ \A part \in Components : <<part>> \in Names
  /\ \A part, other \in Components : <<part, other>> \in Names
<1>1. \A part \in Components : <<part>> \in Names
  BY NamesAppend, NamesEmpty
<1>2. ASSUME NEW part \in Components, NEW other \in Components
      PROVE  <<part, other>> \in Names
  BY DEF Names
<1> QED
  BY <1>1, <1>2, LiteralsAssumption DEF Components

\* What a stack's configuration says of its backend.
SettingOf == [kind : STRING, path : Option(Paths)]

\* The state's place depends on the directory itself, not on how a path writes it.
LEMMA StateOfDirectory ==
  ASSUME NEW at \in Paths, NEW other \in Paths, Normalize(at) = Normalize(other),
         NEW setting \in SettingOf
  PROVE  StateOf(at, setting) = StateOf(other, setting)
<1>1. CASE setting.kind # "local"
  BY <1>1 DEF StateOf
<1>2. CASE setting.kind = "local"
  <2> DEFINE file == OrElse(setting.path, Relative(<<"terraform.tfstate">>))
  <2>1. file \in Paths
    <3>1. Relative(<<"terraform.tfstate">>) \in Paths
      BY LiteralsForm, RelativeForm DEF PathLiterals
    <3>2. setting.path \in Option(Paths)
      BY DEF SettingOf
    <3> QED
      BY <3>1, <3>2, OptionForm
  <2>2. StateOf(at, setting) = Normalize(Join(at, file))
    BY <1>2 DEF StateOf
  <2>3. StateOf(other, setting) = Normalize(Join(other, file))
    BY <1>2 DEF StateOf
  <2> HIDE DEF file
  <2>4. Normalize(Join(at, file)) = Normalize(Join(other, file))
    BY <2>1, NormalizeJoin
  <2> QED
    BY <2>2, <2>3, <2>4
<1> QED
  BY <1>1, <1>2

\* A declared stack has a backend with a type and at most a path.
LEMMA SettingsForm ==
  ASSUME NEW c, Configuration(c), NEW stack \in DOMAIN c.stacks
  PROVE  c.stacks[stack].backend.kind \in STRING /\ c.stacks[stack].backend.path \in Option(Paths)
<1>1. c.stacks[stack] \in Stacks
  BY DEF Configuration
<1> QED
  BY <1>1 DEF Stacks, Backends

\* The workspace of a stack is a path, under any base.
LEMMA WorkspaceForm ==
  ASSUME Configuration(config), NEW base \in Option(Paths), NEW stack \in STRING
  PROVE  WorkspaceRoot(base, stack) \in Paths
<1>1. Root \in Paths /\ config.workspace \in Paths
  BY PathsAssumption DEF Configuration
<1>2. WorkspaceDirectory \in Paths
  BY <1>1, JoinForm DEF WorkspaceDirectory
<1>3. Relative(<<"stacks", stack>>) \in Paths
  BY LiteralsForm, RelativeForm DEF PathLiterals, Components
<1>4. (IF base = <<>> THEN WorkspaceDirectory ELSE base[1]) \in Paths
  BY <1>2, OptionForm
<1> QED
  BY <1>3, <1>4, JoinForm DEF WorkspaceRoot

\* A reference to a stack reads, from any workspace, the place that the producer's
\* own setting names in the producer's workspace.
LEMMA ResolvedLeads ==
  ASSUME Configuration(config), NEW base \in Option(Paths),
         NEW at \in Paths, NEW producer \in DOMAIN config.stacks, producer \in STRING
  PROVE  /\ Settings(producer) \in SettingOf
         /\ StateOf(at, ResolvedBackend(base, producer))
              = StateOf(WorkspaceRoot(base, producer), Settings(producer))
<1> DEFINE backend == config.stacks[producer].backend
           there == WorkspaceRoot(base, producer)
           file == OrElse(backend.path, Relative(<<"terraform.tfstate">>))
<1>1. backend.kind \in STRING /\ backend.path \in Option(Paths)
  BY SettingsForm
<1>2. Settings(producer) = [kind |-> backend.kind, path |-> backend.path]
  BY DEF Settings
<1>3. Settings(producer) \in SettingOf
  BY <1>1, <1>2 DEF SettingOf
<1>4. there \in Paths
  BY WorkspaceForm
<1>5. file \in Paths
  <2>1. Relative(<<"terraform.tfstate">>) \in Paths
    BY LiteralsForm, RelativeForm DEF PathLiterals
  <2> QED
    BY <1>1, <2>1, OptionForm
<1>6. ResolvedBackend(base, producer) =
        [kind |-> backend.kind,
         path |-> IF backend.kind = "local" THEN <<Join(Cwd, Join(there, file))>> ELSE backend.path]
  BY DEF ResolvedBackend
<1> HIDE DEF backend, there, file
<1>7. CASE backend.kind # "local"
  <2>1. ResolvedBackend(base, producer) = Settings(producer)
    BY <1>2, <1>6, <1>7
  <2>2. Settings(producer).kind # "local"
    BY <1>2, <1>7
  <2> QED
    BY <1>3, <2>1, <2>2 DEF StateOf
<1>8. CASE backend.kind = "local"
  <2> DEFINE state == Join(there, file)
  <2>1. state \in Paths
    BY <1>4, <1>5, JoinForm
  <2>2. StateOf(there, Settings(producer)) = Normalize(state)
    BY <1>2, <1>8 DEF StateOf, file
  <2>3. ResolvedBackend(base, producer) = [kind |-> "local", path |-> <<Join(Cwd, state)>>]
    BY <1>6, <1>8
  <2> HIDE DEF state
  <2>4. Join(Cwd, state) \in Paths /\ Join(Cwd, state).absolute
        /\ Normalize(Join(Cwd, state)) = Normalize(state)
    BY <2>1, NormalizeHere
  <2>5. StateOf(at, ResolvedBackend(base, producer)) = Normalize(Join(at, Join(Cwd, state)))
    BY <2>3 DEF StateOf, OrElse
  <2>6. Normalize(Join(at, Join(Cwd, state))) = Normalize(Join(Cwd, state))
    BY <2>4, NormalizeJoin
  <2> QED
    BY <1>3, <2>2, <2>4, <2>5, <2>6 DEF there
<1> QED
  BY <1>3, <1>7, <1>8 DEF there

-----------------------------------------------------------------------------
\* The clock, and the times of files, also of those that are no sources.
Clock ==
  /\ now \in 1..MaxTime /\ files \in [Sources \cup Outputs -> Stamps]
  /\ \A f \in Sources \cup Outputs : files[f].time <= now
  /\ warned \in {<<>>, <<TRUE>>, <<FALSE>>}

\* A workspace holds the backend of its last project run, and that run wrote where
\* this backend says.
WroteWhereItSays ==
  /\ DOMAIN wrote = DOMAIN backends
  /\ \A d \in DOMAIN wrote :
       /\ backends[d] \in SettingOf
       /\ wrote[d].setting = backends[d]
       /\ \E at \in Paths : Normalize(at) = d /\ wrote[d].place = StateOf(at, backends[d])

\* A project run reads of each producer what the setting it has says, and a graph
\* run writes what the backend in force says.
LastRight ==
  /\ last.from = "project" =>
       \A p \in DOMAIN last.reads :
         \E at \in Paths, setting \in SettingOf :
           last.reads[p] = [at |-> Normalize(at), setting |-> setting, place |-> StateOf(at, setting)]
  /\ last.from = "graph" =>
       \E at \in Paths : last.at = Normalize(at) /\ last.wrote = StateOf(at, InForce(at))

\* The targets are those of a request the project, when it is read, loads for.
GeneratedByRequest ==
  generated # {} =>
    \E request \in Requests, project \in {<<>>, <<config>>} :
      /\ project # <<>> => Loads(config)
      /\ generated = Targets(project, request)

\* The inductive invariant.  It says of a workspace what the properties need to
\* compare with a later run: not only where its state is, but that this place is
\* what the recorded backend gives from the directory of the workspace.
RolloutInv == config \in Configs /\ WroteWhereItSays /\ LastRight /\ GeneratedByRequest

\* A configuration the file may hold is one.
LEMMA ConfigForm == config \in Configs => Configuration(config)
  BY ConfigsAssumption

\* A base is absent or a path.
LEMMA BasesForm == \A base \in Bases : base \in Option(Paths)
  BY ArgumentsAssumption

\* A run of the project keeps the invariant: it records the backend it is told of
\* and writes where that backend says, and it looks for each producer where
\* ResolvedLeads says.
LEMMA ApplyKeeps ==
  ASSUME RolloutInv, NEW stack \in DOMAIN Reads, NEW base \in Bases, Apply(stack, base)
  PROVE  RolloutInv'
<1> DEFINE at == WorkspaceRoot(base, stack)
           d == Normalize(at)
           setting == Settings(stack)
<1>1. config \in Configs /\ Configuration(config) /\ Loads(config) /\ stack \in DOMAIN config.stacks
  BY ConfigForm DEF RolloutInv, Apply
<1>2. base \in Option(Paths) /\ stack \in STRING
  BY BasesForm, ReadsAssumption
<1>3. \A p \in DOMAIN config.stacks : p \in STRING
  BY <1>1, ComponentsAssumption DEF Loads
<1>4. at \in Paths /\ setting \in SettingOf
  BY <1>1, <1>2, WorkspaceForm, ResolvedLeads
<1>5. /\ backends' = Put(backends, d, setting)
      /\ wrote' = Put(wrote, d, [setting |-> setting, place |-> StateOf(at, setting)])
      /\ config' = config /\ generated' = {}
      /\ References(stack) \subseteq DOMAIN config.stacks
  BY DEF Apply
<1>6. last' = [stack |-> stack, from |-> "project", at |-> d, wrote |-> StateOf(at, setting),
               reads |-> [p \in References(stack) |->
                            [at |-> Normalize(WorkspaceRoot(base, p)), setting |-> Settings(p),
                             place |-> StateOf(at, ResolvedBackend(base, p))]]]
  BY DEF Apply
<1> HIDE DEF at, d, setting
<1>7. WroteWhereItSays'
  <2>1. DOMAIN wrote' = DOMAIN backends'
    BY <1>5 DEF RolloutInv, WroteWhereItSays, Put
  <2>2. ASSUME NEW e \in DOMAIN wrote'
        PROVE  /\ backends'[e] \in SettingOf
               /\ wrote'[e].setting = backends'[e]
               /\ \E a \in Paths : Normalize(a) = e /\ wrote'[e].place = StateOf(a, backends'[e])
    <3>1. CASE e = d
      <4>1. backends'[e] = setting
        BY <1>5, <3>1, <2>1, <2>2 DEF Put
      <4>2. wrote'[e] = [setting |-> setting, place |-> StateOf(at, setting)]
        BY <1>5, <3>1, <2>2 DEF Put
      <4> QED
        BY <1>4, <3>1, <4>1, <4>2 DEF d
    <3>2. CASE e # d
      <4>1. e \in DOMAIN wrote /\ e \in DOMAIN backends
        BY <1>5, <2>2, <2>1, <3>2 DEF Put
      <4>2. backends'[e] = backends[e] /\ wrote'[e] = wrote[e]
        BY <1>5, <2>1, <2>2, <3>2 DEF Put
      <4> QED
        BY <4>1, <4>2 DEF RolloutInv, WroteWhereItSays
    <3> QED
      BY <3>1, <3>2
  <2>3. \A e \in DOMAIN wrote' : \A a \in Paths : StateOf(a, backends[e])' = StateOf(a, backends'[e])
    BY DEF StateOf
  <2> QED
    BY <2>1, <2>2, <2>3 DEF WroteWhereItSays
<1>8. LastRight'
  <2>1. last'.from = "project"
    BY <1>6
  <2>2. ASSUME NEW p \in References(stack)
        PROVE  \E a \in Paths, s \in SettingOf :
                 last'.reads[p] = [at |-> Normalize(a), setting |-> s, place |-> StateOf(a, s)]
    <3>1. p \in DOMAIN config.stacks /\ p \in STRING
      BY <1>3, <1>5
    <3>2. WorkspaceRoot(base, p) \in Paths
      BY <1>1, <1>2, <3>1, WorkspaceForm
    <3>3. Settings(p) \in SettingOf
          /\ StateOf(at, ResolvedBackend(base, p)) = StateOf(WorkspaceRoot(base, p), Settings(p))
      BY <1>1, <1>2, <1>4, <3>1, ResolvedLeads
    <3>4. last'.reads[p] = [at |-> Normalize(WorkspaceRoot(base, p)), setting |-> Settings(p),
                            place |-> StateOf(at, ResolvedBackend(base, p))]
      BY <1>6
    <3> QED
      BY <3>2, <3>3, <3>4
  <2>3. DOMAIN last'.reads = References(stack)
    BY <1>6
  <2> QED
    BY <2>1, <2>2, <2>3 DEF LastRight
<1>9. GeneratedByRequest'
  BY <1>5 DEF GeneratedByRequest
<1> QED
  BY <1>1, <1>5, <1>7, <1>8, <1>9 DEF RolloutInv

\* A step that leaves the workspaces alone keeps what they hold.
LEMMA WorkspacesKept ==
  WroteWhereItSays /\ UNCHANGED <<backends, wrote>> => WroteWhereItSays'
  BY DEF WroteWhereItSays, StateOf

\* A run of a graph file writes nothing down and uses the backend in force.
LEMMA ApplyGraphKeeps ==
  ASSUME RolloutInv, NEW stack \in DOMAIN Reads, NEW base \in Bases, ApplyGraph(stack, base)
  PROVE  RolloutInv'
<1> DEFINE at == Join(OrElse(base, Relative(<<".inframe">>)), Relative(<<"stacks", stack>>))
<1>1. at \in Paths
  <2>1. base \in Option(Paths) /\ stack \in Components
    BY BasesForm, ReadsAssumption DEF Components
  <2>2. Relative(<<".inframe">>) \in Paths /\ Relative(<<"stacks", stack>>) \in Paths
    BY <2>1, LiteralsForm, RelativeForm DEF PathLiterals
  <2>3. OrElse(base, Relative(<<".inframe">>)) \in Paths
    BY <2>1, <2>2, OptionForm
  <2> QED
    BY <2>2, <2>3, JoinForm
<1>2. /\ last' = [stack |-> stack, from |-> "graph", at |-> Normalize(at),
                  wrote |-> StateOf(at, InForce(at)), reads |-> <<>>]
      /\ generated' = {} /\ config' = config /\ UNCHANGED <<backends, wrote>>
  BY DEF ApplyGraph
<1> HIDE DEF at
<1>3. InForce(at)' = InForce(at)
  BY <1>2 DEF InForce
<1>4. LastRight'
  BY <1>1, <1>2, <1>3 DEF LastRight
<1> QED
  BY <1>2, <1>4, WorkspacesKept DEF RolloutInv, GeneratedByRequest

\* Editing the configuration leaves the workspaces as they are, and generating
\* packages gives the targets of a request.
LEMMA OtherKeeps ==
  ASSUME RolloutInv
  PROVE  /\ \A c \in Configs : EditConfig(c) => RolloutInv'
         /\ \A request \in Requests, project \in {<<>>, <<config>>} :
              Generate(request, project) => RolloutInv'
         /\ UNCHANGED rollout => RolloutInv'
<1>1. ASSUME NEW c \in Configs, EditConfig(c) PROVE RolloutInv'
  <2>1. LastRight' /\ GeneratedByRequest'
    BY <1>1 DEF EditConfig, Nothing, LastRight, GeneratedByRequest
  <2> QED
    BY <1>1, <2>1, WorkspacesKept DEF EditConfig, RolloutInv
<1>2. ASSUME NEW request \in Requests, NEW project \in {<<>>, <<config>>},
             Generate(request, project)
      PROVE  RolloutInv'
  <2>1. LastRight'
    BY <1>2 DEF Generate, Nothing, LastRight
  <2>2. GeneratedByRequest'
    <3>1. /\ project # <<>> => Loads(config)
          /\ generated' = Targets(project, request) /\ config' = config
      BY <1>2 DEF Generate
    <3>2. project \in {<<>>, <<config'>>}
      BY <3>1
    <3>3. Loads(config)' = Loads(config)
      BY <3>1
    <3> QED
      BY <3>1, <3>2, <3>3 DEF GeneratedByRequest
  <2> QED
    BY <1>2, <2>1, <2>2, WorkspacesKept DEF Generate, RolloutInv
<1>3. ASSUME UNCHANGED rollout PROVE RolloutInv'
  <2>1. \A at \in Paths : InForce(at)' = InForce(at)
    BY <1>3 DEF rollout, InForce
  <2>2. LastRight'
    BY <1>3, <2>1 DEF rollout, LastRight, RolloutInv
  <2>3. GeneratedByRequest'
    BY <1>3 DEF rollout, GeneratedByRequest, RolloutInv
  <2> QED
    BY <1>3, <2>2, <2>3, WorkspacesKept DEF rollout, RolloutInv
<1> QED
  BY <1>1, <1>2, <1>3

\* No workspace has been used at first.
LEMMA RolloutInit == Init => RolloutInv
<1> SUFFICES ASSUME Init PROVE RolloutInv
  OBVIOUS
<1>1. WroteWhereItSays
  BY DEF Init, WroteWhereItSays
<1>2. LastRight
  BY DEF Init, LastRight, Nothing
<1> QED
  BY <1>1, <1>2 DEF Init, RolloutInv, GeneratedByRequest

\* Every step keeps the invariant.
LEMMA RolloutStep == RolloutInv /\ [Next]_vars => RolloutInv'
<1> SUFFICES ASSUME RolloutInv, [Next]_vars PROVE RolloutInv'
  OBVIOUS
<1>1. CASE \E stack \in DOMAIN Reads, base \in Bases : Apply(stack, base) \/ ApplyGraph(stack, base)
  BY <1>1, ApplyKeeps, ApplyGraphKeeps
<1>2. CASE \E c \in Configs : EditConfig(c)
  BY <1>2, OtherKeeps
<1>3. CASE \E request \in Requests, project \in {<<>>, <<config>>} : Generate(request, project)
  BY <1>3, OtherKeeps
<1>4. CASE UNCHANGED rollout
  BY <1>4, OtherKeeps
<1>5. CASE UNCHANGED vars
  BY <1>5, OtherKeeps DEF vars, rollout
<1> QED
  BY <1>1, <1>2, <1>3, <1>4, <1>5 DEF Next

-----------------------------------------------------------------------------
\* A reader resolves, from its own directory, the path that the producer resolved
\* from its directory: with the same setting both are the same place.
LEMMA ReadsFollow == RolloutInv => ReadsTheProducer
<1> SUFFICES ASSUME RolloutInv, last.from = "project", NEW p \in DOMAIN last.reads,
                    last.reads[p].at \in DOMAIN wrote,
                    wrote[last.reads[p].at].setting = last.reads[p].setting
             PROVE  last.reads[p].place = wrote[last.reads[p].at].place
  BY DEF ReadsTheProducer
<1>1. PICK at \in Paths, setting \in SettingOf :
        last.reads[p] = [at |-> Normalize(at), setting |-> setting, place |-> StateOf(at, setting)]
  BY DEF RolloutInv, LastRight
<1> DEFINE d == Normalize(at)
<1>2. d \in DOMAIN wrote /\ wrote[d].setting = setting
  BY <1>1
<1>3. PICK other \in Paths : Normalize(other) = d /\ wrote[d].place = StateOf(other, backends[d])
  BY <1>2 DEF RolloutInv, WroteWhereItSays
<1>4. backends[d] = setting
  BY <1>2 DEF RolloutInv, WroteWhereItSays
<1>5. StateOf(at, setting) = StateOf(other, setting)
  BY <1>3, StateOfDirectory
<1> QED
  BY <1>1, <1>3, <1>4, <1>5

\* The backend in force in a workspace of the project is the recorded one.
LEMMA GraphFollows == RolloutInv => GraphRunKeepsState
<1> SUFFICES ASSUME RolloutInv, last.from = "graph", last.at \in DOMAIN wrote
             PROVE  last.wrote = wrote[last.at].place
  BY DEF GraphRunKeepsState
<1>1. PICK at \in Paths : last.at = Normalize(at) /\ last.wrote = StateOf(at, InForce(at))
  BY DEF RolloutInv, LastRight
<1> DEFINE d == Normalize(at)
<1>2. d \in DOMAIN wrote /\ d \in DOMAIN backends /\ backends[d] \in SettingOf
  BY <1>1 DEF RolloutInv, WroteWhereItSays
<1>3. InForce(at) = backends[d]
  BY <1>2 DEF InForce
<1>4. PICK other \in Paths : Normalize(other) = d /\ wrote[d].place = StateOf(other, backends[d])
  BY <1>2 DEF RolloutInv, WroteWhereItSays
<1>5. StateOf(at, backends[d]) = StateOf(other, backends[d])
  BY <1>2, <1>4, StateOfDirectory
<1> QED
  BY <1>1, <1>3, <1>4, <1>5

-----------------------------------------------------------------------------
\* Two sequences of one element make one of two, for elements of a set.
LEMMA PairConcatIn ==
  ASSUME NEW S, NEW x \in S, NEW y \in S
  PROVE  <<x>> \o <<y>> = <<x, y>>
<1> DEFINE a == <<x>>
           b == <<y>>
           both == <<x, y>>
<1>1. /\ a \in Seq(S) /\ b \in Seq(S) /\ both \in Seq(S)
      /\ Len(a) = 1 /\ Len(b) = 1 /\ Len(both) = 2
      /\ both[1] = a[1] /\ both[2] = b[1]
  OBVIOUS
<1> HIDE DEF a, b, both
<1>2. /\ a \o b \in Seq(S) /\ Len(a \o b) = 2
      /\ (a \o b)[1] = a[1] /\ (a \o b)[2] = b[1]
  BY <1>1, ConcatProperties
<1>3. \A i \in 1..2 : (a \o b)[i] = both[i]
  BY <1>1, <1>2
<1>4. a \o b = both
  BY <1>1, <1>2, <1>3, SeqEqual
<1> QED
  BY <1>4 DEF a, b, both

\* The same for any two elements.
LEMMA PairConcat == \A x, y : <<x>> \o <<y>> = <<x, y>>
<1> TAKE x, y
<1>1. x \in {x, y} /\ y \in {x, y}
  OBVIOUS
<1> QED
  BY <1>1, PairConcatIn, Zenon

\* The frontends a configuration has.
LEMMA FrontendsForm ==
  ASSUME NEW c
  PROVE  /\ ToSet(Frontends(c)) = {f \in FrontendNames : \/ f = "purescript" /\ c.purescript # <<>>
                                                         \/ f = "lean" /\ c.lean # <<>>}
         /\ Len(Frontends(c)) \in 0..2
         /\ Len(Frontends(c)) = 0 => Frontends(c) = <<>>
         /\ Len(Frontends(c)) = 1 => \E f \in ToSet(Frontends(c)) : Frontends(c) = <<f>>
<1>1. CASE c.purescript # <<>> /\ c.lean # <<>>
  <2>1. Frontends(c) = <<"purescript", "lean">>
    <3>1. Frontends(c) = <<"purescript">> \o <<"lean">>
      BY <1>1, Zenon DEF Frontends
    <3>2. <<"purescript">> \o <<"lean">> = <<"purescript", "lean">>
      BY PairConcat, Zenon
    <3> QED
      BY <3>1, <3>2
  <2>2. ToSet(<<"purescript", "lean">>) = {"purescript", "lean"}
    <3>1. DOMAIN <<"purescript", "lean">> = {1, 2}
      OBVIOUS
    <3> QED
      BY <3>1 DEF ToSet
  <2>3. Len(<<"purescript", "lean">>) = 2
    OBVIOUS
  <2> QED
    BY <1>1, <2>1, <2>2, <2>3 DEF FrontendNames
<1>2. CASE c.purescript # <<>> /\ c.lean = <<>>
  <2>1. Frontends(c) = <<"purescript">>
    BY <1>2 DEF Frontends
  <2> QED
    BY <1>2, <2>1 DEF ToSet, FrontendNames
<1>3. CASE c.purescript = <<>> /\ c.lean # <<>>
  <2>1. Frontends(c) = <<"lean">>
    BY <1>3 DEF Frontends
  <2> QED
    BY <1>3, <2>1 DEF ToSet, FrontendNames
<1>4. CASE c.purescript = <<>> /\ c.lean = <<>>
  <2>1. Frontends(c) = <<>>
    BY <1>4 DEF Frontends
  <2> QED
    BY <1>4, <2>1 DEF ToSet, FrontendNames
<1> QED
  BY <1>1, <1>2, <1>3, <1>4

\* The frontend a stack has is configured.
LEMMA StackFrontendForm ==
  ASSUME NEW c, Configuration(c), Loads(c), NEW name \in DOMAIN c.stacks
  PROVE  LET frontend == StackFrontend(c, c.stacks[name]) IN
         \/ frontend = <<>> /\ Len(Frontends(c)) = 2
         \/ \E f \in ToSet(Frontends(c)) : frontend = <<f>>
<1> DEFINE stack == c.stacks[name]
<1>1. stack.frontend \in Option(FrontendNames)
  BY DEF Configuration, Stacks
<1>2. StackAccepted(c, stack) /\ Frontends(c) # <<>>
  BY DEF Loads
<1>3. CASE stack.frontend # <<>>
  <2>1. stack.frontend[1] \in FrontendNames /\ stack.frontend = <<stack.frontend[1]>>
    BY <1>1, <1>3, OptionForm
  <2>2. stack.frontend[1] \in ToSet(Frontends(c))
    BY <1>2, <2>1, FrontendsForm DEF StackAccepted, FrontendNames
  <2> QED
    BY <1>3, <2>1, <2>2 DEF StackFrontend
<1>4. CASE stack.frontend = <<>>
  <2>1. CASE Len(Frontends(c)) = 1
    BY <1>4, <2>1, FrontendsForm DEF StackFrontend
  <2>2. CASE Len(Frontends(c)) # 1
    <3>1. Len(Frontends(c)) = 2
      BY <1>2, <2>2, FrontendsForm
    <3> QED
      BY <1>4, <2>2, <3>1 DEF StackFrontend
  <2> QED
    BY <2>1, <2>2
<1> QED
  BY <1>3, <1>4

\* What load refuses is enough for every stack that builds to have entry points.
LEMMA UsableFollows == config \in Configs => LoadedIsUsable
<1> SUFFICES ASSUME Configuration(config), Loads(config), NEW name \in DOMAIN config.stacks
             PROVE  LET stack == config.stacks[name]
                        frontend == StackFrontend(config, stack) IN
                    IF frontend = <<>> THEN Len(Frontends(config)) = 2 /\ stack.gate = <<>>
                    ELSE /\ frontend[1] \in ToSet(Frontends(config))
                         /\ stack.gate # <<>> => frontend = <<"lean">>
                         /\ \A which \in {"main", "test"} : ~Empty(EntryPoint(config, stack, which))
  BY ConfigForm DEF LoadedIsUsable
<1> DEFINE stack == config.stacks[name]
           frontend == StackFrontend(config, stack)
<1>1. CASE frontend = <<>>
  <2>1. Len(Frontends(config)) = 2
    BY <1>1, StackFrontendForm
  <2>2. stack.gate = <<>>
    BY <1>1 DEF Loads, GatesAreLean
  <2> QED
    BY <1>1, <2>1, <2>2
<1>2. CASE frontend # <<>>
  <2>1. PICK f \in ToSet(Frontends(config)) : frontend = <<f>>
    BY <1>2, StackFrontendForm
  <2>2. \/ f = "purescript" /\ config.purescript # <<>>
        \/ f = "lean" /\ config.lean # <<>>
    BY FrontendsForm
  <2> DEFINE defaults == IF frontend = <<"lean">> THEN config.lean[1] ELSE config.purescript[1]
  <2>3. ~Blank(defaults.main) /\ ~Empty(defaults.test)
    BY <2>1, <2>2 DEF Loads
  <2>4. ~Empty(stack.main) /\ ~Empty(stack.test)
    BY DEF Loads, StackAccepted
  <2>5. \A which : EntryPoint(config, stack, which) =
          IF which = "test"
            THEN IF stack.test # <<>> THEN stack.test ELSE defaults.test
            ELSE IF stack.main # <<>> THEN stack.main ELSE <<defaults.main>>
    BY DEF EntryPoint
  <2> HIDE DEF defaults
  <2>6. <<defaults.main>> # <<"">>
    BY <2>3 DEF Blank
  <2>7. \A which : ~Empty(EntryPoint(config, stack, which))
    BY <2>3, <2>4, <2>5, <2>6 DEF Empty
  <2>8. stack.gate # <<>> => frontend = <<"lean">>
    BY DEF Loads, GatesAreLean
  <2> QED
    BY <1>2, <2>1, <2>7, <2>8
<1> QED
  BY <1>1, <1>2

-----------------------------------------------------------------------------
\* A path taken from the project's directory is a path.
LEMMA InRoot ==
  /\ \A p \in Paths : Join(Root, p) \in Paths
  /\ \A option \in Option(Paths) :
       option # <<>> => option[1] \in Paths /\ Join(Root, option[1]) \in Paths
<1>1. \A p \in Paths : Join(Root, p) \in Paths
  BY JoinForm, PathsAssumption
<1>2. \A option \in Option(Paths) : option # <<>> => option[1] \in Paths
  BY OptionForm
<1> QED
  BY <1>1, <1>2

\* The directory of a frontend is a path.
LEMMA FrontendDirectoryForm ==
  ASSUME NEW c, Configuration(c), NEW f \in FrontendNames
  PROVE  FrontendDirectory(c, f) \in Paths
<1>1. Relative(<<f>>) \in Paths
  BY LiteralsForm, RelativeForm DEF FrontendNames, PathLiterals
<1>2. /\ c.lean # <<>> => c.lean[1] \in LeanFrontends
      /\ c.purescript # <<>> => c.purescript[1] \in PureScriptFrontends
  BY OptionForm DEF Configuration
<1> QED
  BY <1>1, <1>2 DEF FrontendDirectory, LeanFrontends, PureScriptFrontends, FrontendNames

\* The default directory of a package is two below the frontend's.
LEMMA DefaultOutputForm ==
  ASSUME NEW c, Configuration(c), NEW f \in FrontendNames, NEW name \in STRING
  PROVE  /\ DefaultOutput(c, f, name) \in Paths
         /\ name \notin {".", ".."} =>
              Normalize(DefaultOutput(c, f, name))
                = Normalize(Join(Root, FrontendDirectory(c, f))) \o <<".generated", name>>
<1> DEFINE directory == Join(Root, FrontendDirectory(c, f))
           below == <<".generated", name>>
<1>1. directory \in Paths
  BY FrontendDirectoryForm, InRoot
<1>2. below \in Names
  BY LiteralsForm DEF PathLiterals, Components
<1>3. DefaultOutput(c, f, name) = Join(directory, Relative(below))
  BY DEF DefaultOutput
<1>4. name \notin {".", ".."} => Plain(below)
  BY DEF Plain
<1> HIDE DEF directory, below
<1>5. Relative(below) \in Paths /\ ~Relative(below).absolute /\ Relative(below).parts = below
  BY <1>2, RelativeForm
<1>6. Normalize(Join(directory, Relative(below))) = Walk(Normalize(directory), below)
  BY <1>1, <1>5, NormalizeJoin
<1>7. Normalize(directory) \in Names
  BY <1>1, NormalizeForm
<1>8. name \notin {".", ".."} => Walk(Normalize(directory), below) = Normalize(directory) \o below
  BY <1>2, <1>4, <1>7, WalkDown
<1>9. Join(directory, Relative(below)) \in Paths
  BY <1>1, <1>5, JoinForm
<1> QED
  BY <1>3, <1>6, <1>8, <1>9 DEF directory, below

\* The core of a Lean package, when it is a path, leads to the one configured.
CoreRight(c, output, core) ==
  core.path # <<>> =>
    /\ c.lean # <<>> /\ c.lean[1].core.path # <<>>
    /\ Normalize(Join(output, core.path[1])) = Normalize(Join(Root, c.lean[1].core.path[1]))

\* LeanCore gives a package a path that leads to the configured core library.
LEMMA LeanCoreRight ==
  ASSUME NEW c, Configuration(c), c.lean # <<>>, NEW output \in Paths
  PROVE  CoreRight(c, output, LeanCore(c, output))
<1> DEFINE core == c.lean[1].core
<1>1. core.path \in Option(Paths)
  <2>1. c.lean[1] \in LeanFrontends
    BY OptionForm DEF Configuration
  <2>2. core \in Cores
    BY <2>1 DEF LeanFrontends
  <2> QED
    BY <2>2 DEF Cores
<1>2. CASE core.path # <<>>
  <2> DEFINE to == Join(Root, core.path[1])
  <2>1. to \in Paths
    BY <1>1, <1>2, InRoot
  <2>2. LeanCore(c, output).path = <<RelativePath(output, to)>>
    BY <1>2 DEF LeanCore
  <2> HIDE DEF to
  <2>3. Normalize(Join(output, RelativePath(output, to))) = Normalize(to)
    BY <2>1, RelativePathLeads
  <2> QED
    BY <1>2, <2>2, <2>3 DEF CoreRight, to
<1>3. CASE core.path = <<>>
  BY <1>3 DEF LeanCore, Git, CoreRight
<1> QED
  BY <1>2, <1>3

\* A target has its package somewhere, and a Lean one knows its core.
TargetRight(c, project, t) ==
  /\ t.output \in Paths
  /\ t.frontend = "lean" => CoreRight(c, t.output, t.core[1])
  /\ project = <<>> /\ t.frontend = "lean" => t.core = <<Published>>

\* A target is made of its four parts; Only names a set of one.
IsTarget(t) == \E name, f, output, core : t = Target(name, f, output, core)
Only(S, t) == S = {t}

\* A target of a project goes where the project says, or to the default directory.
OwnOutput(c, t) == IF t.frontend = "lean" THEN c.providers[t.name].leanOutput
                   ELSE c.providers[t.name].output
AsConfigured(c, t) ==
  /\ t.name \in DOMAIN c.providers /\ t.frontend \in ToSet(Frontends(c))
  /\ t.output = IF OwnOutput(c, t) = <<>> THEN DefaultOutput(c, t.frontend, t.name)
                ELSE Join(Root, OwnOutput(c, t)[1])
  /\ t.core = IF t.frontend = "lean" THEN <<LeanCore(c, t.output)>> ELSE <<>>

\* The published core library is not named by a path.
LEMMA PublishedForm == Published.path = <<>>
  BY DEF Published, Git

\* Every target that the project lists is right, and goes where it says.
LEMMA ProjectTargetsRight ==
  ASSUME NEW c, Configuration(c), Loads(c),
         NEW provider, NEW frontend, NEW t \in ProjectTargets(c, provider, frontend)
  PROVE  TargetRight(c, <<c>>, t) /\ IsTarget(t) /\ AsConfigured(c, t)
<1> DEFINE output(name, f) ==
             LET own == IF f = "lean" THEN c.providers[name].leanOutput
                        ELSE c.providers[name].output
             IN IF own = <<>> THEN DefaultOutput(c, f, name) ELSE Join(Root, own[1])
           core(name, f) == IF f = "lean" THEN <<LeanCore(c, output(name, f))>> ELSE <<>>
<1>1. PICK name \in DOMAIN c.providers, f \in ToSet(Frontends(c)) :
        t = Target(name, f, output(name, f), core(name, f))
  BY DEF ProjectTargets
<1>2. /\ t.name = name /\ t.frontend = f
      /\ t.output = output(name, f) /\ t.core = core(name, f)
  BY <1>1 DEF Target
<1>3. output(name, f) \in Paths
  <2>1. c.providers[name] \in Providers
    BY DEF Configuration
  <2>2. c.providers[name].output \in Option(Paths) /\ c.providers[name].leanOutput \in Option(Paths)
    BY <2>1 DEF Providers
  <2>3. name \in STRING
    BY ComponentsAssumption DEF Loads
  <2>4. f \in FrontendNames
    BY FrontendsForm
  <2>5. DefaultOutput(c, f, name) \in Paths
    BY <2>3, <2>4, DefaultOutputForm
  <2> DEFINE own == IF f = "lean" THEN c.providers[name].leanOutput ELSE c.providers[name].output
  <2>6. own \in Option(Paths)
    BY <2>2
  <2>7. output(name, f) = IF own = <<>> THEN DefaultOutput(c, f, name) ELSE Join(Root, own[1])
    OBVIOUS
  <2> HIDE DEF own
  <2> QED
    BY <2>5, <2>6, <2>7, InRoot
<1>4. f = "lean" => c.lean # <<>>
  BY FrontendsForm
<1>5. f = "lean" => CoreRight(c, output(name, f), core(name, f)[1])
  BY <1>3, <1>4, LeanCoreRight
<1> HIDE DEF core
<1>6. TargetRight(c, <<c>>, t)
  BY <1>2, <1>3, <1>5 DEF TargetRight
<1> QED
  BY <1>1, <1>2, <1>6 DEF core, IsTarget, AsConfigured, OwnOutput

\* The project's configuration, when there is one.
Projects(c) == {<<>>, <<c>>}

\* The one target of a command that names its provider is right.
LEMMA DirectTargetRight ==
  ASSUME NEW c, Configuration(c), NEW project \in Projects(c),
         NEW arguments \in Arguments, NEW name \in STRING,
         NEW t, t \in ToSet(DirectTarget(project, arguments, name))
  PROVE  /\ TargetRight(c, project, t) /\ IsTarget(t)
         /\ Only(ToSet(DirectTarget(project, arguments, name)), t)
<1> DEFINE frontend == IF arguments.frontend # <<>> THEN arguments.frontend
                       ELSE IF project = <<>> THEN <<"purescript">>
                       ELSE IF Len(Frontends(project[1])) = 1 THEN Frontends(project[1]) ELSE <<>>
           output == IF arguments.output # <<>> THEN arguments.output[1]
                     ELSE IF project # <<>> THEN DefaultOutput(project[1], frontend[1], name)
                     ELSE Relative(<<frontend[1], ".generated", name>>)
           core == IF frontend[1] = "purescript" THEN <<>>
                   ELSE IF project # <<>> /\ project[1].lean # <<>> THEN <<LeanCore(project[1], output)>>
                   ELSE <<Published>>
           target == Target(name, frontend[1], output, core)
<1>1. DirectTarget(project, arguments, name) = IF frontend = <<>> THEN <<>> ELSE <<target>>
  BY DEF DirectTarget
<1>2. arguments.frontend \in Option(FrontendNames) /\ arguments.output \in Option(Paths)
  BY DEF Arguments
<1>3. project # <<>> => project[1] = c
  BY DEF Projects
<1>4. frontend # <<>> => frontend[1] \in FrontendNames
  <2>1. arguments.frontend # <<>> => arguments.frontend[1] \in FrontendNames
    BY <1>2, OptionForm
  <2>2. Len(Frontends(c)) = 1 => Frontends(c)[1] \in FrontendNames
    <3>1. ASSUME Len(Frontends(c)) = 1 PROVE Frontends(c)[1] \in FrontendNames
      <4>1. PICK f \in ToSet(Frontends(c)) : Frontends(c) = <<f>>
        BY <3>1, FrontendsForm
      <4>2. f \in FrontendNames
        BY FrontendsForm
      <4> QED
        BY <4>1, <4>2
    <3> QED
      BY <3>1
  <2>3. <<"purescript">>[1] \in FrontendNames
    BY DEF FrontendNames
  <2> QED
    BY <1>3, <2>1, <2>2, <2>3
<1>5. frontend # <<>> => output \in Paths
  <2>1. SUFFICES ASSUME frontend # <<>> PROVE output \in Paths
    OBVIOUS
  <2> HIDE DEF frontend
  <2>2. frontend[1] \in FrontendNames
    BY <1>4, <2>1
  <2>3. DefaultOutput(c, frontend[1], name) \in Paths
    BY <2>2, DefaultOutputForm
  <2>4. Relative(<<frontend[1], ".generated", name>>) \in Paths
    <3>1. frontend[1] \in Components /\ ".generated" \in Components /\ name \in Components
      BY <2>2, LiteralsForm DEF FrontendNames, PathLiterals, Components
    <3>2. <<frontend[1], ".generated", name>> \in Names
      BY <3>1 DEF Names
    <3> QED
      BY <3>2, RelativeForm
  <2>5. arguments.output # <<>> => arguments.output[1] \in Paths
    BY <1>2, OptionForm
  <2> QED
    BY <1>3, <2>3, <2>4, <2>5
<1>6. frontend # <<>> /\ t = target
  <2> HIDE DEF frontend, target
  <2>1. CASE frontend = <<>>
    BY <1>1, <2>1 DEF ToSet
  <2>2. CASE frontend # <<>>
    BY <1>1, <2>2 DEF ToSet
  <2> QED
    BY <2>1, <2>2
<1>7. ToSet(DirectTarget(project, arguments, name)) = {t}
  <2> HIDE DEF frontend, target
  <2> QED
    BY <1>1, <1>6 DEF ToSet
<1>8. t.output = output /\ t.frontend = frontend[1] /\ t.core = core
  <2> HIDE DEF output, core, frontend
  <2> QED
    BY <1>6 DEF Target
<1> HIDE DEF output, frontend
<1>9. t.frontend = "lean" => t.core = <<Published>> \/ (project # <<>> /\ c.lean # <<>> /\ t.core = <<LeanCore(c, t.output)>>)
  BY <1>3, <1>8
<1>10. project = <<>> /\ t.frontend = "lean" => t.core = <<Published>>
  BY <1>8
<1>11. t.frontend = "lean" => CoreRight(c, t.output, t.core[1])
  <2>1. t.output \in Paths
    BY <1>5, <1>6, <1>8
  <2>2. t.core = <<Published>> => CoreRight(c, t.output, t.core[1])
    BY PublishedForm DEF CoreRight
  <2>3. c.lean # <<>> => CoreRight(c, t.output, LeanCore(c, t.output))
    BY <2>1, LeanCoreRight
  <2> QED
    BY <1>9, <2>2, <2>3
<1> QED
  BY <1>5, <1>6, <1>7, <1>8, <1>10, <1>11 DEF TargetRight, IsTarget, Only

\* What generate_providers starts from, and what it makes of it given an --output.
LEMMA TargetsForm ==
  ASSUME NEW c, Configuration(c), NEW project \in Projects(c), project # <<>> => Loads(c),
         NEW arguments \in Arguments, NEW t \in Targets(project, arguments)
  PROVE  /\ TargetRight(c, project, t)
         /\ \/ Targets(project, arguments) = {t}
            \/ /\ project = <<c>>
               /\ Targets(project, arguments) = ProjectTargets(c, arguments.provider, arguments.frontend)
<1> DEFINE chosen == IF arguments.direct
                       THEN ToSet(DirectTarget(project, arguments, OrElse(arguments.provider, "p")))
                     ELSE IF project = <<>> THEN {}
                     ELSE ProjectTargets(project[1], arguments.provider, arguments.frontend)
           refused == arguments.output # <<>> /\ \E x, y \in chosen : x.name # y.name
           moved(x) == [x EXCEPT !.output = arguments.output[1],
                                 !.core = IF x.frontend = "lean" /\ project # <<>>
                                            THEN <<LeanCore(project[1], arguments.output[1])>> ELSE @]
           askable == \A x \in chosen : x.frontend = "lean" /\ project # <<>> => project[1].lean # <<>>
<1>1. Targets(project, arguments) =
        IF refused THEN {}
        ELSE IF arguments.output = <<>> THEN chosen
        ELSE IF askable /\ \E x \in chosen : chosen = {x} THEN {moved(x) : x \in chosen}
        ELSE {}
  BY DEF Targets
<1>2. OrElse(arguments.provider, "p") \in STRING
  <2>1. "p" \in STRING
    BY LiteralsAssumption DEF PathLiterals
  <2>2. arguments.provider \in Option(STRING)
    BY DEF Arguments
  <2> QED
    BY <2>1, <2>2, OptionForm
<1>3. ASSUME NEW x \in chosen
      PROVE  /\ TargetRight(c, project, x) /\ IsTarget(x)
             /\ \/ chosen = {x}
                \/ /\ project = <<c>>
                   /\ chosen = ProjectTargets(c, arguments.provider, arguments.frontend)
  <2>1. CASE arguments.direct
    <3> DEFINE named == OrElse(arguments.provider, "p")
    <3>1. named \in STRING /\ x \in ToSet(DirectTarget(project, arguments, named))
          /\ chosen = ToSet(DirectTarget(project, arguments, named))
      BY <1>2, <2>1
    <3> HIDE DEF chosen, named
    <3>2. TargetRight(c, project, x) /\ IsTarget(x) /\ Only(chosen, x)
      BY <3>1, DirectTargetRight
    <3> QED
      BY <3>2 DEF Only
  <2>2. CASE ~arguments.direct
    <3>1. project = <<c>> /\ chosen = ProjectTargets(c, arguments.provider, arguments.frontend)
      BY <1>3, <2>2 DEF Projects
    <3>2. x \in ProjectTargets(c, arguments.provider, arguments.frontend) /\ Loads(c)
      BY <3>1
    <3> HIDE DEF chosen
    <3>3. TargetRight(c, <<c>>, x) /\ IsTarget(x)
      BY <3>2, ProjectTargetsRight
    <3> QED
      BY <3>1, <3>3
  <2> QED
    BY <2>1, <2>2
<1> HIDE DEF chosen
<1>4. CASE arguments.output = <<>>
  <2>1. Targets(project, arguments) = chosen
    BY <1>1, <1>4
  <2> QED
    BY <1>3, <2>1
<1>5. CASE arguments.output # <<>>
  <2>1. /\ askable /\ \E x \in chosen : chosen = {x}
        /\ Targets(project, arguments) = {moved(x) : x \in chosen}
    BY <1>1, <1>5
  <2>2. PICK x \in chosen : chosen = {x}
    BY <2>1
  <2>3. t = moved(x) /\ Targets(project, arguments) = {t}
    BY <2>1, <2>2
  <2>4. PICK name, frontend, output, core : x = Target(name, frontend, output, core)
    BY <1>3 DEF IsTarget
  <2>5. /\ t.output = arguments.output[1] /\ t.frontend = x.frontend
        /\ t.core = IF x.frontend = "lean" /\ project # <<>>
                      THEN <<LeanCore(project[1], arguments.output[1])>> ELSE x.core
    BY <2>3, <2>4 DEF Target
  <2>6. arguments.output[1] \in Paths
    BY <1>5, OptionForm DEF Arguments
  <2>7. TargetRight(c, project, x)
    BY <1>3
  <2>8. t.frontend = "lean" => CoreRight(c, t.output, t.core[1])
    <3>1. SUFFICES ASSUME t.frontend = "lean" PROVE CoreRight(c, t.output, t.core[1])
      OBVIOUS
    <3>2. CASE project = <<>>
      <4>1. t.core = <<Published>>
        BY <2>5, <2>7, <3>1, <3>2 DEF TargetRight
      <4> QED
        BY <4>1, PublishedForm DEF CoreRight
    <3>3. CASE project # <<>>
      <4>1. project[1] = c
        BY <3>3 DEF Projects
      <4>2. c.lean # <<>>
        BY <2>1, <2>5, <3>1, <3>3, <4>1
      <4>3. t.core = <<LeanCore(c, t.output)>> /\ t.output \in Paths
        BY <2>5, <2>6, <3>1, <3>3, <4>1
      <4> QED
        BY <4>2, <4>3, LeanCoreRight
    <3> QED
      BY <3>2, <3>3
  <2>9. project = <<>> /\ t.frontend = "lean" => t.core = <<Published>>
    BY <2>5, <2>7 DEF TargetRight
  <2> QED
    BY <2>3, <2>5, <2>6, <2>8, <2>9 DEF TargetRight
<1> QED
  BY <1>4, <1>5

\* The targets of the last command are right, for the configuration as it is.
LEMMA CoreFollows == RolloutInv => CoreIsReached
<1> SUFFICES ASSUME RolloutInv, NEW t \in generated, t.frontend = "lean"
             PROVE  CoreRight(config, t.output, t.core[1])
  BY DEF CoreIsReached, CoreRight
<1>1. Configuration(config)
  BY ConfigForm DEF RolloutInv
<1>2. PICK request \in Requests, project \in {<<>>, <<config>>} :
        (project # <<>> => Loads(config)) /\ generated = Targets(project, request)
  BY DEF RolloutInv, GeneratedByRequest
<1>3. request \in Arguments /\ project \in Projects(config) /\ t \in Targets(project, request)
  BY <1>2, ArgumentsAssumption DEF Projects
<1>4. TargetRight(config, project, t)
  BY <1>1, <1>2, <1>3, TargetsForm
<1> QED
  BY <1>4 DEF TargetRight

\* The directory `a` leads to below `p`.
Below(p, a) == p \o a

\* What two components below a directory are.
LEMMA TwoAtTheEnd ==
  ASSUME NEW p \in Names, NEW a \in Names, Len(a) = 2
  PROVE  /\ Len(p) \in Nat /\ Len(Below(p, a)) = Len(p) + 2
         /\ \A i \in 1..Len(p) : Below(p, a)[i] = p[i]
         /\ Below(p, a)[Len(p) + 2] = a[2]
<1>1. Len(p) \in Nat /\ Len(p \o a) = Len(p) + 2
  <2>1. Len(p) \in Nat /\ Len(p \o a) = Len(p) + Len(a)
    BY NamesConcat
  <2> QED
    BY <2>1
<1>2. \A i \in 1..(Len(p) + 2) : (p \o a)[i] = IF i <= Len(p) THEN p[i] ELSE a[i - Len(p)]
  <2>1. \A i \in 1..(Len(p) + Len(a)) :
          (p \o a)[i] = IF i <= Len(p) THEN p[i] ELSE a[i - Len(p)]
    BY ConcatProperties DEF Names
  <2> QED
    BY <2>1
<1>3. \A i \in 1..Len(p) : i \in 1..(Len(p) + 2) /\ i <= Len(p)
  BY <1>1
<1>4. Len(p) + 2 \in 1..(Len(p) + 2) /\ ~(Len(p) + 2 <= Len(p)) /\ Len(p) + 2 - Len(p) = 2
  BY <1>1
<1> QED
  BY <1>1, <1>2, <1>3, <1>4 DEF Below

\* Two directories two below others are the same only in the same one, by one name.
LEMMA LastTwo ==
  ASSUME NEW p \in Names, NEW q \in Names, NEW a \in Names, NEW b \in Names,
         Len(a) = 2, Len(b) = 2
  PROVE  Below(p, a) = Below(q, b) => p = q /\ a[2] = b[2]
<1> DEFINE pa == Below(p, a)
           qb == Below(q, b)
<1> HIDE DEF pa, qb
<1>1. /\ Len(p) \in Nat /\ Len(pa) = Len(p) + 2
      /\ \A i \in 1..Len(p) : pa[i] = p[i]
      /\ pa[Len(p) + 2] = a[2]
  BY TwoAtTheEnd DEF pa
<1>2. /\ Len(q) \in Nat /\ Len(qb) = Len(q) + 2
      /\ \A i \in 1..Len(q) : qb[i] = q[i]
      /\ qb[Len(q) + 2] = b[2]
  BY TwoAtTheEnd DEF qb
<1>3. ASSUME pa = qb PROVE p = q /\ a[2] = b[2]
  <2>1. Len(p) = Len(q)
    BY <1>1, <1>2, <1>3
  <2>2. \A i \in 1..Len(p) : p[i] = q[i]
    BY <1>1, <1>2, <1>3, <2>1
  <2>3. p = q
    BY <2>1, <2>2, SeqEqual DEF Names
  <2> QED
    BY <1>1, <1>2, <1>3, <2>1, <2>3
<1> QED
  BY <1>3 DEF pa, qb

\* Targets of different providers end in different names, and those of one
\* provider are for different frontends.
LEMMA ApartFollows == RolloutInv => TargetsApart
<1> SUFFICES ASSUME RolloutInv, NEW t \in generated, NEW u \in generated,
                    t # u, Normalize(t.output) = Normalize(u.output),
                    \A name \in DOMAIN config.providers :
                      config.providers[name].output = <<>> /\ config.providers[name].leanOutput = <<>>
             PROVE  /\ t.frontend # u.frontend
                    /\ Normalize(Join(Root, FrontendDirectory(config, t.frontend)))
                         = Normalize(Join(Root, FrontendDirectory(config, u.frontend)))
  BY DEF TargetsApart
<1>1. Configuration(config)
  BY ConfigForm DEF RolloutInv
<1>2. PICK request \in Requests, project \in {<<>>, <<config>>} :
        (project # <<>> => Loads(config)) /\ generated = Targets(project, request)
  BY DEF RolloutInv, GeneratedByRequest
<1>3. request \in Arguments /\ project \in Projects(config)
      /\ t \in Targets(project, request) /\ u \in Targets(project, request)
  BY <1>2, ArgumentsAssumption DEF Projects
<1> DEFINE all == Targets(project, request)
           listed == ProjectTargets(config, request.provider, request.frontend)
<1>4. project = <<config>> /\ all = listed
  <2>1. (project # <<>> => Loads(config)) /\ t \in all /\ u \in all
    BY <1>2, <1>3
  <2>2. all = {t} \/ (project = <<config>> /\ all = listed)
    BY <1>1, <1>3, <2>1, TargetsForm
  <2> HIDE DEF all, listed
  <2>3. all # {t}
    BY <2>1
  <2> QED
    BY <2>2, <2>3
<1>5. Loads(config) /\ t \in ProjectTargets(config, request.provider, request.frontend)
      /\ u \in ProjectTargets(config, request.provider, request.frontend)
  <2>1. project # <<>>
    BY <1>4
  <2> QED
    BY <1>2, <1>3, <1>4, <2>1
<1> HIDE DEF all, listed
<1> DEFINE AsProject(v) ==
             /\ v.name \in DOMAIN config.providers /\ v.frontend \in ToSet(Frontends(config))
             /\ v.output = DefaultOutput(config, v.frontend, v.name)
             /\ v.core = IF v.frontend = "lean" THEN <<LeanCore(config, v.output)>> ELSE <<>>
<1>6. ASSUME NEW v \in ProjectTargets(config, request.provider, request.frontend)
      PROVE  IsTarget(v) /\ AsProject(v)
  <2>1. IsTarget(v) /\ AsConfigured(config, v)
    BY <1>1, <1>5, ProjectTargetsRight
  <2>2. OwnOutput(config, v) = <<>>
    BY <2>1 DEF OwnOutput, AsConfigured
  <2> QED
    BY <2>1, <2>2 DEF AsConfigured
<1>7. IsTarget(t) /\ AsProject(t) /\ IsTarget(u) /\ AsProject(u)
  BY <1>5, <1>6
<1> DEFINE Above(v) == Normalize(Join(Root, FrontendDirectory(config, v.frontend)))
<1>8. ASSUME NEW v, AsProject(v)
      PROVE  /\ v.name \in Components /\ Above(v) \in Names
             /\ Normalize(v.output) = Above(v) \o <<".generated", v.name>>
  <2>1. v.frontend \in FrontendNames
    BY <1>8, FrontendsForm
  <2>2. v.name \in STRING /\ v.name \notin {".", ".."}
    BY <1>5, <1>8, ComponentsAssumption DEF Loads
  <2>3. Join(Root, FrontendDirectory(config, v.frontend)) \in Paths
    BY <1>1, <2>1, FrontendDirectoryForm, InRoot
  <2>4. Above(v) \in Names
    BY <2>3, NormalizeForm
  <2>5. Normalize(DefaultOutput(config, v.frontend, v.name)) = Above(v) \o <<".generated", v.name>>
    BY <1>1, <2>1, <2>2, DefaultOutputForm
  <2> QED
    BY <1>8, <2>2, <2>4, <2>5 DEF Components
<1>9. /\ t.name \in Components /\ Above(t) \in Names
      /\ Normalize(t.output) = Above(t) \o <<".generated", t.name>>
  BY <1>7, <1>8
<1>10. /\ u.name \in Components /\ Above(u) \in Names
       /\ Normalize(u.output) = Above(u) \o <<".generated", u.name>>
  BY <1>7, <1>8
<1>11. ".generated" \in Components
  BY LiteralsForm DEF PathLiterals
<1>12. Above(t) \o <<".generated", t.name>> = Above(u) \o <<".generated", u.name>>
  BY <1>9, <1>10
<1>13. Above(t) = Above(u) /\ t.name = u.name
  <2> DEFINE p == Above(t)
             q == Above(u)
             a == <<".generated", t.name>>
             b == <<".generated", u.name>>
  <2>1. p \in Names /\ q \in Names /\ Below(p, a) = Below(q, b)
    BY <1>9, <1>10, <1>12 DEF Below
  <2>2. a \in Names /\ b \in Names
    BY <1>9, <1>10, <1>11, LiteralsForm
  <2>3. Len(a) = 2 /\ Len(b) = 2 /\ a[2] = t.name /\ b[2] = u.name
    OBVIOUS
  <2> HIDE DEF p, q, a, b
  <2>4. p = q /\ a[2] = b[2]
    BY <2>1, <2>2, <2>3, LastTwo
  <2> QED
    BY <2>3, <2>4 DEF p, q
<1>14. ASSUME t.frontend = u.frontend PROVE FALSE
  <2>1. t.output = u.output /\ t.core = u.core
    BY <1>7, <1>13, <1>14
  <2> QED
    BY <1>7, <1>13, <1>14, <2>1 DEF IsTarget, Target
<1> QED
  BY <1>13, <1>14

-----------------------------------------------------------------------------
\* All files are older than the clock at first.
LEMMA ClockInit == Init => Clock
<1> SUFFICES ASSUME Init PROVE Clock
  OBVIOUS
<1>1. now = 1 /\ warned = <<>> /\ files = [f \in Sources \cup Outputs |-> [version |-> 1, time |-> 0]]
  BY DEF Init, LookingInit
<1> QED
  BY <1>1, FilesAssumption DEF Clock, Stamps

\* No file is given a time that is not the clock's.
LEMMA ClockStep == Clock /\ [Next]_vars => Clock'
<1> SUFFICES ASSUME Clock, [Next]_vars PROVE Clock'
  OBVIOUS
<1>1. CASE UNCHANGED looking
  BY <1>1 DEF Clock, looking
<1>2. CASE LookingNext
  <2>1. ASSUME NEW f \in Sources \cup Outputs, Edit(f) \/ Compile(f) PROVE Clock'
    <3>1. /\ now' = now /\ warned' = <<>> /\ files[f] \in Stamps /\ now \in Nat
      BY <2>1 DEF Edit, Compile, Clock
    <3>2. \E stamp \in Stamps : files' = [files EXCEPT ![f] = stamp] /\ stamp.time = now
      <4>1. CASE Edit(f)
        <5>1. [version |-> files[f].version + 1, time |-> now] \in Stamps
          BY <3>1 DEF Stamps
        <5>2. files' = [files EXCEPT ![f] = [version |-> files[f].version + 1, time |-> now]]
          BY <4>1 DEF Edit, Clock
        <5> QED
          BY <5>1, <5>2
      <4>2. CASE Compile(f)
        <5>1. [version |-> files[f].version, time |-> now] \in Stamps
          BY <3>1 DEF Stamps
        <5>2. files' = [files EXCEPT ![f] = [version |-> files[f].version, time |-> now]]
          BY <4>2 DEF Compile, Clock
        <5> QED
          BY <5>1, <5>2
      <4> QED
        BY <2>1, <4>1, <4>2
    <3>3. PICK stamp \in Stamps : files' = [files EXCEPT ![f] = stamp] /\ stamp.time = now
      BY <3>2
    <3> QED
      BY <3>1, <3>3 DEF Clock
  <2>2. CASE StartBuild \/ FinishBuild \/ FailBuild
    BY <2>2 DEF StartBuild, FinishBuild, FailBuild, Clock
  <2>3. CASE Look
    <3>1. warned' \in {<<TRUE>>, <<FALSE>>}
      BY <2>3 DEF Look, ChangedAfter
    <3> QED
      BY <2>3, <3>1 DEF Look, Clock
  <2>4. CASE Tick
    <3>1. now' = now + 1 /\ now' \in 1..MaxTime /\ UNCHANGED <<files, warned>>
      BY <2>4, FilesAssumption DEF Tick, Clock
    <3>2. \A f \in Sources \cup Outputs : files[f].time \in Nat
      BY DEF Clock, Stamps
    <3>3. now \in Nat /\ \A f \in Sources \cup Outputs : files[f].time <= now
      BY FilesAssumption DEF Clock
    <3>4. \A f \in Sources \cup Outputs : files[f].time <= now + 1
      BY <3>2, <3>3
    <3>5. files' = files /\ warned' = warned /\ now' = now + 1
      BY <3>1
    <3>6. files' \in [Sources \cup Outputs -> Stamps] /\ warned' \in {<<>>, <<TRUE>>, <<FALSE>>}
      BY <3>5 DEF Clock
    <3> QED
      BY <3>1, <3>4, <3>5, <3>6 DEF Clock
  <2> QED
    BY <1>2, <2>1, <2>2, <2>3, <2>4 DEF LookingNext
<1>3. [Next]_vars => UNCHANGED looking \/ LookingNext
  BY DEF Next, vars, Apply, ApplyGraph, EditConfig, Generate
<1> QED
  BY <1>1, <1>2, <1>3

\* The invariant gives the types.
LEMMA TypeFollows == RolloutInv /\ Clock => TypeOK
<1> SUFFICES ASSUME RolloutInv, Clock PROVE TypeOK
  OBVIOUS
<1>1. \A f \in DOMAIN files : files[f].time \in 0..now
  BY FilesAssumption DEF Clock, Stamps
<1> QED
  BY <1>1 DEF RolloutInv, WroteWhereItSays, Clock, TypeOK

\* What the commands do to the artifacts is a step of Staleness, or none.
LEMMA LookingWithin == [Next]_vars => [LookingNext]_looking
  BY DEF Next, vars, Apply, ApplyGraph, EditConfig, Generate

-----------------------------------------------------------------------------
\* The inductive invariant holds whatever the configurations, bases, stacks and
\* requests are: it is true of the initial state and every command keeps it.
THEOREM RolloutHolds == Spec => [](RolloutInv /\ Clock)
<1>1. Init => RolloutInv /\ Clock
  BY RolloutInit, ClockInit
<1>2. RolloutInv /\ Clock /\ [Next]_vars => (RolloutInv /\ Clock)'
  BY RolloutStep, ClockStep
<1> QED
  BY <1>1, <1>2, PTL DEF Spec

\* Workspaces, clock and warnings keep their form (TypeOK).
THEOREM TypeCorrect == Spec => []TypeOK
<1>1. RolloutInv /\ Clock => TypeOK
  BY TypeFollows
<1> QED
  BY <1>1, RolloutHolds, PTL

\* A stack reads the state of another where that one writes it, wherever the
\* working directory, the project and the --workspace are, absolute or relative
\* (resolve_stack_references in crates/cli/src/main.rs).
THEOREM ReadersFindTheState == Spec => []ReadsTheProducer
<1>1. RolloutInv /\ Clock => ReadsTheProducer
  BY ReadsFollow
<1> QED
  BY <1>1, RolloutHolds, PTL

\* A run of a graph file writes the state that the runs of the project write in
\* the same workspace (backend.tofu.json, left by the last of them).
THEOREM GraphRunsKeepTheState == Spec => []GraphRunKeepsState
<1>1. RolloutInv /\ Clock => GraphRunKeepsState
  BY GraphFollows
<1> QED
  BY <1>1, RolloutHolds, PTL

\* Every stack of a configuration that load accepts has entry points in a
\* configured frontend, which is Lean if the stack has a gate, or leaves open which
\* of two frontends it has, and then has no gate.
THEOREM LoadedConfigurationsAreUsable == Spec => []LoadedIsUsable
<1>1. RolloutInv /\ Clock => LoadedIsUsable
  BY UsableFollows DEF RolloutInv
<1> QED
  BY <1>1, RolloutHolds, PTL

\* The path in the lakefile of a generated package leads to the core library the
\* project names, wherever the package is written (relative_path and normalize).
THEOREM CoresAreReached == Spec => []CoreIsReached
<1>1. RolloutInv /\ Clock => CoreIsReached
  BY CoreFollows
<1> QED
  BY <1>1, RolloutHolds, PTL

\* No two packages of one provider generate are written to one directory, unless
\* the configuration says so itself.
THEOREM TargetsAreApart == Spec => []TargetsApart
<1>1. RolloutInv /\ Clock => TargetsApart
  BY ApartFollows
<1> QED
  BY <1>1, RolloutHolds, PTL

\* The commands implement Staleness: what is built and looked at, beside runs,
\* edits of the configuration and generated packages, is a behaviour of it.
THEOREM LookingGoesOn == Spec => LookingSpec
<1>1. Init => LookingInit
  BY DEF Init
<1>2. [Next]_vars => [LookingNext]_looking
  BY LookingWithin
<1> QED
  BY <1>1, <1>2, PTL DEF Spec, LookingSpec

\* So --no-build is silent in every rollout only when the artifact is fresh.
THEOREM SilenceInRollout == Spec => []SilenceMeansFresh
  BY LookingGoesOn, SilenceIsFresh, PTL

\* And its warning is about a source that did change since.
THEOREM AlarmsInRollout == Spec => []AlarmIsReal
  BY LookingGoesOn, AlarmsAreReal, PTL
=============================================================================
