-------------------------- MODULE CycleCheckProofs --------------------------
(***************************************************************************)
(* The two searches on one graph, of any number of addresses and with any  *)
(* references.  Each search is an instance of CycleSearchProofs; what is   *)
(* left is that both get what it assumes, and that the lists they walk     *)
(* hold the same edges.                                                    *)
(***************************************************************************)
EXTENDS CycleCheck, FiniteSetTheorems, WellFoundedInduction, TLAPS

LeanP == INSTANCE CycleSearchProofs WITH Fuel <- LeanFuel, up <- leanUp,
           roots <- Addresses, path <- leanPath, pos <- leanPos, done <- leanDone,
           cycle <- leanCycle, verdict <- leanVerdict

RustP == INSTANCE CycleSearchProofs WITH Fuel <- Nat, up <- rustUp,
           roots <- rustRoots, path <- rustPath, pos <- rustPos, done <- rustDone,
           cycle <- rustCycle, verdict <- rustVerdict

\* The list is the set S in ascending order.
Lists(list, S) ==
  /\ list \in [1..Cardinality(S) -> S] /\ Range(list) = S
  /\ \A i, j \in 1..Cardinality(S) : i < j => list[i] < list[j]

SameEdges == \A n \in Node : Range(leanUp[n]) = Range(rustUp[n])

\* The frontend is through before the reference validator starts.
InTurn == leanVerdict = "searching" => rustVerdict = "searching"

IInv == LeanP!IInv /\ RustP!IInv /\ SameEdges /\ InTurn

-----------------------------------------------------------------------------
\* A set of numbers that is not empty has a least one.
LEMMA LeastNumber ==
  ASSUME NEW S \in SUBSET Nat, S # {}
  PROVE  \E m \in S : \A n \in S : m <= n
<1>1. PICK m \in S : \A n \in S : <<n, m>> \notin OpToRel(<, Nat)
  BY NatLessThanWellFounded, WFMin
<1>2. \A n \in S : ~(n < m)
  BY <1>1 DEF OpToRel
<1> QED
  BY <1>2

\* A finite set of numbers can be listed in ascending order: the least number
\* is put before the list of the others.
LEMMA AscendingExists ==
  ASSUME NEW S \in SUBSET Nat, IsFiniteSet(S)
  PROVE  \E list : Lists(list, S)
<1> DEFINE Finite == {T \in SUBSET Nat : IsFiniteSet(T)}
           Unlisted == {T \in Finite : ~ \E list : Lists(list, T)}
           Sizes == {Cardinality(T) : T \in Unlisted}
<1>1. ASSUME Unlisted # {} PROVE FALSE
  <2>1. Sizes \in SUBSET Nat /\ Sizes # {}
    BY <1>1, FS_CardinalityType
  <2>2. PICK T \in Unlisted : \A U \in Unlisted : Cardinality(T) <= Cardinality(U)
    <3> HIDE DEF Sizes
    <3>1. PICK c \in Sizes : \A d \in Sizes : c <= d
      BY <2>1, LeastNumber
    <3> QED
      BY <3>1 DEF Sizes
  <2>3. T \in SUBSET Nat /\ IsFiniteSet(T) /\ Cardinality(T) \in Nat
    BY FS_CardinalityType
  <2>4. CASE T = {}
    <3>1. Cardinality(T) = 0
      BY <2>4, FS_EmptySet
    <3>2. Lists([i \in 1..0 |-> 0], {})
      BY <2>4, <3>1 DEF Lists, Range
    <3> QED
      BY <2>4, <3>2
  <2>5. CASE T # {}
    <3>1. PICK m \in T : \A n \in T : m <= n
      BY <2>3, <2>5, LeastNumber
    <3> DEFINE U == T \ {m}
               size == Cardinality(U)
    <3>2. IsFiniteSet(U) /\ Cardinality(T) = size + 1 /\ size \in Nat
      <4>1. IsFiniteSet(T \ {m}) /\ Cardinality(T \ {m}) = Cardinality(T) - 1
        BY <2>3, FS_RemoveElement
      <4>2. Cardinality(T \ {m}) \in Nat
        BY <4>1, FS_CardinalityType
      <4> QED
        BY <2>3, <4>1, <4>2
    <3>3. U \notin Unlisted
      BY <2>2, <2>3, <3>2
    <3>4. PICK list : Lists(list, U)
      BY <2>3, <3>2, <3>3
    <3> HIDE DEF size
    <3> DEFINE longer == [i \in 1..(size + 1) |-> IF i = 1 THEN m ELSE list[i - 1]]
    <3>5. /\ list \in [1..size -> U] /\ Range(list) = U
          /\ \A i, j \in 1..size : i < j => list[i] < list[j]
      BY <3>4 DEF Lists, size
    <3>6. longer \in [1..(size + 1) -> T]
      BY <3>2, <3>5
    <3>7. Range(longer) = T
      <4>1. ASSUME NEW n \in T PROVE \E i \in 1..(size + 1) : longer[i] = n
        <5>1. CASE n = m
          BY <3>2, <5>1
        <5>2. CASE n # m
          <6>1. PICK i \in 1..size : list[i] = n
            BY <3>5, <5>2 DEF Range
          <6> QED
            BY <3>2, <6>1
        <5> QED
          BY <5>1, <5>2
      <4> HIDE DEF longer
      <4>2. DOMAIN longer = 1..(size + 1)
        BY <3>6
      <4>3. ASSUME NEW i \in DOMAIN longer PROVE longer[i] \in T
        BY <3>6
      <4>4. Range(longer) = {longer[i] : i \in DOMAIN longer}
        BY DEF Range
      <4> QED
        BY <4>1, <4>2, <4>3, <4>4, Zenon
    <3>8. ASSUME NEW i \in 1..(size + 1), NEW j \in 1..(size + 1), i < j
          PROVE  longer[i] < longer[j]
      <4>1. j - 1 \in 1..size /\ longer[j] = list[j - 1]
        BY <3>2, <3>8
      <4>2. CASE i = 1
        <5>1. list[j - 1] \in U
          BY <3>5, <4>1
        <5>2. longer[i] = m /\ m # list[j - 1] /\ list[j - 1] \in T
          BY <3>2, <4>2, <5>1
        <5>3. m \in Nat /\ list[j - 1] \in Nat
          BY <2>3, <5>2
        <5> QED
          BY <3>1, <4>1, <5>2, <5>3
      <4>3. CASE i # 1
        <5>1. i - 1 \in 1..size /\ longer[i] = list[i - 1] /\ i - 1 < j - 1
          BY <3>2, <3>8, <4>3
        <5> QED
          BY <3>5, <4>1, <5>1
      <4> QED
        BY <4>2, <4>3
    <3> HIDE DEF longer
    <3>9. Lists(longer, T)
      BY <3>2, <3>6, <3>7, <3>8 DEF Lists
    <3> QED
      BY <3>9
  <2> QED
    BY <2>4, <2>5
<1> QED
  BY <1>1

\* The order of a sorted set lists it.
LEMMA AscendingLists ==
  ASSUME NEW S \in SUBSET Nat, IsFiniteSet(S)
  PROVE  Lists(Ascending(S), S) /\ Cardinality(S) \in Nat
<1>1. PICK list : Lists(list, S)
  BY AscendingExists
<1>2. \E l \in [1..Cardinality(S) -> S] :
        /\ Range(l) = S
        /\ \A i, j \in 1..Cardinality(S) : i < j => l[i] < l[j]
  BY <1>1 DEF Lists
<1> QED
  BY <1>2, FS_CardinalityType DEF Lists, Ascending

-----------------------------------------------------------------------------
\* Only what may be chosen is chosen.
LEMMA Chosen ==
  ASSUME NEW choice \in [Node -> SUBSET Seq(Node)],
         NEW f \in [Node -> UNION {choice[n] : n \in Node}],
         \A n \in Node : f[n] \in choice[n]
  PROVE  f \in [Node -> Seq(Node)]
OBVIOUS

\* The elements of two lists, one after the other.
LEMMA RangeConcat ==
  ASSUME NEW left \in Seq(Node), NEW right \in Seq(Node)
  PROVE  Range(left \o right) = Range(left) \cup Range(right)
<1> DEFINE both == left \o right
<1>1. /\ Len(left) \in Nat /\ Len(right) \in Nat
      /\ both \in Seq(Node) /\ Len(both) = Len(left) + Len(right)
      /\ \A i \in 1..Len(both) :
           both[i] = IF i <= Len(left) THEN left[i] ELSE right[i - Len(left)]
  OBVIOUS
<1>2. /\ \A i \in 1..Len(left) : i \in 1..Len(both) /\ both[i] = left[i]
      /\ \A i \in 1..Len(right) :
           i + Len(left) \in 1..Len(both) /\ both[i + Len(left)] = right[i]
  BY <1>1
<1>3. \A i \in 1..Len(both) : both[i] \in Range(left) \cup Range(right)
  BY <1>1 DEF Range
<1> HIDE DEF both
<1>4. Range(both) \subseteq Range(left) \cup Range(right)
  BY <1>1, <1>3 DEF Range
<1>5. \A x \in Range(left) : x \in Range(both)
  BY <1>1, <1>2 DEF Range
<1>6. ASSUME NEW x \in Range(right) PROVE x \in Range(both)
  <2>1. PICK i \in 1..Len(right) : x = right[i]
    BY DEF Range
  <2>2. i + Len(left) \in DOMAIN both /\ both[i + Len(left)] = x
    BY <1>1, <1>2, <2>1
  <2> QED
    BY <2>2 DEF Range
<1> QED
  BY <1>4, <1>5, <1>6 DEF both

\* The set of the elements of a list, in the two ways it is written.
LEMMA ElementsIsRange ==
  ASSUME NEW seq \in Seq(Node)
  PROVE  LeanP!Elements(seq) = Range(seq) /\ RustP!Elements(seq) = Range(seq)
BY DEF LeanP!Elements, RustP!Elements, Range

\* The sorted edges into a node come from the nodes it refers to.
LEMMA UpstreamIsSorted ==
  ASSUME NEW refs \in Seq(Node), NEW expl \in Seq(Node)
  PROVE  /\ Upstream(refs, expl) \in Seq(Node)
         /\ Range(Upstream(refs, expl)) = Range(refs) \cup Range(expl)
<1> DEFINE edges == {2 * from : from \in Range(refs)} \cup {2 * from + 1 : from \in Range(expl)}
           k == Cardinality(edges)
           sources == [i \in 1..k |-> Ascending(edges)[i] \div 2]
<1>1. Range(refs) \subseteq Node /\ Range(expl) \subseteq Node
  BY DEF Range
<1>2. N \in Nat /\ \A n \in Node : n \in Nat /\ n >= 1 /\ n <= N
  BY NodeAssumption DEF Node
<1>3. \A e \in edges : e \in Nat /\ e <= 2 * N + 1
  BY <1>1, <1>2
<1>4. edges \in SUBSET Nat /\ IsFiniteSet(edges)
  <2>1. edges \in SUBSET (0..(2 * N + 1))
    BY <1>2, <1>3
  <2>2. IsFiniteSet(0..(2 * N + 1))
    BY <1>2, FS_Interval
  <2> QED
    BY <1>3, <2>1, <2>2, FS_Subset
<1>5. \A from \in Node : (2 * from) \div 2 = from /\ (2 * from + 1) \div 2 = from
  BY SMTT(60), <1>2
<1>6. /\ \A e \in edges : e \div 2 \in Range(refs) \cup Range(expl)
      /\ \A from \in Range(refs) \cup Range(expl) : \E e \in edges : e \div 2 = from
  BY <1>1, <1>5
<1> HIDE DEF edges
<1>7. k \in Nat /\ Ascending(edges) \in [1..k -> edges] /\ Range(Ascending(edges)) = edges
  BY <1>4, AscendingLists DEF Lists
<1> HIDE DEF k
<1>8. Upstream(refs, expl) = sources
  BY DEF Upstream, edges, k
<1>9. sources \in [1..k -> Range(refs) \cup Range(expl)]
  BY <1>6, <1>7
<1>10. \A from \in Range(refs) \cup Range(expl) : \E i \in 1..k : sources[i] = from
  BY <1>6, <1>7 DEF Range
<1> HIDE DEF sources
<1>11. Range(sources) = Range(refs) \cup Range(expl)
  BY <1>9, <1>10 DEF Range
<1>12. sources \in Seq(Node)
  <2>1. sources \in [1..k -> Node]
    BY <1>1, <1>9
  <2> QED
    BY <1>7, <2>1
<1> QED
  BY <1>8, <1>11, <1>12

\* The keys of the map are the nodes with upstream ones.
LEMMA KeysAreRooted ==
  ASSUME NEW up
  PROVE  Keys(up) \in Seq(Node) /\ Range(Keys(up)) = {n \in Node : up[n] # <<>>}
<1> DEFINE S == {n \in Node : up[n] # <<>>}
<1>1. IsFiniteSet(Node) /\ Node \in SUBSET Nat
  BY NodeAssumption, FS_Interval DEF Node
<1>2. S \in SUBSET Nat /\ IsFiniteSet(S) /\ S \subseteq Node
  BY <1>1, FS_Subset
<1> HIDE DEF S
<1>3. Keys(up) = Ascending(S)
  BY DEF Keys, S
<1>4. /\ Cardinality(S) \in Nat /\ Range(Ascending(S)) = S
      /\ Ascending(S) \in [1..Cardinality(S) -> S]
  BY <1>2, AscendingLists DEF Lists
<1>5. Ascending(S) \in [1..Cardinality(S) -> Node]
  BY <1>2, <1>4
<1> QED
  BY <1>3, <1>4, <1>5 DEF S

\* Both searches start on the same edges and with all that they need.
LEMMA InitIInv == Init => IInv
<1> SUFFICES ASSUME Init PROVE IInv
  OBVIOUS
<1>1. PICK refs \in {f \in [Node -> UNION {References[n] : n \in Node}] :
                       \A n \in Node : f[n] \in References[n]},
           expl \in {f \in [Node -> UNION {Explicit[n] : n \in Node}] :
                       \A n \in Node : f[n] \in Explicit[n]} :
        /\ leanUp = [n \in Node |-> UpstreamOf(refs[n], expl[n])]
        /\ rustUp = [n \in Node |-> Upstream(refs[n], expl[n])]
  BY DEF Init
<1>2. refs \in [Node -> Seq(Node)] /\ expl \in [Node -> Seq(Node)]
  BY Chosen, ReferencesAssumption
<1>3. ASSUME NEW n \in Node
      PROVE  /\ leanUp[n] \in Seq(Node) /\ rustUp[n] \in Seq(Node)
             /\ Range(leanUp[n]) = Range(rustUp[n])
  <2>1. refs[n] \in Seq(Node) /\ expl[n] \in Seq(Node)
    BY <1>2
  <2>2. leanUp[n] = refs[n] \o expl[n] /\ rustUp[n] = Upstream(refs[n], expl[n])
    BY <1>1 DEF UpstreamOf
  <2>3. Range(refs[n] \o expl[n]) = Range(refs[n]) \cup Range(expl[n])
    BY <2>1, RangeConcat
  <2> QED
    BY <2>1, <2>2, <2>3, UpstreamIsSorted
<1>4. leanUp \in [Node -> Seq(Node)] /\ rustUp \in [Node -> Seq(Node)] /\ SameEdges
  BY <1>1, <1>3 DEF SameEdges
<1>5. /\ N \in Nat /\ LeanP!IsFiniteSet(Node) /\ RustP!IsFiniteSet(Node)
      /\ LeanP!Cardinality(Node) = N /\ RustP!Cardinality(Node) = N
  <2>1. N \in Nat /\ 1 \in Int /\ N \in Int
    BY NodeAssumption
  <2>2. /\ LeanP!IsFiniteSet(1..N)
        /\ LeanP!Cardinality(1..N) = IF 1 > N THEN 0 ELSE N - 1 + 1
    BY <2>1, LeanP!FS_Interval
  <2>3. /\ RustP!IsFiniteSet(1..N)
        /\ RustP!Cardinality(1..N) = IF 1 > N THEN 0 ELSE N - 1 + 1
    BY <2>1, RustP!FS_Interval
  <2> QED
    BY <2>1, <2>2, <2>3 DEF Node
<1>6. Addresses \in Seq(Node) /\ Range(Addresses) = Node
  <2>1. Addresses \in [1..N -> Node]
    BY NodeAssumption DEF Node
  <2> QED
    BY <1>5, <2>1, NodeAssumption
<1>7. LeanP!Input
  <2>1. LeanP!Elements(Addresses) = Node
    BY <1>6, ElementsIsRange
  <2>2. 0..LeanP!Cardinality(Node) \subseteq LeanFuel
    BY <1>5 DEF LeanFuel
  <2> QED
    BY <1>4, <1>5, <1>6, <2>1, <2>2 DEF LeanP!Input
<1>8. RustP!Input
  <2>1. rustRoots = Keys(rustUp)
    BY DEF Init
  <2>2. /\ rustRoots \in Seq(Node)
        /\ RustP!Elements(rustRoots) = {n \in Node : rustUp[n] # <<>>}
    BY <2>1, KeysAreRooted, ElementsIsRange
  <2>3. 0..RustP!Cardinality(Node) \subseteq Nat
    BY <1>5
  <2> QED
    BY <1>4, <1>5, <2>2, <2>3 DEF RustP!Input
<1>9. LeanP!Init /\ RustP!Init
  BY DEF Init, Lean!Init, Rust!Init, LeanP!Init, RustP!Init
<1> QED
  BY <1>4, <1>7, <1>8, <1>9, LeanP!InitIInv, RustP!InitIInv
  DEF IInv, InTurn, RustP!Init

\* A step of one search leaves the other, and both graphs, alone.
LEMMA StepsAreSearchSteps ==
  ASSUME [Next]_vars
  PROVE  LeanP!Step /\ RustP!Step
<1>1. CASE LeanStep
  <2>1. LeanP!Next
    BY <1>1 DEF LeanStep, Lean!Next, Lean!Skip, Lean!Close, Lean!Enter,
       Lean!Return, Lean!Finish, Lean!Calling, Lean!Callee, Lean!Here, Lean!Loop,
       Lean!Depth, Lean!Advanced, Lean!HasFuel, Lean!Elements, LeanP!Next,
       LeanP!Skip, LeanP!Close, LeanP!Enter, LeanP!Return, LeanP!Finish,
       LeanP!Calling, LeanP!Callee, LeanP!Here, LeanP!Loop, LeanP!Depth,
       LeanP!Advanced, LeanP!HasFuel, LeanP!Elements
  <2> QED
    BY <1>1, <2>1 DEF LeanStep, input, rustVars, LeanP!Step, LeanP!vars,
       RustP!Step, RustP!vars
<1>2. CASE RustStep
  <2>1. RustP!Next
    BY <1>2 DEF RustStep, Rust!Next, Rust!Skip, Rust!Close, Rust!Enter,
       Rust!Return, Rust!Finish, Rust!Calling, Rust!Callee, Rust!Here, Rust!Loop,
       Rust!Depth, Rust!Advanced, Rust!HasFuel, Rust!Elements, RustP!Next,
       RustP!Skip, RustP!Close, RustP!Enter, RustP!Return, RustP!Finish,
       RustP!Calling, RustP!Callee, RustP!Here, RustP!Loop, RustP!Depth,
       RustP!Advanced, RustP!HasFuel, RustP!Elements
  <2> QED
    BY <1>2, <2>1 DEF RustStep, input, leanVars, LeanP!Step, LeanP!vars,
       RustP!Step, RustP!vars
<1>3. CASE UNCHANGED vars
  BY <1>3 DEF vars, LeanP!Step, LeanP!vars, RustP!Step, RustP!vars
<1> QED
  BY <1>1, <1>2, <1>3 DEF Next

\* The edges do not change, and neither search starts out of turn.
LEMMA TogetherPreserved == IInv /\ [Next]_vars => SameEdges' /\ InTurn'
<1> SUFFICES ASSUME IInv, [Next]_vars PROVE SameEdges' /\ InTurn'
  OBVIOUS
<1>1. leanUp' = leanUp /\ rustUp' = rustUp
  BY DEF Next, LeanStep, RustStep, input, vars
<1>2. SameEdges'
  BY <1>1 DEF IInv, SameEdges
<1>3. CASE LeanStep
  <2>1. leanVerdict = "searching" /\ rustVerdict' = rustVerdict
    BY <1>3 DEF LeanStep, rustVars, Lean!Next, Lean!Skip, Lean!Close, Lean!Enter,
       Lean!Return, Lean!Finish, Lean!Calling
  <2> QED
    BY <1>2, <2>1 DEF IInv, InTurn
<1>4. CASE RustStep \/ UNCHANGED vars
  <2>1. \/ leanVerdict' # "searching"
        \/ leanVerdict' = leanVerdict /\ rustVerdict' = rustVerdict
    BY <1>4 DEF RustStep, leanVars, vars
  <2> QED
    BY <1>2, <2>1 DEF IInv, InTurn
<1> QED
  BY <1>3, <1>4 DEF Next

\* The invariant holds in every reachable state.
THEOREM Invariance == Spec => []IInv
<1>1. ASSUME IInv, [Next]_vars PROVE IInv'
  BY <1>1, StepsAreSearchSteps, TogetherPreserved, LeanP!Inductive, RustP!Inductive
  DEF IInv
<1>2. IInv /\ [Next]_vars => IInv'
  BY <1>1
<1> QED
  BY InitIInv, <1>2, PTL DEF Spec

\* searchCycle, search_cycle: whatever the graph, both searches decide whether
\* its dependencies have a cycle, and the later one agrees with the earlier.
THEOREM SearchesAgree == Spec => []VerdictsAreRight
<1>1. ASSUME IInv PROVE VerdictsAreRight
  <2>1. LeanP!VerdictIsRight /\ RustP!VerdictIsRight
    BY <1>1, LeanP!InvariantDecides, RustP!InvariantDecides DEF IInv
  <2>2. Lean!VerdictIsRight /\ Rust!VerdictIsRight
    BY <2>1 DEF Lean!VerdictIsRight, Rust!VerdictIsRight, LeanP!VerdictIsRight,
       RustP!VerdictIsRight, Lean!Cyclic, Rust!Cyclic, LeanP!Cyclic, RustP!Cyclic,
       Lean!Elements, Rust!Elements, LeanP!Elements, RustP!Elements
  <2>3. \A n \in Node : LeanP!Elements(leanUp[n]) = RustP!Elements(rustUp[n])
    <3>1. \A n \in Node : leanUp[n] \in Seq(Node) /\ rustUp[n] \in Seq(Node)
      BY <1>1 DEF IInv, LeanP!IInv, LeanP!Input, RustP!IInv, RustP!Input
    <3> QED
      BY <1>1, <3>1, ElementsIsRange DEF IInv, SameEdges
  <2>4. LeanP!Cyclic <=> RustP!Cyclic
    BY <2>3 DEF LeanP!Cyclic, RustP!Cyclic
  <2>5. /\ leanVerdict \in {"searching", "cycle", "acyclic"}
        /\ rustVerdict \in {"searching", "cycle", "acyclic"}
    BY <1>1 DEF IInv, LeanP!IInv, LeanP!Types, RustP!IInv, RustP!Types
  <2>6. rustVerdict # "searching" => rustVerdict = leanVerdict
    BY <1>1, <2>1, <2>4, <2>5
    DEF IInv, InTurn, LeanP!VerdictIsRight, RustP!VerdictIsRight
  <2> QED
    BY <2>2, <2>6 DEF VerdictsAreRight
<1>2. IInv => VerdictsAreRight
  BY <1>1
<1> QED
  BY Invariance, <1>2, PTL

\* cycle_error: both name a closed chain of dependencies.
THEOREM NamedCyclesAreReal == Spec => []CyclesAreReal
<1>1. IInv => LeanP!CycleIsReal /\ RustP!CycleIsReal
  BY DEF IInv, LeanP!IInv, RustP!IInv
<1>2. LeanP!CycleIsReal /\ RustP!CycleIsReal => CyclesAreReal
  BY DEF CyclesAreReal, LeanP!CycleIsReal, RustP!CycleIsReal, Lean!CycleIsReal,
     Rust!CycleIsReal, LeanP!Elements, RustP!Elements, Lean!Elements, Rust!Elements
<1> QED
  BY Invariance, <1>1, <1>2, PTL

\* validateAcyclic: one more than the number of nodes is always fuel enough.
THEOREM FuelIsEnough == Spec => []FuelNeverRunsOut
<1>1. IInv => LeanP!HasFuel
  BY LeanP!FuelLasts DEF IInv, LeanP!IInv
<1>2. LeanP!HasFuel => FuelNeverRunsOut
  BY DEF FuelNeverRunsOut, Lean!FuelNeverRunsOut, Lean!HasFuel, LeanP!HasFuel,
     Lean!Depth, LeanP!Depth
<1> QED
  BY Invariance, <1>1, <1>2, PTL
=============================================================================
