----------------------------- MODULE CycleCheck -----------------------------
(***************************************************************************)
(* The two cycle searches on the dependencies of one graph document: first *)
(* the frontend's, in Lean, then the reference validator's, in Rust.  They *)
(* see the same edges in different lists: Lean follows the order of the    *)
(* program, with repeats, and starts from every address; Rust sorts the    *)
(* edges, which are <<from, to, explicit>>, and starts from the nodes that *)
(* depend on something.                                                    *)
(***************************************************************************)
EXTENDS Naturals, Sequences, FiniteSets, Functions

CONSTANTS
  N,          \* how many addresses the graph has; 1..N is their order in Rust
  Addresses,  \* the addresses in the order of the program
  References, \* per address, what its arguments may refer to, in order
  Explicit    \* per address, the depends_on and triggers it may have

Node == 1..N

ASSUME NodeAssumption ==
  N \in Nat /\ Addresses \in [Node -> Node] /\ Range(Addresses) = Node

ASSUME ReferencesAssumption ==
  /\ References \in [Node -> SUBSET Seq(Node)]
  /\ Explicit \in [Node -> SUBSET Seq(Node)]

VARIABLES
  leanUp, leanPath, leanPos, leanDone, leanCycle, leanVerdict,
  rustUp, rustRoots, rustPath, rustPos, rustDone, rustCycle, rustVerdict

input    == <<leanUp, rustUp, rustRoots>>
leanVars == <<leanPath, leanPos, leanDone, leanCycle, leanVerdict>>
rustVars == <<rustPath, rustPos, rustDone, rustCycle, rustVerdict>>
vars == <<leanUp, leanPath, leanPos, leanDone, leanCycle, leanVerdict,
          rustUp, rustRoots, rustPath, rustPos, rustDone, rustCycle, rustVerdict>>

\* Fault: no fuel is left for the call that closes a cycle of all nodes.
FuelOfNodes == 0..(N - 1)

\* searchCycle is called on the roots with nodes.length + 1.
LeanFuel == 0..N

Lean == INSTANCE CycleSearch WITH Fuel <- LeanFuel, up <- leanUp, roots <- Addresses,
          path <- leanPath, pos <- leanPos, done <- leanDone, cycle <- leanCycle,
          verdict <- leanVerdict

Rust == INSTANCE CycleSearch WITH Fuel <- Nat, up <- rustUp, roots <- rustRoots,
          path <- rustPath, pos <- rustPos, done <- rustDone, cycle <- rustCycle,
          verdict <- rustVerdict

\* upstreamOf: the references of the arguments, then the explicit ones.
UpstreamOf(refs, expl) == refs \o expl

\* The order of a sorted set of numbers.
Ascending(S) ==
  CHOOSE list \in [1..Cardinality(S) -> S] :
    /\ Range(list) = S
    /\ \A i, j \in 1..Cardinality(S) : i < j => list[i] < list[j]

\* The sources of the sorted edges into a node; the edge from a node counts as
\* twice the node, and one more when it is explicit.
Upstream(refs, expl) ==
  LET edges == {2 * from : from \in Range(refs)} \cup {2 * from + 1 : from \in Range(expl)}
  IN  [i \in 1..Cardinality(edges) |-> Ascending(edges)[i] \div 2]

\* The keys of the map of upstream lists.
Keys(up) == Ascending({n \in Node : up[n] # <<>>})

Init ==
  /\ \E refs \in {f \in [Node -> UNION {References[n] : n \in Node}] :
                    \A n \in Node : f[n] \in References[n]},
        expl \in {f \in [Node -> UNION {Explicit[n] : n \in Node}] :
                    \A n \in Node : f[n] \in Explicit[n]} :
       /\ leanUp = [n \in Node |-> UpstreamOf(refs[n], expl[n])]
       /\ rustUp = [n \in Node |-> Upstream(refs[n], expl[n])]
  /\ rustRoots = Keys(rustUp)
  /\ Lean!Init /\ Rust!Init

LeanStep == Lean!Next /\ UNCHANGED <<input, rustVars>>

RustStep == leanVerdict # "searching" /\ Rust!Next /\ UNCHANGED <<input, leanVars>>

Next == LeanStep \/ RustStep

Spec == Init /\ [][Next]_vars

-----------------------------------------------------------------------------
\* Both validators report a cycle exactly when the dependencies have one, and
\* so agree: a graph the frontend lets pass is never refused as cyclic later.
VerdictsAreRight ==
  /\ Lean!VerdictIsRight /\ Rust!VerdictIsRight
  /\ rustVerdict # "searching" => rustVerdict = leanVerdict

\* Both name a cycle that is there, in dependency order.
CyclesAreReal == Lean!CycleIsReal /\ Rust!CycleIsReal

\* searchCycle of Validate.lean: fuel := nodes.length + 1 never runs out.
FuelNeverRunsOut == Lean!FuelNeverRunsOut
=============================================================================
