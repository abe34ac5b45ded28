---------------------------- MODULE CycleSearch -----------------------------
(***************************************************************************)
(* The depth-first search for a dependency cycle that the reference        *)
(* validator (find_cycle, search_cycle) and its port to Lean               *)
(* (validateAcyclic, searchCycle) both make.  The recursion is a stack of  *)
(* frames, as in StackOrder: pos[k] is how far the loop of frame k has     *)
(* come, the loop over the roots being the bottom one.  The Lean function  *)
(* recurses on fuel and gives up without a verdict on the node when there  *)
(* is none left; Fuel is the set of depths at which a call has some.       *)
(***************************************************************************)
EXTENDS Naturals, Sequences

CONSTANTS Node, Fuel

VARIABLES
  up,       \* per node, the list of the nodes it depends on
  roots,    \* the nodes the search starts from
  path, pos, done,
  cycle,    \* the cycle found
  verdict

state == <<path, pos, done, cycle, verdict>>
vars  == <<up, roots, path, pos, done, cycle, verdict>>

Elements(seq) == {seq[i] : i \in 1..Len(seq)}

Init ==
  /\ path = <<>> /\ pos = <<1>> /\ done = {} /\ cycle = <<>>
  /\ verdict = "searching"

Depth   == Len(path)
Loop    == IF path = <<>> THEN roots ELSE up[path[Depth]]
Here    == pos[Depth + 1]
Calling == verdict = "searching" /\ Here <= Len(Loop)
Callee  == Loop[Here]
Advanced == [pos EXCEPT ![Depth + 1] = Here + 1]
HasFuel == Depth \in Fuel

\* Fault: a node on the path counts as explored.
SkipVisited ==
  /\ Calling
  /\ ~HasFuel \/ Callee \in done \cup Elements(path)
  /\ pos' = Advanced
  /\ UNCHANGED <<path, done, cycle, verdict>>

\* Explored before without finding a cycle, or no fuel is left.
Skip ==
  /\ Calling
  /\ ~HasFuel \/ Callee \in done
  /\ pos' = Advanced
  /\ UNCHANGED <<path, done, cycle, verdict>>

\* Fault: the cycle is cut one place too late.
CloseLate ==
  /\ Calling /\ HasFuel
  /\ Callee \in Elements(path) \ done
  /\ \E start \in 1..Depth :
       /\ path[start] = Callee
       /\ cycle' = Append(SubSeq(path, start + 1, Depth), Callee)
  /\ verdict' = "cycle"
  /\ UNCHANGED <<path, pos, done>>

Close ==
  /\ Calling /\ HasFuel
  /\ Callee \in Elements(path) \ done
  /\ \E start \in 1..Depth :
       /\ path[start] = Callee /\ \A i \in 1..(start - 1) : path[i] # Callee
       /\ cycle' = Append(SubSeq(path, start, Depth), Callee)
  /\ verdict' = "cycle"
  /\ UNCHANGED <<path, pos, done>>

Enter ==
  /\ Calling /\ HasFuel
  /\ Callee \notin done \cup Elements(path)
  /\ path' = Append(path, Callee)
  /\ pos' = Append(Advanced, 1)
  /\ UNCHANGED <<done, cycle, verdict>>

Return ==
  /\ verdict = "searching" /\ Here > Len(Loop) /\ path # <<>>
  /\ done' = done \cup {path[Depth]}
  /\ path' = SubSeq(path, 1, Depth - 1)
  /\ pos' = SubSeq(pos, 1, Depth)
  /\ UNCHANGED <<cycle, verdict>>

Finish ==
  /\ verdict = "searching" /\ Here > Len(Loop) /\ path = <<>>
  /\ verdict' = "acyclic"
  /\ UNCHANGED <<path, pos, done, cycle>>

Next == Skip \/ Close \/ Enter \/ Return \/ Finish

Spec == Init /\ [][Next /\ UNCHANGED <<up, roots>>]_vars

-----------------------------------------------------------------------------
\* Some nodes depend on one another: no order creates them.
Cyclic == \E S \in SUBSET Node : S # {} /\ \A n \in S : Elements(up[n]) \cap S # {}

\* find_cycle: a cycle is reported exactly when the dependencies have one.
VerdictIsRight ==
  /\ verdict = "cycle" => Cyclic
  /\ verdict = "acyclic" => ~Cyclic

\* find_cycle: in the cycle that is reported each node depends on the next
\* one, and the first one is repeated at the end.
CycleIsReal ==
  verdict = "cycle" =>
    /\ Len(cycle) >= 2 /\ cycle[1] = cycle[Len(cycle)]
    /\ \A i \in 1..(Len(cycle) - 1) : cycle[i + 1] \in Elements(up[cycle[i]])

\* searchCycle: the descent is never deeper than the number of nodes, so the
\* fuel never runs out and no verdict rests on a search that gave up.
FuelNeverRunsOut == Calling => HasFuel
=============================================================================
