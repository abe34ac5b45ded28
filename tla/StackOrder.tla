----------------------------- MODULE StackOrder -----------------------------
(***************************************************************************)
(* `inframe build` without --stack: build every declared stack in name     *)
(* order, then order the stacks for applying them by the recursive search  *)
(* stack_order / visit_stack.  The recursion is a stack of frames: `path`  *)
(* is `visiting`, and pos[k] is how far the loop of frame k has come, the  *)
(* loop over the graphs' keys being the bottom one.                        *)
(***************************************************************************)
EXTENDS Naturals, Sequences, FiniteSets

CONSTANTS
  Stack,     \* the declared stacks
  Name,      \* every name a stack reference may hold
  Keys,      \* Stack, in name order
  RefLists   \* the lists of references the main of each stack may print

ASSUME NameAssumption == Stack \subseteq Name /\ IsFiniteSet(Stack)

ASSUME KeysAssumption ==
  /\ Keys \in Seq(Stack)
  /\ {Keys[i] : i \in 1..Len(Keys)} = Stack

ASSUME RefListsAssumption ==
  RefLists \in [Stack -> SUBSET Seq(Name)]

VARIABLES
  refs,      \* stack_references of each stack's graph
  built,     \* how many keys have been built and written to their artifact
  path,      \* visiting
  pos,       \* the next index of each frame's loop
  order,     \* the order so far
  cycle,     \* the cycle reported, if one is
  outcome

vars == <<refs, built, path, pos, order, cycle, outcome>>

Elements(seq) == {seq[i] : i \in 1..Len(seq)}

Init ==
  /\ refs \in {f \in [Stack -> UNION {RefLists[s] : s \in Stack}] :
                 \A s \in Stack : f[s] \in RefLists[s]}
  /\ built = 0
  /\ path = <<>> /\ pos = <<1>> /\ order = <<>> /\ cycle = <<>>
  /\ outcome = "building"

-----------------------------------------------------------------------------
\* check_stack_references: another declared stack, each of them.
ReferencesAllowed(s) == Elements(refs[s]) \subseteq Stack \ {s}

Build ==
  /\ outcome = "building" /\ built < Len(Keys)
  /\ LET s == Keys[built + 1]
     IN  \/ ReferencesAllowed(s) /\ built' = built + 1 /\ UNCHANGED outcome
         \/ outcome' = "notBuilt" /\ UNCHANGED built   \* or the tool failed
  /\ UNCHANGED <<refs, path, pos, order, cycle>>

StartOrder ==
  /\ outcome = "building" /\ built = Len(Keys)
  /\ outcome' = "ordering"
  /\ UNCHANGED <<refs, built, path, pos, order, cycle>>

-----------------------------------------------------------------------------
Depth   == Len(path)
Loop    == IF path = <<>> THEN Keys ELSE refs[path[Depth]]
Here    == pos[Depth + 1]
Calling == outcome = "ordering" /\ Here <= Len(Loop)
Callee  == Loop[Here]
Advanced == [pos EXCEPT ![Depth + 1] = Here + 1]

Open == Elements(path)

\* Fault: a stack that is being visited is taken for one that is in the order.
SkipOpen ==
  /\ Calling
  /\ Callee \in Elements(order) \cup Open \/ Callee \notin Stack
  /\ pos' = Advanced
  /\ UNCHANGED <<refs, built, path, order, cycle, outcome>>

\* The call returns at once: the stack is in the order, or is no graph.
Skip ==
  /\ Calling
  /\ Callee \in Elements(order) \/ Callee \notin Stack
  /\ pos' = Advanced
  /\ UNCHANGED <<refs, built, path, order, cycle, outcome>>

\* Fault: the chain starts with the stack the search started from.
CloseWholePath ==
  /\ Calling
  /\ Callee \in Open \ Elements(order)
  /\ cycle' = Append(path, Callee)
  /\ outcome' = "cycle"
  /\ UNCHANGED <<refs, built, path, pos, order>>

\* The stack is being visited: what was visited since closes a cycle.
Close ==
  /\ Calling
  /\ Callee \in Open \ Elements(order)
  /\ \E start \in 1..Depth :
       /\ path[start] = Callee /\ \A i \in 1..(start - 1) : path[i] # Callee
       /\ cycle' = Append(SubSeq(path, start, Depth), Callee)
  /\ outcome' = "cycle"
  /\ UNCHANGED <<refs, built, path, pos, order>>

\* Fault: the loop over the references of the stack is not begun.
EnterOnly ==
  /\ Calling
  /\ Callee \in Stack \ (Elements(order) \cup Open)
  /\ path' = Append(path, Callee)
  /\ pos' = Advanced
  /\ UNCHANGED <<refs, built, order, cycle, outcome>>

Enter ==
  /\ Calling
  /\ Callee \in Stack \ (Elements(order) \cup Open)
  /\ path' = Append(path, Callee)
  /\ pos' = Append(Advanced, 1)
  /\ UNCHANGED <<refs, built, order, cycle, outcome>>

\* Fault: the stack goes before those it reads.
ReturnInFront ==
  /\ outcome = "ordering" /\ Here > Len(Loop) /\ path # <<>>
  /\ order' = <<path[Depth]>> \o order
  /\ path' = SubSeq(path, 1, Depth - 1)
  /\ pos' = SubSeq(pos, 1, Depth)
  /\ UNCHANGED <<refs, built, cycle, outcome>>

\* The references are all in the order; so is the stack now.
Return ==
  /\ outcome = "ordering" /\ Here > Len(Loop) /\ path # <<>>
  /\ order' = Append(order, path[Depth])
  /\ path' = SubSeq(path, 1, Depth - 1)
  /\ pos' = SubSeq(pos, 1, Depth)
  /\ UNCHANGED <<refs, built, cycle, outcome>>

Announce ==
  /\ outcome = "ordering" /\ Here > Len(Loop) /\ path = <<>>
  /\ outcome' = "ordered"
  /\ UNCHANGED <<refs, built, path, pos, order, cycle>>

Next == Build \/ StartOrder \/ Skip \/ Close \/ Enter \/ Return \/ Announce

Spec == Init /\ [][Next]_vars

\* One process that runs by itself.
FairSpec == Spec /\ WF_vars(Next)

-----------------------------------------------------------------------------
TypeOK ==
  /\ refs \in [Stack -> Seq(Name)]
  /\ built \in 0..Len(Keys)
  /\ path \in Seq(Stack) /\ order \in Seq(Stack) /\ cycle \in Seq(Stack)
  /\ pos \in Seq(Nat) /\ Len(pos) = Len(path) + 1
  /\ outcome \in {"building", "notBuilt", "ordering", "cycle", "ordered"}

\* stack_order: at every moment of the search, a stack that is in the order
\* comes after every declared stack it reads and is there once; when the order
\* is printed, every declared stack is in it.
Deployable ==
  /\ \A i \in 1..Len(order) :
       /\ \A r \in Elements(refs[order[i]]) \cap Stack :
            \E j \in 1..(i - 1) : order[j] = r
       /\ \A j \in 1..(i - 1) : order[j] # order[i]
  /\ outcome = "ordered" => Elements(order) = Stack

\* visit_stack: the chain the error names is a chain of references from a
\* stack through at least one other one back to itself, each stack reading the
\* next one.
CycleIsReal ==
  outcome = "cycle" =>
    /\ Len(cycle) >= 3 /\ cycle[1] = cycle[Len(cycle)]
    /\ \A i \in 1..(Len(cycle) - 1) : cycle[i + 1] \in Elements(refs[cycle[i]])
    /\ \A i, j \in 1..(Len(cycle) - 1) : cycle[i] = cycle[j] => i = j

\* `build`: an order puts each stack after those it reads, a cycle is reported
\* only when no order would do, and one of the answers is always given.
Promise == INSTANCE ApplyOrder
             WITH reads <- [s \in Stack |-> Elements(refs[s]) \cap Stack],
                  answer <- IF outcome \in {"building", "ordering"}
                              THEN "pending" ELSE outcome
KeepsPromise == Promise!FairSpec
=============================================================================
