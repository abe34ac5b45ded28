------------------------- MODULE CycleSearchProofs -------------------------
(***************************************************************************)
(* What CycleSearch keeps true on every finite set of nodes: its verdict,  *)
(* the cycle it names, and that its fuel lasts when there is some at every *)
(* depth up to the number of nodes.                                        *)
(***************************************************************************)
EXTENDS CycleSearch, FiniteSets, FunctionTheorems, FiniteSetTheorems,
        SequenceTheorems, TLAPS

\* What the callers of the search see to: every node that depends on another
\* one is a root, and the fuel is at least the number of nodes plus one.
Input ==
  /\ IsFiniteSet(Node) /\ 0..Cardinality(Node) \subseteq Fuel
  /\ up \in [Node -> Seq(Node)] /\ roots \in Seq(Node)
  /\ \A n \in Node : up[n] # <<>> => n \in Elements(roots)

Types ==
  /\ path \in Seq(Node) /\ cycle \in Seq(Node) /\ done \subseteq Node
  /\ pos \in Seq(Nat) /\ Len(pos) = Len(path) + 1
  /\ verdict \in {"searching", "cycle", "acyclic"}

\* The list the loop of frame k runs over.
ListOf(k) == IF k = 1 THEN roots ELSE up[path[k - 1]]

\* Each node on the path was reached through the edge its caller stands at.
Reached ==
  \A k \in 1..Len(path) :
    pos[k] \in 2..(Len(ListOf(k)) + 1) /\ ListOf(k)[pos[k] - 1] = path[k]

\* What a loop has passed is explored, or is on the path.
Passed ==
  \A k \in 1..Len(pos) :
    /\ pos[k] \in 1..(Len(ListOf(k)) + 1)
    /\ \A j \in 1..(pos[k] - 1) :
         ListOf(k)[j] \in done \/ (k < Len(pos) /\ j = pos[k] - 1)

Apart ==
  /\ \A i, j \in 1..Len(path) : path[i] = path[j] => i = j
  /\ \A i \in 1..Len(path) : path[i] \notin done

\* The explored nodes depend on explored ones, and no part of them waits for
\* itself.
Explored ==
  /\ \A n \in done : Elements(up[n]) \subseteq done
  /\ \A S \in SUBSET done : S # {} => \E n \in S : Elements(up[n]) \cap S = {}

AllExplored ==
  verdict = "acyclic" => \A n \in Node : up[n] # <<>> => n \in done

IInv == /\ Input /\ Types /\ Reached /\ Passed /\ Apart /\ Explored
        /\ AllExplored /\ CycleIsReal

Step == [Next /\ UNCHANGED <<up, roots>>]_vars

-----------------------------------------------------------------------------
\* Cutting a sequence keeps the type, and the places, of what is left.
LEMMA Cut ==
  ASSUME NEW S, NEW seq \in Seq(S), NEW m \in Int, NEW n \in Int,
         1 <= m, m <= n + 1, n <= Len(seq)
  PROVE  /\ SubSeq(seq, m, n) \in Seq(S)
         /\ Len(SubSeq(seq, m, n)) = n - m + 1
         /\ \A i \in 1..(n - m + 1) : SubSeq(seq, m, n)[i] = seq[m + i - 1]
<1>1. \A i \in m..n : seq[i] \in S
  OBVIOUS
<1> QED
  BY <1>1, SubSeqProperties

\* The search starts with nothing explored in the loop over the roots.
LEMMA InitIInv == Input /\ Init => IInv
<1> SUFFICES ASSUME Input, Init PROVE IInv
  OBVIOUS
<1>1. Types /\ Reached /\ Apart /\ AllExplored /\ CycleIsReal
  BY DEF Init, Types, Reached, Apart, AllExplored, CycleIsReal
<1>2. Passed
  <2> SUFFICES ASSUME NEW k \in 1..Len(pos)
               PROVE  pos[k] \in 1..(Len(ListOf(k)) + 1) /\ pos[k] = 1
    BY DEF Passed
  <2>1. k = 1 /\ pos[k] = 1
    BY DEF Init
  <2> QED
    BY <2>1 DEF ListOf, Input
<1>3. Explored
  BY DEF Init, Explored
<1> QED
  BY <1>1, <1>2, <1>3 DEF IInv

\* The loop that runs is the one of the top frame, and what it has passed is
\* explored.
LEMMA TopFrame ==
  ASSUME Input, Types, Passed
  PROVE  /\ Depth \in Nat /\ Len(pos) = Depth + 1
         /\ Loop = ListOf(Depth + 1) /\ Here = pos[Depth + 1] /\ Loop \in Seq(Node)
         /\ Here \in Nat /\ Here >= 1 /\ Len(Loop) \in Nat
         /\ \A j \in 1..(Here - 1) : Loop[j] \in done
<1>1. Depth \in Nat /\ Len(pos) = Depth + 1 /\ Here = pos[Depth + 1] /\ Here \in Nat
  BY DEF Types, Depth, Here
<1>2. path = <<>> <=> Depth = 0
  BY DEF Types, Depth
<1>3. Loop = ListOf(Depth + 1)
  BY <1>1, <1>2 DEF Loop, ListOf
<1>4. Loop \in Seq(Node)
  <2>1. CASE path = <<>>
    BY <2>1 DEF Loop, Input
  <2>2. CASE path # <<>>
    <3>1. path[Depth] \in Node
      BY <1>1, <1>2, <2>2 DEF Types, Depth
    <3> QED
      BY <2>2, <3>1 DEF Loop, Input
  <2> QED
    BY <2>1, <2>2
<1>5. /\ Here \in 1..(Len(Loop) + 1)
      /\ \A j \in 1..(Here - 1) : Loop[j] \in done
  BY <1>1, <1>3 DEF Passed
<1> QED
  BY <1>1, <1>3, <1>4, <1>5

\* searchCycle: the path has no repeats, so it is no longer than the number of
\* nodes, and a call at any depth has fuel.
LEMMA FuelLasts ==
  ASSUME Input, Types, Apart
  PROVE  HasFuel
<1> DEFINE n == Len(path)
<1>1. path \in [1..n -> Node] /\ n \in Nat
  BY DEF Types
<1>2. path \in Injection(1..n, Node)
  BY <1>1 DEF Apart, Injection, IsInjective
<1>3. Cardinality(1..n) <= Cardinality(Node) /\ Cardinality(1..n) = n
  <2>1. IsFiniteSet(Node)
    BY DEF Input
  <2>2. \A S, T : IsFiniteSet(T) =>
          \A f \in Injection(S, T) : Cardinality(S) <= Cardinality(T)
    BY FS_Injection
  <2>3. ASSUME NEW m \in Nat PROVE Cardinality(1..m) = m
    <3>1. Cardinality(1..m) = IF 1 > m THEN 0 ELSE m - 1 + 1
      BY FS_Interval
    <3> QED
      BY <3>1
  <2> QED
    BY <1>1, <1>2, <2>1, <2>2, <2>3
<1>4. Cardinality(Node) \in Nat
  BY FS_CardinalityType DEF Input
<1>5. n \in 0..Cardinality(Node)
  BY <1>1, <1>3, <1>4
<1> QED
  BY <1>5 DEF HasFuel, Depth, Input

\* No step changes what the search is given.
LEMMA InputPreserved == Input /\ Step => Input'
BY DEF Input, Elements, Step, vars

\* Every step keeps every variable within its type.
LEMMA TypePreserved == IInv /\ Step => Types'
<1> SUFFICES ASSUME IInv, Step PROVE Types'
  OBVIOUS
<1>0. Input /\ Types /\ UNCHANGED <<up, roots>>
  BY DEF IInv, Step, vars
<1> USE DEF Types
<1>2. CASE Skip
  BY <1>0, <1>2 DEF Skip, Advanced, Here, Depth, Calling
<1>3. CASE Close
  <2>1. PICK start \in 1..Depth :
          path[start] = Callee /\ cycle' = Append(SubSeq(path, start, Depth), Callee)
    BY <1>3 DEF Close
  <2>2. Callee \in Node
    BY <1>0, <2>1 DEF Depth
  <2>3. SubSeq(path, start, Depth) \in Seq(Node)
    BY <1>0, <2>1, Cut DEF Depth
  <2>4. cycle' \in Seq(Node)
    BY <2>1, <2>2, <2>3
  <2> QED
    BY <1>0, <1>3, <2>4 DEF Close
<1>4. CASE Enter
  <2>1. Loop \in Seq(Node) /\ Here \in 1..Len(Loop) /\ Depth + 1 \in 1..Len(pos)
    BY <1>0, <1>4, TopFrame DEF IInv, Enter, Calling
  <2>2. Callee \in Node
    BY <2>1 DEF Callee
  <2> QED
    BY <1>0, <1>4, <2>2 DEF Enter, Advanced, Here, Depth
<1>5. CASE Return
  <2>1. Depth \in 1..Len(path) /\ path[Depth] \in Node /\ Len(pos) = Depth + 1
    BY <1>0, <1>5 DEF Return, Depth
  <2>2. /\ SubSeq(path, 1, Depth - 1) \in Seq(Node)
        /\ Len(SubSeq(path, 1, Depth - 1)) = Depth - 1
    BY <1>0, <2>1, Cut
  <2>3. SubSeq(pos, 1, Depth) \in Seq(Nat) /\ Len(SubSeq(pos, 1, Depth)) = Depth
    BY <1>0, <2>1, Cut
  <2> QED
    BY <1>0, <1>5, <2>1, <2>2, <2>3 DEF Return
<1>6. CASE Finish
  BY <1>0, <1>6 DEF Finish
<1>7. CASE UNCHANGED vars
  BY <1>0, <1>7 DEF vars
<1> QED
  BY <1>2, <1>3, <1>4, <1>5, <1>6, <1>7 DEF Next, Step

\* What the recursion stands on: a call is an edge the loop of its frame has
\* come to, and it leaves every other frame alone.
LEMMA FramesPreserved == IInv /\ Step => Reached' /\ Passed' /\ Apart'
<1> SUFFICES ASSUME IInv, Step PROVE Reached' /\ Passed' /\ Apart'
  OBVIOUS
<1>0. /\ Input /\ Types /\ Reached /\ Passed /\ Apart /\ Types' /\ Input'
      /\ UNCHANGED <<up, roots>>
  BY TypePreserved, InputPreserved DEF IInv, Step, vars
<1>1. ASSUME UNCHANGED <<path, pos, done>>
      PROVE  Reached' /\ Passed' /\ Apart'
  BY <1>0, <1>1 DEF ListOf, Reached, Passed, Apart
<1>2. ASSUME Close \/ Finish \/ UNCHANGED vars
      PROVE  UNCHANGED <<path, pos, done>>
  BY <1>2 DEF Close, Finish, vars
<1>3. CASE Skip
  <2>1. /\ pos' = [pos EXCEPT ![Depth + 1] = Here + 1]
        /\ UNCHANGED <<path, done>>
        /\ Here <= Len(Loop) /\ Callee \in done
    BY <1>0, <1>3, FuelLasts DEF Skip, Advanced, Calling
  <2>2. \A k : ListOf(k)' = ListOf(k)
    BY <1>0, <2>1 DEF ListOf
  <2>3. \A k \in 1..Depth : pos'[k] = pos[k]
    BY <1>0, <2>1, TopFrame DEF Types
  <2>4. pos'[Depth + 1] = Here + 1 /\ Len(pos') = Depth + 1
    BY <1>0, <2>1, TopFrame DEF Types
  <2>5. Reached'
    BY <1>0, <2>1, <2>2, <2>3, TopFrame DEF Reached, Depth
  <2>6. Apart'
    BY <1>0, <2>1 DEF Apart
  <2>7. Passed'
    <3> SUFFICES ASSUME NEW k \in 1..(Depth + 1)
                 PROVE  /\ pos'[k] \in 1..(Len(ListOf(k)) + 1)
                        /\ \A j \in 1..(pos'[k] - 1) :
                             \/ ListOf(k)[j] \in done
                             \/ k < Depth + 1 /\ j = pos'[k] - 1
      BY <2>1, <2>2, <2>4 DEF Passed
    <3>1. CASE k \in 1..Depth
      BY <1>0, <2>3, <3>1, TopFrame DEF Passed
    <3>2. CASE k = Depth + 1
      BY <1>0, <2>1, <2>4, <3>2, TopFrame DEF Callee
    <3> QED
      BY <1>0, <3>1, <3>2, TopFrame
  <2> QED
    BY <2>5, <2>6, <2>7
<1>4. CASE Enter
  <2>1. /\ path' = Append(path, Callee)
        /\ pos' = Append([pos EXCEPT ![Depth + 1] = Here + 1], 1)
        /\ done' = done /\ Here <= Len(Loop)
        /\ Callee \notin done /\ Callee \notin Elements(path)
    BY <1>4 DEF Enter, Advanced, Calling
  <2>2. /\ Len(path') = Depth + 1 /\ path'[Depth + 1] = Callee
        /\ \A i \in 1..Depth : path'[i] = path[i]
    BY <1>0, <2>1 DEF Types, Depth
  <2>3. /\ Len(pos') = Depth + 2 /\ pos'[Depth + 1] = Here + 1 /\ pos'[Depth + 2] = 1
        /\ \A k \in 1..Depth : pos'[k] = pos[k]
    <3> DEFINE moved == [pos EXCEPT ![Depth + 1] = Here + 1]
    <3>1. /\ moved \in Seq(Nat) /\ Len(moved) = Depth + 1
          /\ moved[Depth + 1] = Here + 1 /\ \A k \in 1..Depth : moved[k] = pos[k]
      <4>1. pos \in Seq(Nat)
        BY <1>0 DEF Types
      <4>2. /\ Len(pos) = Depth + 1 /\ Depth \in Nat
            /\ Depth + 1 \in 1..Len(pos) /\ Here + 1 \in Nat
        BY <1>0, TopFrame
      <4> QED
        BY <4>1, <4>2
    <3> HIDE DEF moved
    <3>2. pos' = Append(moved, 1)
      BY <2>1 DEF moved
    <3> QED
      BY <1>0, <3>1, <3>2, TopFrame
  <2>4. \A k \in 1..(Depth + 1) : ListOf(k)' = ListOf(k)
    BY <1>0, <2>1, <2>2, TopFrame DEF ListOf
  <2>5. ASSUME NEW k, k = Depth + 2 PROVE Len(ListOf(k)') \in Nat
    <3>1. k # 1 /\ k - 1 = Depth + 1
      BY <1>0, <2>5, TopFrame
    <3>2. ListOf(k)' = up'[path'[k - 1]]
      BY <3>1 DEF ListOf
    <3>3. path'[Depth + 1] \in Node
      BY <1>0, <2>2, TopFrame DEF Types
    <3> QED
      BY <1>0, <3>1, <3>2, <3>3 DEF Input
  <2>6. Reached'
    <3> SUFFICES ASSUME NEW k \in 1..(Depth + 1)
                 PROVE  /\ pos'[k] \in 2..(Len(ListOf(k)) + 1)
                        /\ ListOf(k)[pos'[k] - 1] = path'[k]
      BY <2>2, <2>4 DEF Reached
    <3>1. CASE k \in 1..Depth
      BY <1>0, <2>2, <2>3, <3>1 DEF Reached, Depth
    <3>2. CASE k = Depth + 1
      BY <1>0, <2>1, <2>2, <2>3, <3>2, TopFrame DEF Callee
    <3> QED
      BY <1>0, <3>1, <3>2, TopFrame
  <2>7. Apart'
    BY <1>0, <2>1, <2>2, TopFrame DEF Apart, Elements, Depth
  <2>8. Passed'
    <3> SUFFICES ASSUME NEW k \in 1..(Depth + 2)
                 PROVE  /\ pos'[k] \in 1..(Len(ListOf(k)') + 1)
                        /\ \A j \in 1..(pos'[k] - 1) :
                             \/ ListOf(k)'[j] \in done
                             \/ k < Depth + 2 /\ j = pos'[k] - 1
      BY <2>1, <2>3 DEF Passed
    <3>1. CASE k \in 1..Depth
      <4>1. k < Len(pos) /\ k \in 1..Len(pos) /\ k \in 1..(Depth + 1) /\ k < Depth + 2
        BY <1>0, <3>1, TopFrame
      <4> QED
        BY <1>0, <2>3, <2>4, <3>1, <4>1 DEF Passed
    <3>2. CASE k = Depth + 1
      BY <1>0, <2>1, <2>3, <2>4, <3>2, TopFrame
    <3>3. CASE k = Depth + 2
      BY <2>3, <2>5, <3>3
    <3> QED
      BY SMTT(60), <1>0, <3>1, <3>2, <3>3, TopFrame
  <2> QED
    BY <2>6, <2>7, <2>8
<1>5. CASE Return
  <2>1. /\ done' = done \cup {path[Depth]}
        /\ path' = SubSeq(path, 1, Depth - 1) /\ pos' = SubSeq(pos, 1, Depth)
        /\ path # <<>>
    BY <1>5 DEF Return
  <2>2. Depth \in Nat /\ Depth >= 1 /\ Len(pos) = Depth + 1 /\ path[Depth] \in Node
    BY <1>0, <2>1 DEF Types, Depth
  <2>3. Len(path') = Depth - 1 /\ \A i \in 1..(Depth - 1) : path'[i] = path[i]
    BY <1>0, <2>1, <2>2, Cut DEF Types, Depth
  <2>4. Len(pos') = Depth /\ \A k \in 1..Depth : pos'[k] = pos[k]
    BY <1>0, <2>1, <2>2, Cut DEF Types
  <2>5. \A k \in 1..Depth : ListOf(k)' = ListOf(k)
    BY <1>0, <2>2, <2>3 DEF ListOf
  <2>6. Reached'
    <3> SUFFICES ASSUME NEW k \in 1..(Depth - 1)
                 PROVE  /\ pos[k] \in 2..(Len(ListOf(k)) + 1)
                        /\ ListOf(k)[pos[k] - 1] = path[k]
      BY <2>2, <2>3, <2>4, <2>5 DEF Reached
    <3> QED
      BY <1>0, <2>2 DEF Reached, Depth
  <2>7. Apart'
    BY <1>0, <2>1, <2>2, <2>3 DEF Apart, Depth
  <2>8. Passed'
    <3> SUFFICES ASSUME NEW k \in 1..Depth, NEW j \in 1..(pos[k] - 1)
                 PROVE  \/ ListOf(k)[j] \in done \cup {path[Depth]}
                        \/ k < Depth /\ j = pos[k] - 1
      <4>1. \A k \in 1..Depth : pos[k] \in 1..(Len(ListOf(k)) + 1)
        BY <1>0, <2>2 DEF Passed
      <4> QED
        BY <2>1, <2>2, <2>4, <2>5, <4>1 DEF Passed
    <3>1. ListOf(k)[j] \in done \/ j = pos[k] - 1
      BY <1>0, <2>2 DEF Passed
    <3>2. ListOf(Depth)[pos[Depth] - 1] = path[Depth]
      BY <1>0, <2>2 DEF Reached, Depth
    <3> QED
      BY <2>2, <3>1, <3>2
  <2> QED
    BY <2>6, <2>7, <2>8
<1> QED
  BY <1>1, <1>2, <1>3, <1>4, <1>5 DEF Next, Step

\* A node is explored once everything it depends on is.
LEMMA ExploredPreserved == IInv /\ Step => Explored'
<1> SUFFICES ASSUME IInv, Step PROVE Explored'
  OBVIOUS
<1>0. Input /\ Types /\ Passed /\ Apart /\ Explored /\ UNCHANGED <<up, roots>>
  BY DEF IInv, Step, vars
<1>1. CASE Return
  <2> DEFINE x == path[Depth]
  <2>1. done' = done \cup {x} /\ path # <<>> /\ Here > Len(Loop)
    BY <1>1 DEF Return
  <2>2. Loop = up[x] /\ Depth \in 1..Len(path)
    BY <1>0, <2>1 DEF Types, Loop, Depth
  <2>3. x \notin done
    BY <1>0, <2>2 DEF Apart
  <2>4. Elements(up[x]) \subseteq done
    <3> SUFFICES ASSUME NEW j \in 1..Len(Loop) PROVE Loop[j] \in done
      BY <2>2 DEF Elements
    <3>1. j \in 1..(Here - 1)
      BY <1>0, <2>1, TopFrame
    <3> QED
      BY <1>0, <3>1, TopFrame
  <2> HIDE DEF x
  <2>5. \A n \in done : Elements(up[n]) \subseteq done
    BY <1>0 DEF Explored
  <2>6. ASSUME NEW S \in SUBSET (done \cup {x}), S # {}
        PROVE  \E n \in S : Elements(up[n]) \cap S = {}
    <3>1. CASE S \ {x} = {}
      BY <2>3, <2>4, <2>6, <3>1
    <3>2. CASE S \ {x} # {}
      <4>1. S \ {x} \in SUBSET done
        BY <2>6
      <4>2. PICK n \in S \ {x} : Elements(up[n]) \cap (S \ {x}) = {}
        BY <1>0, <3>2, <4>1 DEF Explored
      <4>3. n \in done /\ Elements(up[n]) \subseteq done
        BY <2>5, <4>1
      <4> QED
        BY <2>3, <4>2, <4>3
    <3> QED
      BY <3>1, <3>2
  <2>7. \A n : Elements(up[n])' = Elements(up[n])
    BY <1>0 DEF Elements
  <2>8. \A n \in done' : Elements(up'[n]) \subseteq done'
    BY <1>0, <2>1, <2>4, <2>5
  <2>9. \A S \in SUBSET done' : S # {} => \E n \in S : Elements(up'[n]) \cap S = {}
    BY <1>0, <2>1, <2>6
  <2> QED
    BY <2>7, <2>8, <2>9 DEF Explored, Elements
<1>2. CASE (Next /\ ~Return) \/ UNCHANGED vars
  <2>1. done' = done
    BY <1>2 DEF Next, Skip, Close, Enter, Finish, vars
  <2> QED
    BY <1>0, <2>1 DEF Explored, Elements
<1> QED
  BY <1>1, <1>2 DEF Step

\* When the loop over the roots ends all of them are explored.
LEMMA AllExploredPreserved == IInv /\ Step => AllExplored'
<1> SUFFICES ASSUME IInv, Step PROVE AllExplored'
  OBVIOUS
<1>0. Input /\ Types /\ Passed /\ AllExplored /\ UNCHANGED <<up, roots>>
  BY DEF IInv, Step, vars
<1>1. CASE Finish
  <2>1. path = <<>> /\ Here > Len(Loop) /\ done' = done
    BY <1>1 DEF Finish
  <2>2. Loop = roots
    BY <2>1 DEF Loop
  <2>3. Elements(roots) \subseteq done
    <3> SUFFICES ASSUME NEW j \in 1..Len(Loop) PROVE Loop[j] \in done
      BY <2>2 DEF Elements
    <3>1. j \in 1..(Here - 1)
      BY <1>0, <2>1, TopFrame
    <3> QED
      BY <1>0, <3>1, TopFrame
  <2> QED
    BY <1>0, <2>1, <2>3 DEF AllExplored, Input
<1>2. CASE (Next /\ ~Finish) \/ UNCHANGED vars
  <2>1. verdict' = "acyclic" => verdict = "acyclic" /\ done' = done
    BY <1>2 DEF Next, Skip, Close, Enter, Return, vars
  <2> QED
    BY <1>0, <2>1 DEF AllExplored
<1> QED
  BY <1>1, <1>2 DEF Step

\* The cycle runs along the frames from the node met again to the top.
LEMMA CyclePreserved == IInv /\ Step => CycleIsReal'
<1> SUFFICES ASSUME IInv, Step PROVE CycleIsReal'
  OBVIOUS
<1>0. Input /\ Types /\ Reached /\ Passed /\ CycleIsReal /\ UNCHANGED <<up, roots>>
  BY DEF IInv, Step, vars
<1>1. CASE Close
  <2>1. PICK start \in 1..Depth :
          path[start] = Callee /\ cycle' = Append(SubSeq(path, start, Depth), Callee)
    BY <1>1 DEF Close
  <2>2. Here <= Len(Loop) /\ Callee = Loop[Here]
    BY <1>1 DEF Close, Calling, Callee
  <2>3. /\ Depth \in Nat /\ start \in Nat /\ start >= 1 /\ start <= Depth
        /\ Callee \in Node /\ \A i \in 1..Depth : path[i] \in Node
    <3>1. Depth \in Nat /\ \A i \in 1..Depth : path[i] \in Node
      BY <1>0 DEF Types, Depth
    <3> QED
      BY <2>1, <3>1
  <2>4. Callee \in Elements(up[path[Depth]])
    <3>1. Loop = up[path[Depth]] /\ Here \in 1..Len(Loop)
      BY <1>0, <2>2, <2>3, TopFrame DEF Loop, Depth
    <3> QED
      BY <2>2, <3>1 DEF Elements
  <2>5. ASSUME NEW k \in 2..Depth PROVE path[k] \in Elements(up[path[k - 1]])
    <3>1. /\ pos[k] \in 2..(Len(ListOf(k)) + 1) /\ ListOf(k)[pos[k] - 1] = path[k]
          /\ ListOf(k) = up[path[k - 1]] /\ path[k - 1] \in Node
      BY <1>0, <2>3 DEF Reached, Depth, ListOf
    <3>2. Len(ListOf(k)) \in Nat
      BY <1>0, <3>1 DEF Input
    <3>3. pos[k] - 1 \in 1..Len(ListOf(k))
      BY <3>1, <3>2
    <3> QED
      BY <3>1, <3>3 DEF Elements
  <2> DEFINE n == Depth - start + 1
  <2>6. /\ n \in Nat /\ n >= 1 /\ Len(cycle') = n + 1 /\ cycle'[n + 1] = Callee
        /\ \A i \in 1..n : cycle'[i] = path[start + i - 1]
    <3>1. /\ SubSeq(path, start, Depth) \in Seq(Node)
          /\ Len(SubSeq(path, start, Depth)) = n
          /\ \A i \in 1..n : SubSeq(path, start, Depth)[i] = path[start + i - 1]
      BY <1>0, <2>3, Cut DEF Types, Depth
    <3>2. n \in Nat /\ n >= 1
      BY <2>3
    <3> QED
      BY <2>1, <2>3, <3>1, <3>2
  <2> HIDE DEF n
  <2>7. Len(cycle') >= 2 /\ cycle'[1] = cycle'[Len(cycle')]
    BY <2>1, <2>3, <2>6
  <2>8. \A i \in 1..n : cycle'[i + 1] \in Elements(up[cycle'[i]])
    <3> TAKE i \in 1..n
    <3>1. CASE i < n
      <4>1. cycle'[i] = path[start + i - 1] /\ cycle'[i + 1] = path[start + i]
        BY <2>3, <2>6, <3>1
      <4>2. start + i \in 2..Depth
        BY <2>3, <2>6, <3>1 DEF n
      <4> QED
        BY <2>3, <2>5, <4>1, <4>2
    <3>2. CASE i = n
      BY <2>3, <2>4, <2>6, <3>2 DEF n
    <3> QED
      BY <2>6, <3>1, <3>2
  <2>9. Len(cycle') - 1 = n
    BY <2>6
  <2> QED
    BY <1>0, <2>7, <2>8, <2>9 DEF CycleIsReal, Elements
<1>2. CASE (Next /\ ~Close) \/ UNCHANGED vars
  <2>1. cycle' = cycle /\ (verdict' = "cycle" => verdict = "cycle")
    BY <1>2 DEF Next, Skip, Enter, Return, Finish, vars
  <2> QED
    BY <1>0, <2>1 DEF CycleIsReal, Elements
<1> QED
  BY <1>1, <1>2 DEF Step

\* The invariant is inductive.
LEMMA Inductive == IInv /\ Step => IInv'
BY InputPreserved, TypePreserved, FramesPreserved, ExploredPreserved,
   AllExploredPreserved, CyclePreserved DEF IInv

\* A closed chain of dependencies is a part of the graph that waits for itself,
\* and an explored graph has no such part.
LEMMA InvariantDecides == IInv => VerdictIsRight
<1> SUFFICES ASSUME IInv PROVE VerdictIsRight
  OBVIOUS
<1>1. ASSUME verdict = "cycle" PROVE Cyclic
  <2>1. /\ cycle \in Seq(Node) /\ Len(cycle) >= 2 /\ cycle[1] = cycle[Len(cycle)]
        /\ \A i \in 1..(Len(cycle) - 1) : cycle[i + 1] \in Elements(up[cycle[i]])
    BY <1>1 DEF IInv, Types, CycleIsReal
  <2>2. Len(cycle) \in Nat /\ \A i \in 1..Len(cycle) : cycle[i] \in Node
    BY <2>1
  <2>3. \A i \in 1..Len(cycle) : cycle[i] \in Elements(cycle)
    BY DEF Elements
  <2>4. Elements(cycle) \in SUBSET Node /\ Elements(cycle) # {}
    BY <2>1, <2>2, <2>3 DEF Elements
  <2>5. ASSUME NEW n \in Elements(cycle) PROVE Elements(up[n]) \cap Elements(cycle) # {}
    <3>1. PICK i \in 1..(Len(cycle) - 1) : cycle[i] = n
      <4>1. PICK j \in 1..Len(cycle) : cycle[j] = n
        BY <2>5 DEF Elements
      <4> QED
        BY <2>1, <2>2, <4>1
    <3>2. i + 1 \in 1..Len(cycle)
      BY <2>2
    <3> QED
      BY <2>1, <2>3, <3>1, <3>2
  <2> QED
    BY <2>4, <2>5 DEF Cyclic
<1>2. ASSUME verdict = "acyclic", Cyclic PROVE FALSE
  <2>1. PICK S \in SUBSET Node : S # {} /\ \A n \in S : Elements(up[n]) \cap S # {}
    BY <1>2 DEF Cyclic
  <2>2. ASSUME NEW n \in S PROVE n \in done
    <3>1. up[n] # <<>>
      BY <2>1 DEF Elements
    <3> QED
      BY <1>2, <3>1 DEF IInv, AllExplored
  <2> QED
    BY <2>1, <2>2 DEF IInv, Explored
<1> QED
  BY <1>1, <1>2 DEF VerdictIsRight

-----------------------------------------------------------------------------
\* The invariant holds in every state of a search that is given what it needs.
THEOREM Invariance == Input /\ Spec => []IInv
<1>1. IInv /\ [Next /\ UNCHANGED <<up, roots>>]_vars => IInv'
  BY Inductive DEF Step
<1> QED
  BY InitIInv, <1>1, PTL DEF Spec

\* find_cycle: the search finds a cycle exactly when the dependencies have one.
THEOREM SearchDecides == Input /\ Spec => []VerdictIsRight
BY Invariance, InvariantDecides, PTL

\* search_cycle: the cycle it names is a closed chain of dependencies.
THEOREM NamedCycleIsReal == Input /\ Spec => []CycleIsReal
<1>1. IInv => CycleIsReal
  BY DEF IInv
<1> QED
  BY Invariance, <1>1, PTL

\* searchCycle: with fuel at every depth up to the number of nodes no call is
\* ever without.
THEOREM FuelLastsForever == Input /\ Spec => []FuelNeverRunsOut
<1>1. IInv => FuelNeverRunsOut
  BY FuelLasts DEF IInv, FuelNeverRunsOut
<1> QED
  BY Invariance, <1>1, PTL
=============================================================================
