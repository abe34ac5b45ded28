-------------------------- MODULE StackOrderProofs --------------------------
(***************************************************************************)
(* What StackOrder keeps true for every set of stacks and every list of    *)
(* references.  The invariant describes the frames of the recursion: each  *)
(* one stands at the reference that opened the frame above it, and every   *)
(* reference it has passed before that is in the order already.            *)
(***************************************************************************)
EXTENDS StackOrder, SequenceTheorems, TLAPS

\* The list the loop of frame k runs over.
ListOf(k) == IF k = 1 THEN Keys ELSE refs[path[k - 1]]

\* Each open stack was reached through the reference its caller stands at.
Reached ==
  \A k \in 1..Len(path) :
    pos[k] \in 2..(Len(ListOf(k)) + 1) /\ ListOf(k)[pos[k] - 1] = path[k]

\* What a loop has passed is in the order, or is the stack being visited.
Passed ==
  \A k \in 1..Len(pos) :
    /\ pos[k] \in 1..(Len(ListOf(k)) + 1)
    /\ \A j \in 1..(pos[k] - 1) :
         ListOf(k)[j] \in Stack =>
           ListOf(k)[j] \in Elements(order) \/ (k < Len(pos) /\ j = pos[k] - 1)

Apart ==
  /\ \A i, j \in 1..Len(path) : path[i] = path[j] => i = j
  /\ \A i \in 1..Len(path) : path[i] \notin Elements(order)

Phases ==
  /\ outcome \in {"building", "notBuilt"} => order = <<>>
  /\ outcome = "building" => path = <<>>
  /\ \A i \in 1..built : ReferencesAllowed(Keys[i])
  /\ outcome \in {"ordering", "cycle", "ordered"} => built = Len(Keys)

IInv == /\ TypeOK /\ Phases /\ Reached /\ Passed /\ Apart
        /\ Deployable /\ CycleIsReal

-----------------------------------------------------------------------------
\* Cutting a sequence keeps the type, and the places, of what is left.
LEMMA Cut ==
  ASSUME NEW S, NEW seq \in Seq(S), NEW m \in Int, NEW n \in Int,
         1 <= m, m <= n + 1, n <= Len(seq)
  PROVE  /\ SubSeq(seq, m, n) \in Seq(S)
         /\ Len(SubSeq(seq, m, n)) = n - m + 1
         /\ \A i \in 1..(n - m + 1) : SubSeq(seq, m, n)[i] = seq[m + i - 1]
<1>1. \A i \in m..n : seq[i] \in S
  OBVIOUS
<1> QED
  BY <1>1, SubSeqProperties

\* Appending adds one element.
LEMMA ElementsAppend ==
  ASSUME NEW S, NEW seq \in Seq(S), NEW x \in S
  PROVE  Elements(Append(seq, x)) = Elements(seq) \cup {x}
<1>1. /\ Len(Append(seq, x)) = Len(seq) + 1 /\ Append(seq, x)[Len(seq) + 1] = x
      /\ \A i \in 1..Len(seq) : Append(seq, x)[i] = seq[i]
  OBVIOUS
<1>2. Len(seq) \in Nat
  OBVIOUS
<1> QED
  BY <1>1, <1>2 DEF Elements

\* Nothing is visited yet, and the only frame is the loop over the keys.
LEMMA InitIInv == Init => IInv
<1> SUFFICES ASSUME Init PROVE IInv
  OBVIOUS
<1>1. TypeOK
  <2>1. refs \in [Stack -> Seq(Name)]
    BY RefListsAssumption, Zenon DEF Init
  <2> QED
    BY <2>1, KeysAssumption DEF Init, TypeOK
<1>2. Phases
  BY DEF Init, Phases
<1>3. Reached /\ Apart
  BY DEF Init, Reached, Apart
<1>4. Passed
  <2> SUFFICES ASSUME NEW k \in 1..Len(pos)
               PROVE  pos[k] \in 1..(Len(ListOf(k)) + 1) /\ pos[k] = 1
    BY DEF Passed
  <2>1. k = 1 /\ pos[k] = 1
    BY DEF Init
  <2> QED
    BY <2>1, KeysAssumption DEF ListOf
<1>5. Deployable /\ CycleIsReal
  BY DEF Init, Deployable, CycleIsReal
<1> QED
  BY <1>1, <1>2, <1>3, <1>4, <1>5 DEF IInv

\* Every step keeps every variable within its type.
LEMMA TypePreserved == IInv /\ [Next]_vars => TypeOK'
<1> SUFFICES ASSUME IInv, [Next]_vars PROVE TypeOK'
  OBVIOUS
<1>0. TypeOK
  BY DEF IInv
<1> USE DEF TypeOK
<1>1. CASE Build
  BY <1>0, <1>1 DEF Build
<1>2. CASE StartOrder
  BY <1>0, <1>2 DEF StartOrder
<1>3. CASE Skip
  BY <1>0, <1>3 DEF Skip, Advanced, Here, Depth, Calling
<1>4. CASE Close
  <2>1. PICK start \in 1..Depth :
          path[start] = Callee /\ cycle' = Append(SubSeq(path, start, Depth), Callee)
    BY <1>4 DEF Close
  <2>2. Callee \in Stack
    BY SMTT(60), <1>0, <2>1 DEF Depth
  <2>3. SubSeq(path, start, Depth) \in Seq(Stack)
    BY <1>0, <2>1, Cut DEF Depth
  <2>4. cycle' \in Seq(Stack)
    BY <2>1, <2>2, <2>3
  <2> QED
    BY <1>0, <1>4, <2>4 DEF Close
<1>5. CASE Enter
  BY <1>0, <1>5 DEF Enter, Advanced, Here, Depth
<1>6. CASE Return
  <2>1. Depth \in 1..Len(path) /\ path[Depth] \in Stack /\ Len(pos) = Depth + 1
    BY <1>0, <1>6 DEF Return, Depth
  <2>2. /\ SubSeq(path, 1, Depth - 1) \in Seq(Stack)
        /\ Len(SubSeq(path, 1, Depth - 1)) = Depth - 1
    BY <1>0, <2>1, Cut
  <2>3. SubSeq(pos, 1, Depth) \in Seq(Nat) /\ Len(SubSeq(pos, 1, Depth)) = Depth
    BY <1>0, <2>1, Cut
  <2> QED
    BY SMTT(60), <1>0, <1>6, <2>1, <2>2, <2>3 DEF Return
<1>7. CASE Announce
  BY <1>0, <1>7 DEF Announce
<1>8. CASE UNCHANGED vars
  BY <1>0, <1>8 DEF vars
<1> QED
  BY <1>1, <1>2, <1>3, <1>4, <1>5, <1>6, <1>7, <1>8 DEF Next

\* The loop that runs is the one of the top frame.
LEMMA TopFrame ==
  ASSUME TypeOK, Passed
  PROVE  /\ Depth \in Nat /\ Len(pos) = Depth + 1
         /\ Loop = ListOf(Depth + 1) /\ Here = pos[Depth + 1]
         /\ Here \in Nat /\ Here >= 1 /\ Len(Loop) \in Nat
         /\ \A j \in 1..(Here - 1) : Loop[j] \in Stack => Loop[j] \in Elements(order)
<1>1. Depth \in Nat /\ Len(pos) = Depth + 1 /\ Here = pos[Depth + 1] /\ Here \in Nat
  BY DEF TypeOK, Depth, Here
<1>2. path = <<>> <=> Depth = 0
  BY DEF TypeOK, Depth
<1>3. Loop = ListOf(Depth + 1)
  BY <1>1, <1>2 DEF Loop, ListOf
<1>4. Len(Loop) \in Nat
  <2>1. CASE path = <<>>
    BY <2>1, KeysAssumption DEF Loop
  <2>2. CASE path # <<>>
    <3>1. path[Depth] \in Stack
      BY <1>1, <1>2, <2>2 DEF TypeOK, Depth
    <3> QED
      BY <2>2, <3>1 DEF Loop, TypeOK
  <2> QED
    BY <2>1, <2>2
<1>5. /\ Here \in 1..(Len(Loop) + 1)
      /\ \A j \in 1..(Here - 1) : Loop[j] \in Stack => Loop[j] \in Elements(order)
  BY <1>1, <1>3 DEF Passed
<1> QED
  BY <1>1, <1>3, <1>4, <1>5

\* What the recursion stands on: a call is a reference the loop of its frame
\* has come to, and it leaves every other frame alone.
LEMMA FramesPreserved == IInv /\ [Next]_vars => Reached' /\ Passed' /\ Apart'
<1> SUFFICES ASSUME IInv, [Next]_vars PROVE Reached' /\ Passed' /\ Apart'
  OBVIOUS
<1>0. TypeOK /\ Reached /\ Passed /\ Apart /\ TypeOK'
  BY TypePreserved DEF IInv
<1>1. ASSUME UNCHANGED <<refs, path, pos, order>>
      PROVE  Reached' /\ Passed' /\ Apart'
  <2>1. \A k : ListOf(k)' = ListOf(k)
    BY <1>1 DEF ListOf
  <2>2. Reached'
    BY <1>0, <1>1, <2>1 DEF Reached
  <2>3. Passed'
    BY <1>0, <1>1, <2>1 DEF Passed, Elements
  <2>4. Apart'
    BY <1>0, <1>1 DEF Apart, Elements
  <2> QED
    BY <2>2, <2>3, <2>4
<1>2. ASSUME Build \/ StartOrder \/ Close \/ Announce \/ UNCHANGED vars
      PROVE  UNCHANGED <<refs, path, pos, order>>
  BY <1>2 DEF Build, StartOrder, Close, Announce, vars
<1>3. CASE Skip
  <2>1. /\ pos' = [pos EXCEPT ![Depth + 1] = Here + 1]
        /\ UNCHANGED <<refs, path, order>>
        /\ Here <= Len(Loop) /\ (Callee \in Elements(order) \/ Callee \notin Stack)
    BY <1>3 DEF Skip, Advanced, Calling
  <2>2. \A k : ListOf(k)' = ListOf(k)
    BY <2>1 DEF ListOf
  <2>3. \A k \in 1..Depth : pos'[k] = pos[k]
    BY SMTT(60), <1>0, <2>1, TopFrame DEF TypeOK
  <2>4. pos'[Depth + 1] = Here + 1 /\ Len(pos') = Depth + 1
    BY <1>0, <2>1, TopFrame DEF TypeOK
  <2>5. Reached'
    BY <1>0, <2>1, <2>2, <2>3, TopFrame DEF Reached, Depth
  <2>6. Apart'
    BY <1>0, <2>1 DEF Apart, Elements
  <2>7. Passed'
    <3> SUFFICES ASSUME NEW k \in 1..(Depth + 1)
                 PROVE  /\ pos'[k] \in 1..(Len(ListOf(k)) + 1)
                        /\ \A j \in 1..(pos'[k] - 1) :
                             ListOf(k)[j] \in Stack =>
                               \/ ListOf(k)[j] \in Elements(order)
                               \/ k < Depth + 1 /\ j = pos'[k] - 1
      BY <2>1, <2>2, <2>4 DEF Passed, Elements
    <3>1. CASE k \in 1..Depth
      BY <1>0, <2>3, <3>1, TopFrame DEF Passed
    <3>2. CASE k = Depth + 1
      BY <1>0, <2>1, <2>4, <3>2, TopFrame DEF Callee
    <3> QED
      BY <1>0, <3>1, <3>2, TopFrame
  <2> QED
    BY <2>5, <2>6, <2>7
<1>4. CASE Enter
  <2>1. /\ path' = Append(path, Callee)
        /\ pos' = Append([pos EXCEPT ![Depth + 1] = Here + 1], 1)
        /\ UNCHANGED <<refs, order>>
        /\ Here <= Len(Loop)
        /\ Callee \in Stack /\ Callee \notin Elements(order) /\ Callee \notin Open
    BY <1>4 DEF Enter, Advanced, Calling
  <2>2. /\ Len(path') = Depth + 1 /\ path'[Depth + 1] = Callee
        /\ \A i \in 1..Depth : path'[i] = path[i]
    BY <1>0, <2>1 DEF TypeOK, Depth
  <2>3. /\ Len(pos') = Depth + 2 /\ pos'[Depth + 1] = Here + 1 /\ pos'[Depth + 2] = 1
        /\ \A k \in 1..Depth : pos'[k] = pos[k]
    <3> DEFINE moved == [pos EXCEPT ![Depth + 1] = Here + 1]
    <3>1. /\ moved \in Seq(Nat) /\ Len(moved) = Depth + 1
          /\ moved[Depth + 1] = Here + 1 /\ \A k \in 1..Depth : moved[k] = pos[k]
      <4>1. pos \in Seq(Nat)
        BY <1>0 DEF TypeOK
      <4>2. /\ Len(pos) = Depth + 1 /\ Depth \in Nat
            /\ Depth + 1 \in 1..Len(pos) /\ Here + 1 \in Nat
        BY <1>0, TopFrame
      <4> QED
        BY <4>1, <4>2
    <3> HIDE DEF moved
    <3>2. pos' = Append(moved, 1)
      BY <2>1 DEF moved
    <3> QED
      BY <1>0, <3>1, <3>2, TopFrame
  <2>4. \A k \in 1..(Depth + 1) : ListOf(k)' = ListOf(k)
    BY <1>0, <2>1, <2>2, TopFrame DEF ListOf
  <2>5. ASSUME NEW k, k = Depth + 2 PROVE Len(ListOf(k)') \in Nat
    <3>1. k # 1 /\ k - 1 = Depth + 1
      BY <1>0, <2>5, TopFrame
    <3>2. ListOf(k)' = refs'[path'[k - 1]]
      BY <3>1 DEF ListOf
    <3> QED
      BY <1>0, <2>1, <2>2, <3>1, <3>2 DEF TypeOK
  <2>6. Reached'
    <3> SUFFICES ASSUME NEW k \in 1..(Depth + 1)
                 PROVE  /\ pos'[k] \in 2..(Len(ListOf(k)) + 1)
                        /\ ListOf(k)[pos'[k] - 1] = path'[k]
      BY <2>2, <2>4 DEF Reached
    <3>1. CASE k \in 1..Depth
      BY <1>0, <2>2, <2>3, <3>1 DEF Reached, Depth
    <3>2. CASE k = Depth + 1
      BY <1>0, <2>1, <2>2, <2>3, <3>2, TopFrame DEF Callee
    <3> QED
      BY <1>0, <3>1, <3>2, TopFrame
  <2>7. Apart'
    BY <1>0, <2>1, <2>2, TopFrame DEF Apart, Elements, Open, Depth
  <2>8. Passed'
    <3> SUFFICES ASSUME NEW k \in 1..(Depth + 2)
                 PROVE  /\ pos'[k] \in 1..(Len(ListOf(k)') + 1)
                        /\ \A j \in 1..(pos'[k] - 1) :
                             ListOf(k)'[j] \in Stack =>
                               \/ ListOf(k)'[j] \in Elements(order)
                               \/ k < Depth + 2 /\ j = pos'[k] - 1
      <4>1. Elements(order)' = Elements(order)
        BY <2>1 DEF Elements
      <4> QED
        BY <2>3, <4>1 DEF Passed
    <3>1. CASE k \in 1..Depth
      <4>1. k < Len(pos) /\ k \in 1..Len(pos) /\ k \in 1..(Depth + 1) /\ k < Depth + 2
        BY <1>0, <3>1, TopFrame
      <4> QED
        BY <1>0, <2>3, <2>4, <3>1, <4>1 DEF Passed
    <3>2. CASE k = Depth + 1
      BY <1>0, <2>1, <2>3, <2>4, <3>2, TopFrame
    <3>3. CASE k = Depth + 2
      BY <2>3, <2>5, <3>3
    <3> QED
      BY <1>0, <3>1, <3>2, <3>3, TopFrame
  <2> QED
    BY <2>6, <2>7, <2>8
<1>5. CASE Return
  <2>1. /\ order' = Append(order, path[Depth])
        /\ path' = SubSeq(path, 1, Depth - 1) /\ pos' = SubSeq(pos, 1, Depth)
        /\ UNCHANGED refs /\ path # <<>>
    BY <1>5 DEF Return
  <2>2. Depth \in Nat /\ Depth >= 1 /\ Len(pos) = Depth + 1 /\ path[Depth] \in Stack
    BY <1>0, <2>1 DEF TypeOK, Depth
  <2>3. Elements(order') = Elements(order) \cup {path[Depth]}
    BY SMTT(60), <1>0, <2>1, <2>2, ElementsAppend DEF TypeOK
  <2>4. Len(path') = Depth - 1 /\ \A i \in 1..(Depth - 1) : path'[i] = path[i]
    BY <1>0, <2>1, <2>2, Cut DEF TypeOK, Depth
  <2>5. Len(pos') = Depth /\ \A k \in 1..Depth : pos'[k] = pos[k]
    BY <1>0, <2>1, <2>2, Cut DEF TypeOK
  <2>6. \A k \in 1..Depth : ListOf(k)' = ListOf(k)
    BY <2>1, <2>2, <2>4 DEF ListOf
  <2>7. Reached'
    <3> SUFFICES ASSUME NEW k \in 1..(Depth - 1)
                 PROVE  /\ pos[k] \in 2..(Len(ListOf(k)) + 1)
                        /\ ListOf(k)[pos[k] - 1] = path[k]
      BY <2>2, <2>4, <2>5, <2>6 DEF Reached
    <3> QED
      BY <1>0, <2>2 DEF Reached, Depth
  <2>8. Apart'
    <3>1. Elements(order)' = Elements(order) \cup {path[Depth]}
      BY <2>3 DEF Elements
    <3> QED
      BY <1>0, <2>2, <2>4, <3>1 DEF Apart, Depth
  <2>9. Passed'
    <3> SUFFICES ASSUME NEW k \in 1..Depth, NEW j \in 1..(pos[k] - 1),
                        ListOf(k)[j] \in Stack
                 PROVE  \/ ListOf(k)[j] \in Elements(order) \cup {path[Depth]}
                        \/ k < Depth /\ j = pos[k] - 1
      <4>1. \A k \in 1..Depth : pos[k] \in 1..(Len(ListOf(k)) + 1)
        BY <1>0, <2>2 DEF Passed
      <4> QED
        BY <2>2, <2>3, <2>5, <2>6, <4>1 DEF Passed, Elements
    <3>1. ListOf(k)[j] \in Elements(order) \/ j = pos[k] - 1
      BY <1>0, <2>2 DEF Passed
    <3>2. ListOf(Depth)[pos[Depth] - 1] = path[Depth]
      BY <1>0, <2>2 DEF Reached, Depth
    <3> QED
      BY <2>2, <3>1, <3>2
  <2> QED
    BY <2>7, <2>8, <2>9
<1> QED
  BY <1>1, <1>2, <1>3, <1>4, <1>5 DEF Next

\* Orders only what was built, and nothing before everything was.
LEMMA PhasesPreserved == IInv /\ [Next]_vars => Phases'
<1> SUFFICES ASSUME IInv, [Next]_vars PROVE Phases'
  OBVIOUS
<1>0. TypeOK /\ Phases /\ Len(Keys) \in Nat
  BY KeysAssumption DEF IInv
<1>1. CASE Build
  <2>1. refs' = refs /\ path' = path /\ order' = order /\ built \in Nat
    BY <1>0, <1>1 DEF Build, TypeOK
  <2>2. \A s : ReferencesAllowed(s)' = ReferencesAllowed(s)
    BY <2>1 DEF ReferencesAllowed, Elements
  <2>3. \A i \in 1..built' : ReferencesAllowed(Keys[i])
    BY <1>0, <1>1, <2>1 DEF Build, Phases
  <2> QED
    BY <1>0, <1>1, <2>1, <2>2, <2>3 DEF Build, Phases
<1>2. CASE (Next /\ ~Build) \/ UNCHANGED vars
  <2>1. refs' = refs /\ built' = built
    BY <1>2 DEF Next, StartOrder, Skip, Close, Enter, Return, Announce, vars
  <2>2. \A s : ReferencesAllowed(s)' = ReferencesAllowed(s)
    BY <2>1 DEF ReferencesAllowed, Elements
  <2> QED
    BY <1>0, <1>2, <2>1, <2>2
    DEF Phases, Next, StartOrder, Skip, Close, Enter, Return, Announce, vars, Calling
<1> QED
  BY <1>1, <1>2

\* The order grows by one stack, after the stacks it reads.
LEMMA OrderPreserved == IInv /\ [Next]_vars => Deployable'
<1> SUFFICES ASSUME IInv, [Next]_vars PROVE Deployable'
  OBVIOUS
<1>0. TypeOK /\ Passed /\ Apart /\ Deployable
  BY DEF IInv
<1>1. CASE Return
  <2>1. /\ order' = Append(order, path[Depth]) /\ UNCHANGED refs
        /\ outcome' = "ordering" /\ path # <<>> /\ Here > Len(Loop)
    BY <1>1 DEF Return
  <2>2. Depth \in Nat /\ Depth >= 1 /\ path[Depth] \in Stack /\ Loop = refs[path[Depth]]
    BY <1>0, <2>1 DEF TypeOK, Depth, Loop
  <2>3. \A r \in Elements(refs[path[Depth]]) \cap Stack : r \in Elements(order)
    <3> TAKE r \in Elements(refs[path[Depth]]) \cap Stack
    <3>1. PICK j \in 1..Len(Loop) : r = Loop[j]
      BY <2>2 DEF Elements
    <3>2. j \in 1..(Here - 1)
      BY <1>0, <2>1, TopFrame
    <3> QED
      BY <1>0, <3>1, <3>2, TopFrame
  <2>4. path[Depth] \notin Elements(order)
    BY <1>0, <2>2 DEF Apart, Depth
  <2>5. /\ Len(order) \in Nat /\ Len(order') = Len(order) + 1
        /\ order'[Len(order) + 1] = path[Depth]
        /\ \A i \in 1..Len(order) : order'[i] = order[i]
    BY <1>0, <2>1, <2>2 DEF TypeOK
  <2> SUFFICES ASSUME NEW i \in 1..(Len(order) + 1)
               PROVE  /\ \A r \in Elements(refs'[order'[i]]) \cap Stack :
                           \E j \in 1..(i - 1) : order'[j] = r
                      /\ \A j \in 1..(i - 1) : order'[j] # order'[i]
    BY <2>1, <2>5 DEF Deployable
  <2>6. CASE i \in 1..Len(order)
    BY <1>0, <2>1, <2>5, <2>6 DEF Deployable
  <2>7. CASE i = Len(order) + 1
    BY <2>1, <2>3, <2>4, <2>5, <2>7 DEF Elements
  <2> QED
    BY <2>5, <2>6, <2>7
<1>2. CASE Announce
  <2>1. path = <<>> /\ Here > Len(Loop) /\ UNCHANGED <<refs, order>>
    BY <1>2 DEF Announce
  <2>2. Loop = Keys
    BY <2>1 DEF Loop
  <2>3. Stack \subseteq Elements(order)
    BY <1>0, <2>1, <2>2, TopFrame, KeysAssumption
  <2>4. Elements(order) \subseteq Stack
    BY <1>0 DEF TypeOK, Elements
  <2> QED
    BY <1>0, <2>1, <2>3, <2>4 DEF Deployable, Elements
<1>3. CASE (Next /\ ~Return /\ ~Announce) \/ UNCHANGED vars
  <2>1. UNCHANGED <<refs, order>> /\ (outcome' = "ordered" => outcome = "ordered")
    BY <1>3 DEF Next, Build, StartOrder, Skip, Close, Enter, vars
  <2> QED
    BY <1>0, <2>1 DEF Deployable, Elements
<1> QED
  BY <1>1, <1>2, <1>3

\* The chain runs along the frames from the stack met again to the top.
LEMMA CyclePreserved == IInv /\ [Next]_vars => CycleIsReal'
<1> SUFFICES ASSUME IInv, [Next]_vars PROVE CycleIsReal'
  OBVIOUS
<1>0. TypeOK /\ Phases /\ Reached /\ Passed /\ Apart /\ CycleIsReal
  BY DEF IInv
<1>1. CASE Close
  <2>1. PICK start \in 1..Depth :
          path[start] = Callee /\ cycle' = Append(SubSeq(path, start, Depth), Callee)
    BY <1>1 DEF Close
  <2>2. UNCHANGED refs /\ outcome = "ordering" /\ Here <= Len(Loop) /\ Callee = Loop[Here]
    BY <1>1 DEF Close, Calling, Callee
  <2>3. /\ Depth \in Nat /\ start \in Nat /\ start >= 1 /\ start <= Depth
        /\ Callee \in Stack /\ \A i \in 1..Depth : path[i] \in Stack
    <3>1. Depth \in Nat /\ \A i \in 1..Depth : path[i] \in Stack
      BY <1>0 DEF TypeOK, Depth
    <3> QED
      BY <2>1, <3>1
  <2>4. Callee \in Elements(refs[path[Depth]])
    <3>1. Loop = refs[path[Depth]] /\ Here \in 1..Len(Loop)
      BY <1>0, <2>2, <2>3, TopFrame DEF Loop, Depth
    <3> QED
      BY <2>2, <3>1 DEF Elements
  <2>5. ASSUME NEW k \in 2..Depth PROVE path[k] \in Elements(refs[path[k - 1]])
    <3>1. /\ pos[k] \in 2..(Len(ListOf(k)) + 1) /\ ListOf(k)[pos[k] - 1] = path[k]
          /\ ListOf(k) = refs[path[k - 1]] /\ path[k - 1] \in Stack
      BY <1>0, <2>3 DEF Reached, Depth, ListOf
    <3>2. Len(ListOf(k)) \in Nat
      BY <1>0, <3>1 DEF TypeOK
    <3>3. pos[k] - 1 \in 1..Len(ListOf(k))
      BY <3>1, <3>2
    <3> QED
      BY <3>1, <3>3 DEF Elements
  <2>6. ReferencesAllowed(path[Depth])
    <3>1. built = Len(Keys) /\ \A i \in 1..Len(Keys) : ReferencesAllowed(Keys[i])
      BY <1>0, <2>2 DEF Phases
    <3> QED
      BY <2>3, <3>1, KeysAssumption
  <2>7. start < Depth
    BY <2>1, <2>3, <2>4, <2>6 DEF ReferencesAllowed
  <2> DEFINE n == Depth - start + 1
  <2>8. /\ n \in Nat /\ n >= 2 /\ Len(cycle') = n + 1 /\ cycle'[n + 1] = Callee
        /\ \A i \in 1..n : cycle'[i] = path[start + i - 1]
    <3>1. /\ SubSeq(path, start, Depth) \in Seq(Stack)
          /\ Len(SubSeq(path, start, Depth)) = n
          /\ \A i \in 1..n : SubSeq(path, start, Depth)[i] = path[start + i - 1]
      BY SMTT(60), <1>0, <2>3, Cut DEF TypeOK, Depth
    <3>2. n \in Nat /\ n >= 2
      BY <2>3, <2>7
    <3> QED
      BY <2>1, <2>3, <3>1, <3>2
  <2> HIDE DEF n
  <2>9. Len(cycle') >= 3 /\ cycle'[1] = cycle'[Len(cycle')]
    BY <2>1, <2>3, <2>8
  <2>10. \A i \in 1..n : cycle'[i + 1] \in Elements(refs[cycle'[i]])
    <3> TAKE i \in 1..n
    <3>1. CASE i < n
      <4>1. cycle'[i] = path[start + i - 1] /\ cycle'[i + 1] = path[start + i]
        BY <2>3, <2>8, <3>1
      <4>2. start + i \in 2..Depth
        BY <2>3, <2>8, <3>1 DEF n
      <4> QED
        BY <2>3, <2>5, <4>1, <4>2
    <3>2. CASE i = n
      BY <2>3, <2>4, <2>8, <3>2 DEF n
    <3> QED
      BY <2>8, <3>1, <3>2
  <2>11. \A i, j \in 1..n : cycle'[i] = cycle'[j] => i = j
    <3> TAKE i, j \in 1..n
    <3>1. start + i - 1 \in 1..Depth /\ start + j - 1 \in 1..Depth
      BY <2>3, <2>8 DEF n
    <3>2. \A k, m \in 1..Depth : path[k] = path[m] => k = m
      BY <1>0 DEF Apart, Depth
    <3>3. cycle'[i] = path[start + i - 1] /\ cycle'[j] = path[start + j - 1]
      BY <2>8
    <3>4. cycle'[i] = cycle'[j] => start + i - 1 = start + j - 1
      BY <3>1, <3>2, <3>3
    <3> QED
      BY <2>3, <2>8, <3>4
  <2>12. Len(cycle') - 1 = n
    BY <2>8
  <2> QED
    BY <2>2, <2>9, <2>10, <2>11, <2>12 DEF CycleIsReal
<1>2. CASE (Next /\ ~Close) \/ UNCHANGED vars
  <2>1. UNCHANGED <<refs, cycle>> /\ (outcome' = "cycle" => outcome = "cycle")
    BY <1>2 DEF Next, Build, StartOrder, Skip, Enter, Return, Announce, vars
  <2> QED
    BY <1>0, <2>1 DEF CycleIsReal
<1> QED
  BY <1>1, <1>2

-----------------------------------------------------------------------------
\* The invariant holds in every reachable state.
THEOREM Invariance == Spec => []IInv
<1>1. IInv /\ [Next]_vars => IInv'
  BY TypePreserved, PhasesPreserved, FramesPreserved, OrderPreserved, CyclePreserved
  DEF IInv
<1> QED
  BY InitIInv, <1>1, PTL DEF Spec

\* The order, the path and a reported cycle name declared stacks only, whatever
\* the references name, and each frame of visit_stack has its position.
THEOREM TypeCorrect == Spec => []TypeOK
<1>1. IInv => TypeOK
  BY DEF IInv
<1> QED
  BY Invariance, <1>1, PTL

\* stack_order: a stack that is in the order comes after every declared stack
\* it reads and is there once, and the order that is printed has them all.
THEOREM OrderIsDeployable == Spec => []Deployable
<1>1. IInv => Deployable
  BY DEF IInv
<1> QED
  BY Invariance, <1>1, PTL

\* visit_stack: the chain named by the error is a chain of references through
\* at least two stacks and back to the first.
THEOREM ReportedCycleIsReal == Spec => []CycleIsReal
<1>1. IInv => CycleIsReal
  BY DEF IInv
<1> QED
  BY Invariance, <1>1, PTL

\* The stacks of a closed chain of references wait for one another.
LEMMA ChainDeadlocks ==
  ASSUME NEW chain \in Seq(Stack), Len(chain) >= 2, chain[1] = chain[Len(chain)],
         \A i \in 1..(Len(chain) - 1) : chain[i + 1] \in Elements(refs[chain[i]])
  PROVE  /\ Elements(chain) \subseteq Stack /\ Elements(chain) # {}
         /\ \A s \in Elements(chain) :
              \E r \in Elements(chain) : r \in Elements(refs[s]) \cap Stack
<1>1. Len(chain) \in Nat /\ \A i \in 1..Len(chain) : chain[i] \in Stack
  OBVIOUS
<1>2. \A i \in 1..Len(chain) : chain[i] \in Elements(chain)
  BY DEF Elements
<1>3. Elements(chain) \subseteq Stack /\ Elements(chain) # {}
  BY <1>1, <1>2 DEF Elements
<1>4. ASSUME NEW s \in Elements(chain)
      PROVE  \E r \in Elements(chain) : r \in Elements(refs[s]) \cap Stack
  <2>1. PICK i \in 1..(Len(chain) - 1) : chain[i] = s
    <3>1. PICK j \in 1..Len(chain) : chain[j] = s
      BY <1>4 DEF Elements
    <3> QED
      BY <1>1, <3>1
  <2>2. i + 1 \in 1..Len(chain)
    BY <1>1
  <2> QED
    BY <1>1, <1>2, <2>1, <2>2
<1> QED
  BY <1>3, <1>4

\* The search keeps the promise of ApplyOrder: it never places a stack before
\* one it reads, and it refuses only references that no order deploys.
THEOREM ImplementsApplyOrder == Spec => Promise!Spec
<1>1. Init => Promise!Init
  <2> SUFFICES ASSUME Init PROVE Promise!Init
    OBVIOUS
  <2> QED
    BY DEF Init, Promise!Init
<1>2. IInv /\ IInv' /\ [Next]_vars => [Promise!Next]_(Promise!vars)
  <2> SUFFICES ASSUME IInv, IInv', [Next]_vars PROVE [Promise!Next]_(Promise!vars)
    OBVIOUS
  <2> USE DEF Promise!vars
  <2>0. Promise!Placed = Elements(order) /\ TypeOK /\ Phases /\ Passed /\ Apart
    BY DEF Promise!Placed, Elements, IInv
  <2>1. CASE Build
    BY <2>0, <2>1 DEF Build, Phases, Promise!Next, Promise!Decline
  <2>2. CASE StartOrder
    BY <2>2 DEF StartOrder
  <2>3. CASE Skip
    BY <2>3 DEF Skip
  <2>4. CASE Enter
    BY <2>4 DEF Enter
  <2>5. CASE Return
    <3>1. /\ outcome = "ordering" /\ outcome' = outcome /\ refs' = refs
          /\ path # <<>> /\ Here > Len(Loop) /\ order' = Append(order, path[Depth])
      BY <2>5 DEF Return
    <3>2. /\ Depth \in Nat /\ Depth >= 1 /\ path[Depth] \in Stack
          /\ Loop = refs[path[Depth]] /\ path[Depth] \notin Elements(order)
      BY <2>0, <3>1 DEF TypeOK, Depth, Loop, Apart
    <3>3. Elements(refs[path[Depth]]) \cap Stack \subseteq Elements(order)
      <4> SUFFICES ASSUME NEW r \in Elements(refs[path[Depth]]) \cap Stack
                   PROVE  r \in Elements(order)
        OBVIOUS
      <4>1. PICK j \in 1..Len(Loop) : r = Loop[j]
        BY <3>2 DEF Elements
      <4>2. j \in 1..(Here - 1)
        BY <2>0, <3>1, TopFrame
      <4> QED
        BY <2>0, <4>1, <4>2, TopFrame
    <3> QED
      BY <2>0, <3>1, <3>2, <3>3 DEF Promise!Next, Promise!Place
  <2>6. CASE Announce
    BY <2>0, <2>6 DEF Announce, IInv, Deployable, Elements, Promise!Next, Promise!Announce
  <2>7. CASE Close
    <3>1. /\ outcome = "ordering" /\ outcome' = "cycle"
          /\ refs' = refs /\ order' = order
      BY <2>7 DEF Close, Calling
    <3>2. /\ cycle' \in Seq(Stack) /\ Len(cycle') >= 2
          /\ cycle'[1] = cycle'[Len(cycle')]
          /\ \A i \in 1..(Len(cycle') - 1) :
               cycle'[i + 1] \in Elements(refs[cycle'[i]])
      BY <3>1 DEF IInv, TypeOK, CycleIsReal
    <3>3. /\ Elements(cycle') \subseteq Stack /\ Elements(cycle') # {}
          /\ \A s \in Elements(cycle') :
               \E r \in Elements(cycle') : r \in Elements(refs[s]) \cap Stack
      BY <3>2, ChainDeadlocks
    <3>4. Promise!Deadlocked(Elements(cycle'))
      BY <3>3 DEF Promise!Deadlocked
    <3> QED
      BY <3>1, <3>3, <3>4 DEF Promise!Next, Promise!Refuse
  <2>8. CASE UNCHANGED vars
    BY <2>8 DEF vars
  <2> QED
    BY <2>1, <2>2, <2>3, <2>4, <2>5, <2>6, <2>7, <2>8 DEF Next
<1> QED
  BY Invariance, <1>1, <1>2, PTL DEF Spec, Promise!Spec
=============================================================================
