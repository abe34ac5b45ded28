--------------------------- MODULE ProviderProofs ---------------------------
(***************************************************************************)
(* What loading a provider's schema promises, for all JSON of any depth    *)
(* and all texts.                                                          *)
(*                                                                         *)
(* The functions that read JSON are recursive on what is inside a node, so *)
(* each is first shown to be the function its equation says (ReadIs,       *)
(* WellFormedIs, ProblemsIs), by the levels JSON is made of; what a node   *)
(* has whenever everything inside it has it, all JSON has (JsonInduction). *)
(*                                                                         *)
(* Two such facts are then shown, kind by kind.  A node of a stored schema *)
(* that the shared pass takes is read the same by the derived impls (Same, *)
(* SameReads): so one pass settles the format (ReadingSettles).  A node of *)
(* the raw format is read without an error if and only if it is well-      *)
(* formed, and its first problem is the first of those SchemaPromise lists *)
(* (Held, ReadingTells): lists of results and lists of problems go         *)
(* together (Together), also sorted, merged and flattened.  So the problem *)
(* that is reported is the promised one (ReadingInOrder).                  *)
(*                                                                         *)
(* A schema of any depth nests, as JSON does, by levels (SchemaTree), and  *)
(* a function on it is again what its equation says (NodeJsonIs).  What is *)
(* read of the raw format without a problem is settled: its maps are in    *)
(* order and of one entry each (Fits, RawFits), so what is written of it   *)
(* is read back as it was, kind by kind (ReadAs, WrittenIsReadBack).       *)
(*                                                                         *)
(* The reader is by itself: what is kept so far and what was read so far   *)
(* are scanned side by side (Agrees): they have the same tokens, and the   *)
(* scanner is in the same place unless whitespace is pending, when it is   *)
(* after an atom in the one and between tokens in the other - which only   *)
(* another atom could tell, and before that one a space is kept.  Pushing  *)
(* a byte keeps this (PushAgrees), so every chunk does; a first chunk      *)
(* without whitespace is the text itself, so the rest may be copied.       *)
(*                                                                         *)
(* The loader's invariant is small: what it has decoded is what the way it *)
(* took decodes (LoadInv).                                                 *)
(***************************************************************************)
EXTENDS ProviderFacts, SequenceTheorems, FiniteSetTheorems, WellFoundedInduction, TLAPS

-----------------------------------------------------------------------------
\* Lists: sequences, of whatever they hold, and how FlattenSeq makes one of many.

\* A set of numbers that is not empty has a least one.
LEMMA LeastNumber ==
  ASSUME NEW S \in SUBSET Nat, S # {}
  PROVE  \E m \in S : \A n \in S : m <= n
<1>1. PICK m \in S : \A n \in S : <<n, m>> \notin OpToRel(<, Nat)
  BY NatLessThanWellFounded, WFMin
<1>2. \A n \in S : ~(n < m)
  BY <1>1 DEF OpToRel
<1> QED
  BY <1>2

\* A sequence over a set is a list, and one over every set that holds its elements.
LEMMA ListOf ==
  ASSUME NEW S, NEW s \in Seq(S)
  PROVE  IsList(s) /\ ToSet(s) \subseteq S
<1>1. /\ Len(s) \in Nat /\ DOMAIN s = 1..Len(s) /\ \A i \in 1..Len(s) : s[i] \in S
      /\ s = [i \in 1..Len(s) |-> s[i]]
  BY LenProperties
<1>2. \A i \in 1..Len(s) : s[i] \in ToSet(s)
  BY <1>1 DEF ToSet
<1>3. s \in [1..Len(s) -> ToSet(s)]
  BY <1>1, <1>2
<1>4. s \in Seq(ToSet(s))
  BY <1>1, <1>3, SeqDef
<1> QED
  BY <1>1, <1>4 DEF IsList, ToSet

\* A list whose elements are in a set is a sequence over that set.
LEMMA ListIn ==
  ASSUME NEW S, NEW s, IsList(s), ToSet(s) \subseteq S
  PROVE  s \in Seq(S)
BY SeqMonotonic DEF IsList

\* What a list is: its length, its places, and what it holds.
LEMMA ListLen ==
  ASSUME NEW s, IsList(s)
  PROVE  /\ Len(s) \in Nat /\ DOMAIN s = 1..Len(s)
         /\ s = [i \in 1..Len(s) |-> s[i]]
         /\ \A x : x \in ToSet(s) <=> \E i \in 1..Len(s) : x = s[i]
<1>1. s \in Seq(ToSet(s))
  BY DEF IsList
<1>2. Len(s) \in Nat /\ DOMAIN s = 1..Len(s) /\ s = [i \in 1..Len(s) |-> s[i]]
  BY <1>1, LenProperties
<1> QED
  BY <1>2 DEF ToSet

\* A function on the first n numbers is a list.
LEMMA ListMade ==
  ASSUME NEW n \in Nat, NEW s, s = [i \in 1..n |-> s[i]]
  PROVE  IsList(s) /\ Len(s) = n /\ DOMAIN s = 1..n
<1>1. DOMAIN s = 1..n
  OBVIOUS
<1>2. \A i \in 1..n : s[i] \in ToSet(s)
  BY <1>1 DEF ToSet
<1>3. s \in [1..n -> ToSet(s)]
  BY <1>2
<1>4. s \in Seq(ToSet(s))
  BY <1>3, SeqDef
<1>5. Len(s) \in Nat /\ DOMAIN s = 1..Len(s)
  BY <1>4, LenProperties
<1>6. Len(s) = n
  BY <1>1, <1>5
<1> QED
  BY <1>1, <1>4, <1>6 DEF IsList

\* The list without elements.
LEMMA ListEmpty ==
  /\ IsList(<<>>) /\ ToSet(<<>>) = {}
  /\ \A s : IsList(s) => (s = <<>> <=> ToSet(s) = {})
<1>1. IsList(<<>>) /\ ToSet(<<>>) = {}
  <2>1. ASSUME NEW s, s \in Seq({}) PROVE IsList(s) /\ ToSet(s) = {}
    BY <2>1, ListOf
  <2> QED
    BY <2>1, EmptySeq, Zenon
<1>2. ASSUME NEW s, IsList(s), ToSet(s) = {}
      PROVE  s = <<>>
  <2>1. s \in Seq({}) /\ <<>> \in Seq({}) /\ Len(<<>>) = 0
    BY <1>2, EmptySeq DEF IsList
  <2>2. Len(s) \in Nat /\ \A i \in 1..Len(s) : FALSE
    BY <1>2, ListLen
  <2>3. Len(s) = 0
    BY <2>2
  <2>4. \A i \in 1..Len(s) : s[i] = <<>>[i]
    BY <2>2
  <2> QED
    BY <2>1, <2>3, <2>4, SeqEqual
<1> QED
  BY <1>1, <1>2

\* Two lists, one after the other.
LEMMA ListConcat ==
  ASSUME NEW s, NEW t, IsList(s), IsList(t)
  PROVE  /\ IsList(s \o t) /\ ToSet(s \o t) = ToSet(s) \cup ToSet(t)
         /\ Len(s \o t) = Len(s) + Len(t)
         /\ \A i \in 1..Len(s) : (s \o t)[i] = s[i]
         /\ \A i \in 1..Len(t) : (s \o t)[Len(s) + i] = t[i]
         /\ s \o t = <<>> <=> s = <<>> /\ t = <<>>
<1> DEFINE U == ToSet(s) \cup ToSet(t)
<1>1. s \in Seq(U) /\ t \in Seq(U)
  BY ListIn
<1>2. s \o t \in Seq(U) /\ Len(s \o t) = Len(s) + Len(t)
  BY <1>1, ConcatProperties
<1>3. /\ \A i \in 1..Len(s) : (s \o t)[i] = s[i]
      /\ \A i \in 1..Len(t) : (s \o t)[Len(s) + i] = t[i]
  <2>1. Len(s) \in Nat /\ Len(t) \in Nat
    BY ListLen
  <2>2. \A i \in 1..Len(t) : Len(s) + i \in Len(s) + 1 .. Len(s) + Len(t)
    BY <2>1
  <2>3. \A i \in 1..Len(t) : Len(s) + i - Len(s) = i
    BY <2>1
  <2> QED
    BY <1>1, <2>1, <2>2, <2>3, ConcatProperties
<1>4. IsList(s \o t) /\ ToSet(s \o t) \subseteq U
  BY <1>2, ListOf
<1>5. Len(s) \in Nat /\ Len(t) \in Nat
  BY ListLen
<1>6. DOMAIN (s \o t) = 1..(Len(s) + Len(t))
  BY <1>2, <1>4, ListLen
<1>7. ToSet(s) \subseteq ToSet(s \o t)
  <2>1. SUFFICES ASSUME NEW i \in 1..Len(s) PROVE s[i] \in ToSet(s \o t)
    BY ListLen
  <2> QED
    BY <1>3, <1>5, <1>6 DEF ToSet
<1>8. ToSet(t) \subseteq ToSet(s \o t)
  <2>1. SUFFICES ASSUME NEW i \in 1..Len(t) PROVE t[i] \in ToSet(s \o t)
    BY ListLen
  <2>2. Len(s) + i \in DOMAIN (s \o t)
    BY <1>5, <1>6
  <2> QED
    BY <1>3, <2>2 DEF ToSet
<1>9. ToSet(s \o t) = U
  BY <1>4, <1>7, <1>8
<1>10. U = {} <=> ToSet(s) = {} /\ ToSet(t) = {}
  OBVIOUS
<1> QED
  BY <1>2, <1>3, <1>4, <1>9, <1>10, ListEmpty

\* A list of one element.
LEMMA ListOne ==
  ASSUME NEW x
  PROVE  IsList(<<x>>) /\ ToSet(<<x>>) = {x} /\ <<x>> # <<>>
<1>1. <<x>> \in Seq({x}) /\ Len(<<x>>) = 1 /\ <<x>>[1] = x
  OBVIOUS
<1>2. IsList(<<x>>) /\ ToSet(<<x>>) \subseteq {x}
  BY <1>1, ListOf
<1>3. x \in ToSet(<<x>>)
  BY <1>1, <1>2, ListLen
<1> QED
  BY <1>2, <1>3, ListEmpty

\* The last place of a kind is one of that kind.
LEMMA LastPlace ==
  ASSUME NEW n \in Nat, NEW I, I \subseteq 1..n, I # {}
  PROVE  Max(I) \in I /\ \A i \in I : Max(I) >= i
<1> DEFINE Left == {k \in Nat : \E i \in I : k = n - i}
<1>1. \A i \in I : i \in Int /\ n - i \in Left
  OBVIOUS
<1>2. PICK m \in Left : \A k \in Left : m <= k
  <2>1. Left # {} /\ Left \in SUBSET Nat
    BY <1>1
  <2> QED
    BY <2>1, LeastNumber
<1>3. PICK i \in I : m = n - i
  BY <1>2
<1>4. \A j \in I : i >= j
  BY <1>1, <1>2, <1>3
<1> QED
  BY <1>3, <1>4 DEF Max

\* FlattenSeq goes along its lists (the function that is recursive in it).
Along(ss, n, f) == f = [i \in 1..n |-> IF i = 1 THEN ss[i] ELSE f[i - 1] \o ss[i]]

\* There is such a function for any lists.
LEMMA AlongExists ==
  ASSUME NEW ss, NEW n \in Nat
  PROVE  \E f : Along(ss, n, f)
<1> DEFINE Wanting == {m \in Nat : ~\E f : Along(ss, m, f)}
<1>1. SUFFICES ASSUME Wanting # {} PROVE FALSE
  OBVIOUS
<1>2. PICK m \in Wanting : \A k \in Wanting : m <= k
  <2>1. Wanting \in SUBSET Nat
    OBVIOUS
  <2> QED
    BY <1>1, <2>1, LeastNumber
<1>3. CASE m = 0
  <2> DEFINE f == [i \in 1..0 |-> ss]
  <2>1. 1..0 = {}
    OBVIOUS
  <2>2. Along(ss, 0, f)
    BY <2>1, Zenon DEF Along
  <2> QED
    BY <1>2, <1>3, <2>2
<1>4. CASE m # 0
  <2>1. m \in Nat /\ m - 1 \in Nat /\ m - 1 \notin Wanting
    <3>1. m \in Nat /\ m - 1 \in Nat /\ ~(m <= m - 1)
      BY <1>2, <1>4
    <3> QED
      BY <1>2, <3>1
  <2>2. PICK f : Along(ss, m - 1, f)
    BY <2>1
  <2> DEFINE g == [i \in 1..m |-> IF i = 1 THEN ss[i] ELSE f[i - 1] \o ss[i]]
  <2>3. ASSUME NEW i \in 1..m, i # 1
        PROVE  g[i - 1] = f[i - 1]
    <3>1. i - 1 \in 1..(m - 1) /\ i - 1 \in 1..m
      BY <2>1, <2>3
    <3>2. g[i - 1] = IF i - 1 = 1 THEN ss[i - 1] ELSE f[i - 1 - 1] \o ss[i - 1]
      BY <3>1
    <3>3. f[i - 1] = IF i - 1 = 1 THEN ss[i - 1] ELSE f[i - 1 - 1] \o ss[i - 1]
      BY <2>2, <3>1, Zenon DEF Along
    <3> QED
      BY <3>2, <3>3, Zenon
  <2>4. g = [i \in 1..m |-> IF i = 1 THEN ss[i] ELSE g[i - 1] \o ss[i]]
    <3>1. \A i \in 1..m : (IF i = 1 THEN ss[i] ELSE f[i - 1] \o ss[i])
                            = (IF i = 1 THEN ss[i] ELSE g[i - 1] \o ss[i])
      BY <2>3, Zenon
    <3> HIDE DEF g
    <3>2. g = [i \in 1..m |-> IF i = 1 THEN ss[i] ELSE f[i - 1] \o ss[i]]
      BY DEF g
    <3> QED
      BY <3>1, <3>2, Zenon
  <2>5. Along(ss, m, g)
    BY <2>4, Zenon DEF Along
  <2> QED
    BY <1>2, <2>5
<1> QED
  BY <1>3, <1>4

\* And FlattenSeq is where it ends.
LEMMA FlattenAlong ==
  ASSUME NEW ss, IsList(ss), ss # <<>>
  PROVE  \E f : Along(ss, Len(ss), f) /\ FlattenSeq(ss) = f[Len(ss)]
<1> DEFINE f == CHOOSE g : Along(ss, Len(ss), g)
<1>1. Along(ss, Len(ss), f)
  BY ListLen, AlongExists
<1>2. Len(ss) # 0
  BY EmptySeq, SeqEqual, ListLen DEF IsList
<1>3. FlattenSeq(ss) = f[Len(ss)]
  BY <1>2, Zenon DEF FlattenSeq, Along
<1> QED
  BY <1>1, <1>3

\* Lists flattened hold what any of them holds.
LEMMA FlatList ==
  ASSUME NEW ss, IsList(ss), \A s \in ToSet(ss) : IsList(s)
  PROVE  /\ IsList(FlattenSeq(ss))
         /\ ToSet(FlattenSeq(ss)) = UNION {ToSet(s) : s \in ToSet(ss)}
<1>1. CASE ss = <<>>
  <2>1. Len(ss) = 0
    BY <1>1
  <2>2. FlattenSeq(ss) = <<>>
    BY <1>1, <2>1 DEF FlattenSeq
  <2> QED
    BY <1>1, <2>2, ListEmpty
<1>2. CASE ss # <<>>
  <2>1. PICK f : Along(ss, Len(ss), f) /\ FlattenSeq(ss) = f[Len(ss)]
    BY <1>2, FlattenAlong
  <2> DEFINE Holds(i) == IsList(f[i]) /\ ToSet(f[i]) = UNION {ToSet(ss[j]) : j \in 1..i}
             Wanting == {i \in 1..Len(ss) : ~Holds(i)}
  <2>2. Len(ss) \in Nat /\ \A i \in 1..Len(ss) : ss[i] \in ToSet(ss)
    BY ListLen
  <2>3. Wanting = {}
    <3>1. SUFFICES ASSUME Wanting # {} PROVE FALSE
      OBVIOUS
    <3>2. PICK i \in Wanting : \A k \in Wanting : i <= k
      <4>1. Wanting \in SUBSET Nat
        BY <2>2
      <4> QED
        BY <3>1, <4>1, LeastNumber
    <3>3. i \in 1..Len(ss) /\ IsList(ss[i])
      BY <2>2, <3>2
    <3>4. CASE i = 1
      <4>1. f[i] = ss[i]
        BY <2>1, <3>3, <3>4, Zenon DEF Along
      <4>2. 1..i = {i}
        BY <3>4
      <4> QED
        BY <3>2, <3>3, <4>1, <4>2
    <3>5. CASE i # 1
      <4>1. i - 1 \in 1..Len(ss) /\ ~(i <= i - 1)
        BY <2>2, <3>3, <3>5
      <4>2. Holds(i - 1)
        BY <3>2, <4>1
      <4>3. f[i] = f[i - 1] \o ss[i]
        BY <2>1, <3>3, <3>5, Zenon DEF Along
      <4>4. IsList(f[i]) /\ ToSet(f[i]) = ToSet(f[i - 1]) \cup ToSet(ss[i])
        BY <3>3, <4>2, <4>3, ListConcat
      <4>5. 1..i = (1..(i - 1)) \cup {i}
        BY <2>2, <3>3, <3>5
      <4> QED
        BY <3>2, <4>2, <4>4, <4>5
    <3> QED
      BY <3>4, <3>5
  <2>4. Len(ss) \in 1..Len(ss)
    <3>1. Len(ss) # 0
      BY <1>2, EmptySeq, SeqEqual, ListLen DEF IsList
    <3> QED
      BY <2>2, <3>1
  <2>5. Holds(Len(ss))
    BY <2>3, <2>4
  <2>6. ToSet(ss) = {ss[j] : j \in 1..Len(ss)}
    BY ListLen
  <2> QED
    BY <2>1, <2>5, <2>6
<1> QED
  BY <1>1, <1>2

\* Lists flattened are empty only if each of them is.
LEMMA FlatEmpty ==
  ASSUME NEW ss, IsList(ss), \A s \in ToSet(ss) : IsList(s)
  PROVE  FlattenSeq(ss) = <<>> <=> \A s \in ToSet(ss) : s = <<>>
BY FlatList, ListEmpty

\* The least of some numbers, as Min chooses it.
LEMMA FirstPlace ==
  ASSUME NEW I \in SUBSET Nat, I # {}
  PROVE  Min(I) \in I /\ \A i \in I : Min(I) <= i
<1>1. \E m \in I : \A i \in I : m <= i
  BY LeastNumber
<1> QED
  BY <1>1 DEF Min

-----------------------------------------------------------------------------
\* JSON of any depth, and the functions defined by recursion on it.

\* JSON by how deep it nests.
Levels(n, f) == f = [h \in 0..n |-> JsonNodes(IF h = 0 THEN {} ELSE f[h - 1])]

\* There are levels of any depth.
LEMMA LevelsExist ==
  ASSUME NEW n \in Nat
  PROVE  \E f : Levels(n, f)
<1> DEFINE Wanting == {m \in Nat : ~\E f : Levels(m, f)}
<1>1. SUFFICES ASSUME Wanting # {} PROVE FALSE
  OBVIOUS
<1>2. PICK m \in Wanting : \A k \in Wanting : m <= k
  <2>1. Wanting \in SUBSET Nat
    OBVIOUS
  <2> QED
    BY <1>1, <2>1, LeastNumber
<1>3. CASE m = 0
  <2> DEFINE f == [h \in 0..0 |-> JsonNodes({})]
  <2>1. 0..0 = {0}
    OBVIOUS
  <2>2. Levels(0, f)
    BY <2>1, Zenon DEF Levels
  <2> QED
    BY <1>2, <1>3, <2>2
<1>4. CASE m # 0
  <2>1. m \in Nat /\ m - 1 \in Nat /\ m - 1 \notin Wanting
    <3>1. m \in Nat /\ m - 1 \in Nat /\ ~(m <= m - 1)
      BY <1>2, <1>4
    <3> QED
      BY <1>2, <3>1
  <2>2. PICK f : Levels(m - 1, f)
    BY <2>1
  <2> DEFINE g == [h \in 0..m |-> JsonNodes(IF h = 0 THEN {} ELSE f[h - 1])]
  <2>3. ASSUME NEW h \in 0..m, h # 0
        PROVE  g[h - 1] = f[h - 1]
    <3>1. h - 1 \in 0..(m - 1) /\ h - 1 \in 0..m
      BY <2>1, <2>3
    <3> QED
      BY <2>2, <3>1, Zenon DEF Levels
  <2>4. Levels(m, g)
    <3> HIDE DEF g
    <3>1. g = [h \in 0..m |-> JsonNodes(IF h = 0 THEN {} ELSE f[h - 1])]
      BY DEF g
    <3>2. \A h \in 0..m : JsonNodes(IF h = 0 THEN {} ELSE f[h - 1])
                            = JsonNodes(IF h = 0 THEN {} ELSE g[h - 1])
      BY <2>3, Zenon
    <3> QED
      BY <3>1, <3>2, Zenon DEF Levels
  <2> QED
    BY <1>2, <2>4
<1> QED
  BY <1>3, <1>4

\* JSON that nests h deep has JSON inside that nests one less.
LEMMA TreeLevels ==
  \A h \in 0..MaxNesting : JsonTree[h] = JsonNodes(IF h = 0 THEN {} ELSE JsonTree[h - 1])
<1>1. \E f : Levels(MaxNesting, f)
  BY LevelsExist, NestingAssumption
<1>2. JsonTree = CHOOSE f : Levels(MaxNesting, f)
  BY Zenon DEF JsonTree, Levels
<1>3. Levels(MaxNesting, JsonTree)
  BY <1>1, <1>2, Zenon
<1> QED
  BY <1>3, Zenon DEF Levels

\* What JSON is apart from how deep it nests.
IsJson(j) ==
  /\ j = Json(j.is, j.text, j.number, j.entries, j.items)
  /\ j.is \in JsonKinds /\ j.text \in STRING /\ j.number \in Nat
  /\ IsList(j.entries) /\ IsList(j.items)
  /\ \A e \in ToSet(j.entries) : e = [key |-> e.key, value |-> e.value] /\ e.key \in STRING

\* A node of JSON is JSON by itself, with values inside.
LEMMA NodeIs ==
  ASSUME NEW values, NEW j
  PROVE  j \in JsonNodes(values) <=> IsJson(j) /\ Children(j) \subseteq values
<1>1. j \in JsonNodes(values) <=>
        /\ j = Json(j.is, j.text, j.number, j.entries, j.items)
        /\ j.is \in JsonKinds /\ j.text \in STRING /\ j.number \in Nat
        /\ j.entries \in Seq([key : STRING, value : values]) /\ j.items \in Seq(values)
  BY DEF JsonNodes, Json
<1>2. j.items \in Seq(values) <=> IsList(j.items) /\ ToSet(j.items) \subseteq values
  BY ListOf, ListIn
<1>3. j.entries \in Seq([key : STRING, value : values])
        <=> IsList(j.entries) /\ ToSet(j.entries) \subseteq [key : STRING, value : values]
  BY ListOf, ListIn
<1>4. ToSet(j.entries) \subseteq [key : STRING, value : values]
        <=> \A e \in ToSet(j.entries) : /\ e = [key |-> e.key, value |-> e.value]
                                        /\ e.key \in STRING /\ e.value \in values
  OBVIOUS
<1>5. Children(j) \subseteq values
        <=> ToSet(j.items) \subseteq values /\ \A e \in ToSet(j.entries) : e.value \in values
  BY DEF Children, ToSet
<1> QED
  BY <1>1, <1>2, <1>3, <1>4, <1>5 DEF IsJson

\* The same, of JSON that nests at most h deep.
LEMMA TreeNode ==
  ASSUME NEW h \in 0..MaxNesting, NEW j
  PROVE  j \in JsonTree[h] <=> /\ IsJson(j)
                               /\ h = 0 => Children(j) = {}
                               /\ h # 0 => Children(j) \subseteq JsonTree[h - 1]
<1>1. JsonTree[h] = JsonNodes(IF h = 0 THEN {} ELSE JsonTree[h - 1])
  BY TreeLevels
<1>2. CASE h = 0
  <2>1. JsonTree[h] = JsonNodes({})
    BY <1>1, <1>2, Zenon
  <2> QED
    BY <1>2, <2>1, NodeIs
<1>3. CASE h # 0
  <2>1. JsonTree[h] = JsonNodes(JsonTree[h - 1])
    BY <1>1, <1>3, Zenon
  <2> QED
    BY <1>3, <2>1, NodeIs
<1> QED
  BY <1>2, <1>3

\* Deeper levels hold the shallower ones.
LEMMA TreeGrows ==
  \A h \in 0..MaxNesting : h # MaxNesting => JsonTree[h] \subseteq JsonTree[h + 1]
<1> DEFINE Wanting == {h \in 0..MaxNesting : h # MaxNesting /\ ~(JsonTree[h] \subseteq JsonTree[h + 1])}
<1>1. SUFFICES ASSUME Wanting # {} PROVE FALSE
  OBVIOUS
<1>2. PICK h \in Wanting : \A k \in Wanting : h <= k
  <2>1. Wanting \in SUBSET Nat
    BY NestingAssumption
  <2> QED
    BY <1>1, <2>1, LeastNumber
<1>3. h \in 0..MaxNesting /\ h + 1 \in 0..MaxNesting /\ h + 1 # 0 /\ h + 1 - 1 = h
  BY <1>2, NestingAssumption
<1>4. ASSUME NEW j \in JsonTree[h]
      PROVE  j \in JsonTree[h + 1]
  <2>1. IsJson(j)
    BY <1>3, TreeNode
  <2>2. Children(j) \subseteq JsonTree[h]
    <3>1. CASE h = 0
      BY <1>3, <3>1, TreeNode
    <3>2. CASE h # 0
      <4>1. h - 1 \in 0..MaxNesting /\ h - 1 # MaxNesting /\ ~(h <= h - 1) /\ h - 1 + 1 = h
        BY <1>3, <3>2, NestingAssumption
      <4>2. JsonTree[h - 1] \subseteq JsonTree[h]
        BY <1>2, <4>1
      <4> QED
        BY <1>3, <3>2, <4>2, TreeNode
    <3> QED
      BY <3>1, <3>2
  <2> QED
    BY <1>3, <2>1, <2>2, TreeNode
<1> QED
  BY <1>2, <1>4

\* All JSON that nests less deep is JSON.
LEMMA TreeInAny ==
  \A h \in 0..MaxNesting : JsonTree[h] \subseteq AnyJson
<1> DEFINE Wanting == {k \in 0..MaxNesting : ~(JsonTree[MaxNesting - k] \subseteq AnyJson)}
<1>1. Wanting = {}
  <2>1. SUFFICES ASSUME Wanting # {} PROVE FALSE
    OBVIOUS
  <2>2. PICK k \in Wanting : \A j \in Wanting : k <= j
    <3>1. Wanting \in SUBSET Nat
      BY NestingAssumption
    <3> QED
      BY <2>1, <3>1, LeastNumber
  <2>3. CASE k = 0
    BY <2>2, <2>3, NestingAssumption DEF AnyJson
  <2>4. CASE k # 0
    <3>1. /\ k - 1 \in 0..MaxNesting /\ ~(k <= k - 1)
          /\ MaxNesting - k \in 0..MaxNesting /\ MaxNesting - k # MaxNesting
          /\ MaxNesting - k + 1 = MaxNesting - (k - 1)
      BY <2>2, <2>4, NestingAssumption
    <3>2. JsonTree[MaxNesting - (k - 1)] \subseteq AnyJson
      BY <2>2, <3>1
    <3>3. JsonTree[MaxNesting - k] \subseteq JsonTree[MaxNesting - (k - 1)]
      BY <3>1, TreeGrows
    <3> QED
      BY <2>2, <3>2, <3>3
  <2> QED
    BY <2>3, <2>4
<1>2. SUFFICES ASSUME NEW h \in 0..MaxNesting PROVE JsonTree[h] \subseteq AnyJson
  OBVIOUS
<1>3. MaxNesting - h \in 0..MaxNesting /\ MaxNesting - (MaxNesting - h) = h
  BY NestingAssumption
<1> QED
  BY <1>1, <1>3

\* What is inside JSON is JSON.
LEMMA JsonNode ==
  ASSUME NEW j \in AnyJson
  PROVE  IsJson(j) /\ Children(j) \subseteq AnyJson
<1>1. MaxNesting \in 0..MaxNesting /\ (MaxNesting # 0 => MaxNesting - 1 \in 0..MaxNesting)
  BY NestingAssumption
<1>2. /\ IsJson(j)
      /\ MaxNesting = 0 => Children(j) = {}
      /\ MaxNesting # 0 => Children(j) \subseteq JsonTree[MaxNesting - 1]
  BY <1>1, TreeNode DEF AnyJson
<1> QED
  BY <1>1, <1>2, TreeInAny

\* What all JSON has that does not take it from what is inside it, all JSON has.
LEMMA JsonInduction ==
  ASSUME NEW S, \A j \in AnyJson : Children(j) \subseteq S => j \in S
  PROVE  AnyJson \subseteq S
<1> DEFINE Wanting == {h \in 0..MaxNesting : ~(JsonTree[h] \subseteq S)}
<1>1. Wanting = {}
  <2>1. SUFFICES ASSUME Wanting # {} PROVE FALSE
    OBVIOUS
  <2>2. PICK h \in Wanting : \A k \in Wanting : h <= k
    <3>1. Wanting \in SUBSET Nat
      BY NestingAssumption
    <3> QED
      BY <2>1, <3>1, LeastNumber
  <2>3. ASSUME NEW j \in JsonTree[h]
        PROVE  j \in S
    <3>1. h \in 0..MaxNesting /\ j \in AnyJson
      BY <2>2, TreeInAny
    <3>2. CASE h = 0
      BY <3>1, <3>2, TreeNode
    <3>3. CASE h # 0
      <4>1. h - 1 \in 0..MaxNesting /\ ~(h <= h - 1)
        BY <3>1, <3>3, NestingAssumption
      <4>2. JsonTree[h - 1] \subseteq S
        BY <2>2, <4>1
      <4> QED
        BY <3>1, <3>3, <4>2, TreeNode
    <3> QED
      BY <3>2, <3>3
  <2> QED
    BY <2>2, <2>3
<1>2. MaxNesting \in 0..MaxNesting
  BY NestingAssumption
<1> QED
  BY <1>1, <1>2 DEF AnyJson

\* Reading is defined for all JSON, by what is inside it.
ReadBody(j, r) ==
  LET below == [inside \in Children(j) |-> r[inside]]
  IN [kind \in ReadKinds |-> [path \in Paths |-> ReadNode(kind, j, path, below)]]
ReadTo(h, r) == r = [j \in JsonTree[h] |-> ReadBody(j, r)]

\* Reading a node takes nothing from what is not inside it.
LEMMA ReadBodyAgree ==
  ASSUME NEW j, NEW r, NEW w, \A c \in Children(j) : r[c] = w[c]
  PROVE  ReadBody(j, r) = ReadBody(j, w)
<1>1. [inside \in Children(j) |-> r[inside]] = [inside \in Children(j) |-> w[inside]]
  BY Zenon
<1> QED
  BY <1>1, Zenon DEF ReadBody

\* So it can be read, however deep it nests.
LEMMA ReadBodyExists ==
  \A h \in 0..MaxNesting : \E r : ReadTo(h, r)
<1> DEFINE Wanting == {h \in 0..MaxNesting : ~\E r : ReadTo(h, r)}
<1>1. SUFFICES ASSUME Wanting # {} PROVE FALSE
  OBVIOUS
<1>2. PICK h \in Wanting : \A k \in Wanting : h <= k
  <2>1. Wanting \in SUBSET Nat
    BY NestingAssumption
  <2> QED
    BY <1>1, <2>1, LeastNumber
<1>3. PICK r : \A j \in JsonTree[h] : \A c \in Children(j) :
                 c \in JsonTree[h] /\ r[c] = ReadBody(c, r)
  <2>1. CASE h = 0
    <3>1. \A j \in JsonTree[h] : Children(j) = {}
      BY <1>2, <2>1, TreeNode
    <3> QED
      BY <3>1
  <2>2. CASE h # 0
    <3>1. /\ h \in 0..MaxNesting /\ h - 1 \in 0..MaxNesting /\ ~(h <= h - 1)
          /\ h - 1 # MaxNesting /\ h - 1 + 1 = h
      BY <1>2, <2>2, NestingAssumption
    <3>2. PICK r : ReadTo(h - 1, r)
      BY <1>2, <3>1
    <3>3. ASSUME NEW j \in JsonTree[h], NEW c \in Children(j)
          PROVE  c \in JsonTree[h] /\ r[c] = ReadBody(c, r)
      <4>1. c \in JsonTree[h - 1]
        BY <2>2, <3>1, TreeNode
      <4>2. c \in JsonTree[h]
        BY <3>1, <4>1, TreeGrows
      <4> QED
        BY <3>2, <4>1, <4>2, Zenon DEF ReadTo
    <3> QED
      BY <3>3
  <2> QED
    BY <2>1, <2>2
<1> DEFINE w == [j \in JsonTree[h] |-> ReadBody(j, r)]
<1>4. ASSUME NEW j \in JsonTree[h]
      PROVE  ReadBody(j, w) = ReadBody(j, r)
  <2>1. \A c \in Children(j) : w[c] = r[c]
    BY <1>3, Zenon
  <2> HIDE DEF w
  <2> QED
    BY <2>1, ReadBodyAgree
<1>5. ReadTo(h, w)
  <2> HIDE DEF w
  <2>1. w = [j \in JsonTree[h] |-> ReadBody(j, r)]
    BY DEF w
  <2> QED
    BY <1>4, <2>1, Zenon DEF ReadTo
<1> QED
  BY <1>2, <1>5

\* What reading is, for every node: the equation of Read.
LEMMA ReadIs ==
  ASSUME NEW j \in AnyJson, NEW kind \in ReadKinds, NEW path \in Paths
  PROVE  Read[j][kind][path] = ReadNode(kind, j, path, [inside \in Children(j) |-> Read[inside]])
<1>1. \E r : ReadTo(MaxNesting, r)
  BY ReadBodyExists, NestingAssumption
<1>2. Read = CHOOSE r : ReadTo(MaxNesting, r)
  BY Zenon DEF Read, ReadTo, ReadBody, AnyJson
<1>3. ReadTo(MaxNesting, Read)
  BY <1>1, <1>2, Zenon
<1>4. Read[j] = ReadBody(j, Read)
  BY <1>3, Zenon DEF ReadTo, AnyJson
<1>5. Read[j] = [k \in ReadKinds |-> [p \in Paths |->
                   ReadNode(k, j, p, [inside \in Children(j) |-> Read[inside]])]]
  BY <1>4, Zenon DEF ReadBody
<1>6. Read[j][kind] = [p \in Paths |-> ReadNode(kind, j, p, [inside \in Children(j) |-> Read[inside]])]
  BY <1>5, Zenon
<1> QED
  BY <1>6, Zenon

\* And so is whether it is well-formed.
FormedBody(j, r) ==
  LET below == [inside \in Children(j) |-> r[inside]]
  IN [kind \in RawKinds |-> Formed(kind, j, below)]
FormedTo(h, r) == r = [j \in JsonTree[h] |-> FormedBody(j, r)]

\* This, too, takes nothing from what is not inside the node.
LEMMA FormedBodyAgree ==
  ASSUME NEW j, NEW r, NEW w, \A c \in Children(j) : r[c] = w[c]
  PROVE  FormedBody(j, r) = FormedBody(j, w)
<1>1. [inside \in Children(j) |-> r[inside]] = [inside \in Children(j) |-> w[inside]]
  BY Zenon
<1> QED
  BY <1>1, Zenon DEF FormedBody

\* So it is settled, however deep the node nests.
LEMMA FormedBodyExists ==
  \A h \in 0..MaxNesting : \E r : FormedTo(h, r)
<1> DEFINE Wanting == {h \in 0..MaxNesting : ~\E r : FormedTo(h, r)}
<1>1. SUFFICES ASSUME Wanting # {} PROVE FALSE
  OBVIOUS
<1>2. PICK h \in Wanting : \A k \in Wanting : h <= k
  <2>1. Wanting \in SUBSET Nat
    BY NestingAssumption
  <2> QED
    BY <1>1, <2>1, LeastNumber
<1>3. PICK r : \A j \in JsonTree[h] : \A c \in Children(j) :
                 c \in JsonTree[h] /\ r[c] = FormedBody(c, r)
  <2>1. CASE h = 0
    <3>1. \A j \in JsonTree[h] : Children(j) = {}
      BY <1>2, <2>1, TreeNode
    <3> QED
      BY <3>1
  <2>2. CASE h # 0
    <3>1. /\ h \in 0..MaxNesting /\ h - 1 \in 0..MaxNesting /\ ~(h <= h - 1)
          /\ h - 1 # MaxNesting /\ h - 1 + 1 = h
      BY <1>2, <2>2, NestingAssumption
    <3>2. PICK r : FormedTo(h - 1, r)
      BY <1>2, <3>1
    <3>3. ASSUME NEW j \in JsonTree[h], NEW c \in Children(j)
          PROVE  c \in JsonTree[h] /\ r[c] = FormedBody(c, r)
      <4>1. c \in JsonTree[h - 1]
        BY <2>2, <3>1, TreeNode
      <4>2. c \in JsonTree[h]
        BY <3>1, <4>1, TreeGrows
      <4> QED
        BY <3>2, <4>1, <4>2, Zenon DEF FormedTo
    <3> QED
      BY <3>3
  <2> QED
    BY <2>1, <2>2
<1> DEFINE w == [j \in JsonTree[h] |-> FormedBody(j, r)]
<1>4. ASSUME NEW j \in JsonTree[h]
      PROVE  FormedBody(j, w) = FormedBody(j, r)
  <2>1. \A c \in Children(j) : w[c] = r[c]
    BY <1>3, Zenon
  <2> HIDE DEF w
  <2> QED
    BY <2>1, FormedBodyAgree
<1>5. FormedTo(h, w)
  <2> HIDE DEF w
  <2>1. w = [j \in JsonTree[h] |-> FormedBody(j, r)]
    BY DEF w
  <2> QED
    BY <1>4, <2>1, Zenon DEF FormedTo
<1> QED
  BY <1>2, <1>5

\* What being well-formed is, for every node: the equation of WellFormed.
LEMMA WellFormedIs ==
  ASSUME NEW j \in AnyJson, NEW kind \in RawKinds
  PROVE  WellFormed[j][kind] = Formed(kind, j, [inside \in Children(j) |-> WellFormed[inside]])
<1>1. \E r : FormedTo(MaxNesting, r)
  BY FormedBodyExists, NestingAssumption
<1>2. WellFormed = CHOOSE r : FormedTo(MaxNesting, r)
  BY Zenon DEF WellFormed, FormedTo, FormedBody, AnyJson
<1>3. FormedTo(MaxNesting, WellFormed)
  BY <1>1, <1>2, Zenon
<1>4. WellFormed[j] = FormedBody(j, WellFormed)
  BY <1>3, Zenon DEF FormedTo, AnyJson
<1> QED
  BY <1>4, Zenon DEF FormedBody

\* And so are its problems.
ProblemsBody(j, r) ==
  LET below == [inside \in Children(j) |-> r[inside]]
  IN [kind \in NodeKinds |-> [path \in Paths |-> ProblemsIn(kind, j, path, below)]]
ProblemsTo(h, r) == r = [j \in JsonTree[h] |-> ProblemsBody(j, r)]

\* Nor do the problems.
LEMMA ProblemsBodyAgree ==
  ASSUME NEW j, NEW r, NEW w, \A c \in Children(j) : r[c] = w[c]
  PROVE  ProblemsBody(j, r) = ProblemsBody(j, w)
<1>1. [inside \in Children(j) |-> r[inside]] = [inside \in Children(j) |-> w[inside]]
  BY Zenon
<1> QED
  BY <1>1, Zenon DEF ProblemsBody

\* So they are settled, however deep the node nests.
LEMMA ProblemsBodyExists ==
  \A h \in 0..MaxNesting : \E r : ProblemsTo(h, r)
<1> DEFINE Wanting == {h \in 0..MaxNesting : ~\E r : ProblemsTo(h, r)}
<1>1. SUFFICES ASSUME Wanting # {} PROVE FALSE
  OBVIOUS
<1>2. PICK h \in Wanting : \A k \in Wanting : h <= k
  <2>1. Wanting \in SUBSET Nat
    BY NestingAssumption
  <2> QED
    BY <1>1, <2>1, LeastNumber
<1>3. PICK r : \A j \in JsonTree[h] : \A c \in Children(j) :
                 c \in JsonTree[h] /\ r[c] = ProblemsBody(c, r)
  <2>1. CASE h = 0
    <3>1. \A j \in JsonTree[h] : Children(j) = {}
      BY <1>2, <2>1, TreeNode
    <3> QED
      BY <3>1
  <2>2. CASE h # 0
    <3>1. /\ h \in 0..MaxNesting /\ h - 1 \in 0..MaxNesting /\ ~(h <= h - 1)
          /\ h - 1 # MaxNesting /\ h - 1 + 1 = h
      BY <1>2, <2>2, NestingAssumption
    <3>2. PICK r : ProblemsTo(h - 1, r)
      BY <1>2, <3>1
    <3>3. ASSUME NEW j \in JsonTree[h], NEW c \in Children(j)
          PROVE  c \in JsonTree[h] /\ r[c] = ProblemsBody(c, r)
      <4>1. c \in JsonTree[h - 1]
        BY <2>2, <3>1, TreeNode
      <4>2. c \in JsonTree[h]
        BY <3>1, <4>1, TreeGrows
      <4> QED
        BY <3>2, <4>1, <4>2, Zenon DEF ProblemsTo
    <3> QED
      BY <3>3
  <2> QED
    BY <2>1, <2>2
<1> DEFINE w == [j \in JsonTree[h] |-> ProblemsBody(j, r)]
<1>4. ASSUME NEW j \in JsonTree[h]
      PROVE  ProblemsBody(j, w) = ProblemsBody(j, r)
  <2>1. \A c \in Children(j) : w[c] = r[c]
    BY <1>3, Zenon
  <2> HIDE DEF w
  <2> QED
    BY <2>1, ProblemsBodyAgree
<1>5. ProblemsTo(h, w)
  <2> HIDE DEF w
  <2>1. w = [j \in JsonTree[h] |-> ProblemsBody(j, r)]
    BY DEF w
  <2> QED
    BY <1>4, <2>1, Zenon DEF ProblemsTo
<1> QED
  BY <1>2, <1>5

\* What the problems of every node are: the equation of Problems.
LEMMA ProblemsIs ==
  ASSUME NEW j \in AnyJson, NEW kind \in NodeKinds, NEW path \in Paths
  PROVE  Problems[j][kind][path] = ProblemsIn(kind, j, path, [inside \in Children(j) |-> Problems[inside]])
<1>1. \E r : ProblemsTo(MaxNesting, r)
  BY ProblemsBodyExists, NestingAssumption
<1>2. Problems = CHOOSE r : ProblemsTo(MaxNesting, r)
  BY Zenon DEF Problems, ProblemsTo, ProblemsBody, AnyJson
<1>3. ProblemsTo(MaxNesting, Problems)
  BY <1>1, <1>2, Zenon
<1>4. Problems[j] = ProblemsBody(j, Problems)
  BY <1>3, Zenon DEF ProblemsTo, AnyJson
<1>5. Problems[j] = [k \in NodeKinds |-> [p \in Paths |->
                       ProblemsIn(k, j, p, [inside \in Children(j) |-> Problems[inside]])]]
  BY <1>4, Zenon DEF ProblemsBody
<1>6. Problems[j][kind]
        = [p \in Paths |-> ProblemsIn(kind, j, p, [inside \in Children(j) |-> Problems[inside]])]
  BY <1>5, Zenon
<1> QED
  BY <1>6, Zenon

-----------------------------------------------------------------------------
\* Lists of which some elements are left out, and objects as they are read.

\* Lists of the same length and the same elements are the same.
LEMMA ListSame ==
  ASSUME NEW s, NEW t, IsList(s), IsList(t), Len(s) = Len(t), \A i \in 1..Len(s) : s[i] = t[i]
  PROVE  s = t
<1>1. s = [i \in 1..Len(s) |-> s[i]] /\ t = [i \in 1..Len(t) |-> t[i]]
  BY ListLen
<1> QED
  BY <1>1, Zenon

\* Lists of one element each, flattened.
LEMMA FlatOnes ==
  ASSUME NEW ss, NEW x, IsList(ss), \A i \in DOMAIN ss : ss[i] = <<x[i]>>
  PROVE  FlattenSeq(ss) = [i \in DOMAIN ss |-> x[i]]
<1> DEFINE n == Len(ss)
<1>2. n \in Nat /\ DOMAIN ss = 1..n
  BY ListLen
<1>1. \A i \in 1..n : ss[i] = <<x[i]>>
  BY <1>2
<1> HIDE DEF n
<1>3. CASE n = 0
  <2>1. FlattenSeq(ss) = <<>>
    <3>1. ss = <<>>
      BY <1>2, <1>3, ListLen, ListEmpty
    <3>2. Len(ss) = 0
      BY <1>3 DEF n
    <3> QED
      BY <3>1, <3>2, Zenon DEF FlattenSeq
  <2>2. 1..n = {}
    BY <1>3
  <2>3. [i \in 1..n |-> x[i]] = <<>>
    <3> DEFINE e == [i \in 1..n |-> x[i]]
    <3>1. e = [i \in 1..n |-> e[i]]
      BY Zenon
    <3> HIDE DEF e
    <3>2. IsList(e) /\ Len(e) = 0
      BY <1>3, <3>1, ListMade
    <3>3. e = <<>>
      BY <3>2, ListLen, ListEmpty
    <3> QED
      BY <3>3 DEF e
  <2> QED
    BY <1>2, <2>1, <2>3
<1>4. CASE n # 0
  <2>1. ss # <<>> /\ n \in 1..n
    <3>1. n \in 1..n
      BY <1>2, <1>4
    <3>2. ss[n] \in ToSet(ss)
      BY <1>2, <3>1 DEF ToSet
    <3> QED
      BY <3>1, <3>2, ListEmpty
  <2>2. PICK f : Along(ss, n, f) /\ FlattenSeq(ss) = f[n]
    BY <1>2, <2>1, FlattenAlong DEF n
  <2> DEFINE Upto(i) == [m \in 1..i |-> x[m]]
             Wanting == {i \in 1..n : f[i] # Upto(i)}
  <2>3. ASSUME NEW i \in Nat PROVE IsList(Upto(i)) /\ Len(Upto(i)) = i
    <3> DEFINE e == Upto(i)
    <3>1. e = [m \in 1..i |-> e[m]]
      BY Zenon
    <3> HIDE DEF e
    <3>2. IsList(e) /\ Len(e) = i
      BY <3>1, ListMade
    <3> QED
      BY <3>2 DEF e
  <2>4. Wanting = {}
    <3>1. SUFFICES ASSUME Wanting # {} PROVE FALSE
      OBVIOUS
    <3>2. PICK i \in Wanting : \A k \in Wanting : i <= k
      <4>1. Wanting \in SUBSET Nat
        OBVIOUS
      <4> QED
        BY <3>1, <4>1, LeastNumber
    <3>3. i \in 1..n /\ i \in Nat /\ ss[i] = <<x[i]>>
      BY <1>1, <3>2
    <3>4. IsList(<<x[i]>>) /\ Len(<<x[i]>>) = 1 /\ <<x[i]>>[1] = x[i]
      BY ListOne
    <3>5. IsList(Upto(i)) /\ Len(Upto(i)) = i
      BY <2>3, <3>3
    <3>6. CASE i = 1
      <4>1. f[i] = ss[i]
        BY <2>2, <3>3, <3>6, Zenon DEF Along
      <4>2. Upto(i)[1] = x[1]
        BY <3>3, <3>6
      <4> HIDE DEF Upto
      <4>3. \A k \in 1..Len(<<x[i]>>) : <<x[i]>>[k] = Upto(i)[k]
        BY <3>4, <3>6, <4>2
      <4>4. <<x[i]>> = Upto(i)
        BY <3>4, <3>5, <3>6, <4>3, ListSame
      <4> USE DEF Upto
      <4> QED
        BY <3>2, <3>3, <4>1, <4>4
    <3>7. CASE i # 1
      <4>1. i - 1 \in 1..n /\ ~(i <= i - 1) /\ i - 1 \in Nat /\ i - 1 + 1 = i
        BY <1>2, <3>3, <3>7
      <4>2. f[i - 1] = Upto(i - 1)
        BY <3>2, <4>1
      <4>3. f[i] = f[i - 1] \o ss[i]
        BY <2>2, <3>3, <3>7, Zenon DEF Along
      <4> DEFINE a == Upto(i - 1)
                 b == <<x[i]>>
      <4>4. IsList(a) /\ Len(a) = i - 1 /\ \A k \in 1..(i - 1) : a[k] = x[k]
        BY <2>3, <4>1
      <4>5. \A k \in 1..i : Upto(i)[k] = x[k]
        OBVIOUS
      <4> HIDE DEF a, b, Upto
      <4>6. /\ IsList(a \o b) /\ Len(a \o b) = i
            /\ \A k \in 1..(i - 1) : (a \o b)[k] = x[k]
            /\ (a \o b)[i] = x[i]
        <5>1. IsList(b) /\ Len(b) = 1 /\ b[1] = x[i]
          BY <3>4 DEF b
        <5>2. /\ IsList(a \o b) /\ Len(a \o b) = Len(a) + Len(b)
              /\ \A k \in 1..Len(a) : (a \o b)[k] = a[k]
              /\ \A k \in 1..Len(b) : (a \o b)[Len(a) + k] = b[k]
          <6>1. IsList(a) /\ IsList(b)
            BY <4>4, <5>1
          <6> QED
            BY <6>1, ListConcat
        <5>3. 1 \in 1..Len(b)
          BY <5>1
        <5>4. Len(a \o b) = i /\ \A k \in 1..(i - 1) : (a \o b)[k] = x[k]
          BY <4>1, <4>4, <5>1, <5>2
        <5>5. (a \o b)[Len(a) + 1] = x[i]
          BY <5>1, <5>2, <5>3
        <5>6. Len(a) + 1 = i
          BY <4>1, <4>4
        <5> QED
          BY <5>2, <5>4, <5>5, <5>6
      <4>7. \A k \in 1..Len(a \o b) : (a \o b)[k] = Upto(i)[k]
        BY <3>3, <4>5, <4>6
      <4>8. a \o b = Upto(i)
        BY <3>5, <4>6, <4>7, ListSame
      <4>9. f[i] = Upto(i)
        BY <3>3, <4>2, <4>3, <4>8 DEF a, b
      <4> USE DEF Upto
      <4> QED
        BY <3>2, <4>9
    <3> QED
      BY <3>6, <3>7
  <2> QED
    BY <1>2, <2>1, <2>2, <2>4
<1> QED
  BY <1>3, <1>4

\* Lists of one element or none, flattened.
Chosen(ss, kept, x) == \A i \in DOMAIN ss : ss[i] = IF i \in kept THEN <<x[i]>> ELSE <<>>
Holding(s, places, kept, x) ==
  IsList(s) /\ \A y : y \in ToSet(s) <=> \E i \in places : i \in kept /\ y = x[i]

\* What is kept is kept in order, and nothing else is.
LEMMA FlatSome ==
  ASSUME NEW ss, NEW kept, NEW x, IsList(ss), Chosen(ss, kept, x)
  PROVE  Holding(FlattenSeq(ss), DOMAIN ss, kept, x)
<1> DEFINE n == Len(ss)
<1>2. n \in Nat /\ DOMAIN ss = 1..n
  BY ListLen
<1>1. \A i \in 1..n : ss[i] = IF i \in kept THEN <<x[i]>> ELSE <<>>
  BY <1>2 DEF Chosen
<1> HIDE DEF n
<1>3. \A i \in 1..n : IsList(ss[i]) /\ ToSet(ss[i]) = IF i \in kept THEN {x[i]} ELSE {}
  <2>1. SUFFICES ASSUME NEW i \in 1..n
                 PROVE  IsList(ss[i]) /\ ToSet(ss[i]) = IF i \in kept THEN {x[i]} ELSE {}
    OBVIOUS
  <2>2. CASE i \in kept
    <3>1. ss[i] = <<x[i]>>
      BY <1>1, <2>2
    <3> QED
      BY <2>2, <3>1, ListOne
  <2>3. CASE i \notin kept
    <3>1. ss[i] = <<>>
      BY <1>1, <2>3
    <3> QED
      BY <2>3, <3>1, ListEmpty
  <2> QED
    BY <2>2, <2>3
<1>4. ToSet(ss) = {ss[i] : i \in 1..n}
  BY <1>2, ListLen DEF n
<1>5. IsList(FlattenSeq(ss)) /\ ToSet(FlattenSeq(ss)) = UNION {ToSet(s) : s \in ToSet(ss)}
  <2>1. \A s \in ToSet(ss) : IsList(s)
    BY <1>3, <1>4
  <2> QED
    BY <1>2, <2>1, FlatList
<1>6. \A y : y \in ToSet(FlattenSeq(ss)) <=> \E i \in 1..n : y \in ToSet(ss[i])
  <2>1. \A y : y \in ToSet(FlattenSeq(ss)) <=> \E s \in ToSet(ss) : y \in ToSet(s)
    BY <1>5, Zenon
  <2> QED
    BY <1>4, <2>1, Zenon
<1>7. \A y : (\E i \in 1..n : y \in ToSet(ss[i])) <=> \E i \in 1..n : i \in kept /\ y = x[i]
  BY <1>3
<1> QED
  BY <1>2, <1>5, <1>6, <1>7 DEF Holding

\* The entries of an object, by their places.
LEMMA EntryAt ==
  ASSUME NEW j \in AnyJson
  PROVE  /\ Len(j.entries) \in Nat /\ DOMAIN j.entries = 1..Len(j.entries)
         /\ \A i \in 1..Len(j.entries) : j.entries[i].key \in STRING /\ j.entries[i].value \in Children(j)
         /\ Len(j.items) \in Nat /\ DOMAIN j.items = 1..Len(j.items)
         /\ \A i \in 1..Len(j.items) : j.items[i] \in Children(j)
         /\ Children(j) \subseteq AnyJson
<1>1. IsJson(j) /\ Children(j) \subseteq AnyJson
  BY JsonNode
<1>2. /\ Len(j.entries) \in Nat /\ DOMAIN j.entries = 1..Len(j.entries)
      /\ \A i \in 1..Len(j.entries) : j.entries[i] \in ToSet(j.entries)
      /\ Len(j.items) \in Nat /\ DOMAIN j.items = 1..Len(j.items)
      /\ \A i \in 1..Len(j.items) : j.items[i] \in ToSet(j.items)
  BY <1>1, ListLen DEF IsJson
<1> QED
  BY <1>1, <1>2 DEF IsJson, Children

\* What fails among some results.
LEMMA FailingIs ==
  ASSUME NEW s, IsList(s)
  PROVE  /\ Failing(s) = {} <=> \A x \in ToSet(s) : x.result.error = <<>>
         /\ Failing(s) # {} => s[Min(Failing(s))].result.error # <<>>
<1>1. Len(s) \in Nat /\ DOMAIN s = 1..Len(s) /\ \A x : x \in ToSet(s) <=> \E i \in 1..Len(s) : x = s[i]
  BY ListLen
<1>2. Failing(s) = {} <=> \A x \in ToSet(s) : x.result.error = <<>>
  BY <1>1 DEF Failing
<1>3. ASSUME Failing(s) # {} PROVE s[Min(Failing(s))].result.error # <<>>
  <2>1. Failing(s) \in SUBSET Nat
    BY <1>1 DEF Failing
  <2>2. Min(Failing(s)) \in Failing(s)
    BY <1>3, <2>1, FirstPlace
  <2> QED
    BY <2>2 DEF Failing
<1> QED
  BY <1>2, <1>3

\* An object with an error in a known field, a repeated one, or one missing is an
\* error; any other is finished with its fields (the seeds' visit_map).
LEMMA FieldsRead ==
  ASSUME NEW kind, NEW j \in AnyJson, NEW path, NEW below
  PROVE  /\ ~Sound(kind, j, path, below) => ReadFields(kind, j, path, below).error # <<>>
         /\ Sound(kind, j, path, below) =>
              \E found : /\ IsFound(found, kind, j, path, below)
                         /\ ReadFields(kind, j, path, below) = Finished(kind, found, path)
<1> DEFINE E == j.entries
           N == Len(E)
           F == Seeds[kind].fields
           at(i) == IF \E m \in 1..(i - 1) : E[m].key = E[i].key THEN Bad("duplicate_field")
                    ELSE below[E[i].value][F[E[i].key]][PathBelow(kind, E[i].key, path)]
           x == [i \in 1..N |-> [name |-> E[i].key, result |-> at(i)]]
           K == Known(kind, j)
           R == FlattenSeq([i \in DOMAIN E |-> IF E[i].key \in DOMAIN F
                                                 THEN <<[name |-> E[i].key, result |-> at(i)]>> ELSE <<>>])
           found == [name \in {R[i].name : i \in DOMAIN R} |-> LastOf(R, name).result]
<1>1. N \in Nat /\ DOMAIN E = 1..N
  BY EntryAt
<1>2. ReadFields(kind, j, path, below)
        = IF j.is # "object" THEN Bad("invalid_type")
          ELSE IF Failing(R) # {} THEN R[Min(Failing(R))].result
          ELSE IF ~(Seeds[kind].required \subseteq DOMAIN found) THEN Bad("missing_field")
          ELSE Finished(kind, found, path)
  BY Zenon DEF ReadFields, Entries
<1>3. IsList(R) /\ ToSet(R) = {x[i] : i \in K}
  <2> DEFINE ss == [i \in DOMAIN E |-> IF E[i].key \in DOMAIN F
                                           THEN <<[name |-> E[i].key, result |-> at(i)]>> ELSE <<>>]
  <2>1. IsList(ss) /\ DOMAIN ss = 1..N
    <3>1. ss = [i \in 1..N |-> ss[i]]
      BY <1>1
    <3> HIDE DEF ss, N
    <3> QED
      BY <1>1, <3>1, ListMade
  <2>2. Chosen(ss, K, x)
    BY <1>1 DEF Known, Chosen
  <2>3. Holding(FlattenSeq(ss), DOMAIN ss, K, x)
    <3> HIDE DEF ss, x, K, N
    <3> QED
      BY <2>1, <2>2, FlatSome
  <2>4. R = FlattenSeq(ss) /\ K \subseteq 1..N
    BY DEF Known
  <2> HIDE DEF ss, x, K, N, R
  <2> QED
    BY <2>1, <2>3, <2>4 DEF Holding
<1>4. \A i \in K : /\ i \in 1..N /\ i \in Nat /\ x[i].name = E[i].key
                   /\ x[i].result = IF Again(j, i) THEN Bad("duplicate_field")
                                    ELSE FieldAt(kind, j, path, below, i)
  <2>1. SUFFICES ASSUME NEW i \in K
                 PROVE  /\ i \in 1..N /\ i \in Nat /\ x[i].name = E[i].key
                        /\ x[i].result = IF Again(j, i) THEN Bad("duplicate_field")
                                         ELSE FieldAt(kind, j, path, below, i)
    OBVIOUS
  <2>2. i \in 1..N /\ i \in Nat
    BY <1>1 DEF Known
  <2>3. x[i] = [name |-> E[i].key, result |-> at(i)]
    BY <2>2, Zenon
  <2>4. x[i].name = E[i].key /\ x[i].result = at(i)
    <3> HIDE DEF x, at
    <3> QED
      BY <2>3
  <2>5. at(i) = IF Again(j, i) THEN Bad("duplicate_field") ELSE FieldAt(kind, j, path, below, i)
    BY Zenon DEF Again, FieldAt
  <2> QED
    BY <2>2, <2>4, <2>5, Zenon
<1>12. /\ \A i \in DOMAIN R : \E m \in K : R[i] = x[m]
       /\ \A m \in K : \E i \in DOMAIN R : R[i] = x[m]
  <2> HIDE DEF R, x, K
  <2>1. \A y : y \in ToSet(R) <=> \E i \in DOMAIN R : y = R[i]
    BY <1>3, ListLen
  <2>2. \A y : y \in ToSet(R) <=> \E m \in K : y = x[m]
    BY <1>3
  <2> QED
    BY <2>1, <2>2, Zenon
<1>5. Failing(R) = {} <=> \A i \in K : ~Again(j, i) /\ FieldAt(kind, j, path, below, i).error = <<>>
  <2>1. Failing(R) = {} <=> \A i \in K : x[i].result.error = <<>>
    <3> HIDE DEF R, x, K
    <3> QED
      BY <1>3, FailingIs
  <2>2. Bad("duplicate_field").error # <<>>
    BY DEF Bad
  <2> HIDE DEF R, x, K
  <2> QED
    BY <1>4, <2>1, <2>2
<1>6. {R[i].name : i \in DOMAIN R} = {E[i].key : i \in K}
  <2> HIDE DEF R, x, K
  <2>1. \A i \in DOMAIN R : \E m \in K : R[i].name = E[m].key
    <3>1. SUFFICES ASSUME NEW i \in DOMAIN R PROVE \E m \in K : R[i].name = E[m].key
      OBVIOUS
    <3>2. PICK m \in K : R[i] = x[m]
      BY <1>12
    <3>3. R[i].name = E[m].key
      BY <1>4, <3>2
    <3> QED
      BY <3>3
  <2>2. \A m \in K : \E i \in DOMAIN R : R[i].name = E[m].key
    BY <1>4, <1>12
  <2> QED
    BY <2>1, <2>2
<1>7. ASSUME Sound(kind, j, path, below)
      PROVE  \A i \in K : found[E[i].key] = FieldAt(kind, j, path, below, i)
  <2>1. SUFFICES ASSUME NEW i \in K PROVE found[E[i].key] = FieldAt(kind, j, path, below, i)
    OBVIOUS
  <2> DEFINE name == E[i].key
             I == Named(R, name)
             l == Max(I)
  <2> HIDE DEF R, x, K
  <2>2. IsList(R) /\ Len(R) \in Nat /\ DOMAIN R = 1..Len(R)
    BY <1>3, ListLen
  <2>3. I \subseteq 1..Len(R) /\ I # {}
    <3>2. \E m \in DOMAIN R : R[m] = x[i]
      BY <1>12
    <3> QED
      BY <1>4, <2>2, <3>2 DEF Named
  <2>4. l \in I
    <3> HIDE DEF I
    <3> QED
      BY <2>2, <2>3, LastPlace
  <2>5. l \in DOMAIN R /\ R[l].name = name
    BY <2>4 DEF Named
  <2>6. PICK m \in K : R[l] = x[m]
    BY <1>12, <2>5
  <2>7. E[m].key = E[i].key
    BY <1>4, <2>5, <2>6
  <2>8. ~Again(j, m) /\ ~Again(j, i) /\ m \in Nat /\ i \in Nat /\ m \in 1..N /\ i \in 1..N
    BY <1>4, <1>7 DEF Sound, K
  <2>9. m = i
    <3>1. ~(m < i)
      <4>1. SUFFICES ASSUME m < i PROVE FALSE
        OBVIOUS
      <4>2. m \in 1..(i - 1)
        BY <2>8, <4>1
      <4> QED
        BY <2>7, <2>8, <4>2 DEF Again
    <3>2. ~(i < m)
      <4>1. SUFFICES ASSUME i < m PROVE FALSE
        OBVIOUS
      <4>2. i \in 1..(m - 1)
        BY <2>8, <4>1
      <4> QED
        BY <2>7, <2>8, <4>2 DEF Again
    <3> QED
      BY <2>8, <3>1, <3>2
  <2>10. name \in {R[k].name : k \in DOMAIN R}
    BY <2>5
  <2>11. found[name] = R[l].result
    BY <2>10, Zenon DEF LastOf
  <2>12. x[i].result = FieldAt(kind, j, path, below, i)
    BY <1>4, <2>8
  <2> QED
    BY <2>6, <2>9, <2>11, <2>12
<1>8. Sound(kind, j, path, below) => IsFound(found, kind, j, path, below)
  <2>1. DOMAIN found = {E[i].key : i \in K}
    BY <1>6
  <2>2. found = [key \in {E[i].key : i \in K} |-> found[key]]
    <3> DEFINE D == {R[i].name : i \in DOMAIN R}
    <3>1. found = [key \in D |-> found[key]]
      BY Zenon
    <3>2. D = {E[i].key : i \in K}
      BY <1>6
    <3> HIDE DEF found, D, K
    <3> QED
      BY <3>1, <3>2
  <2> HIDE DEF found
  <2> QED
    BY <1>7, <2>2 DEF IsFound
<1>9. Sound(kind, j, path, below)
        <=> j.is = "object" /\ Failing(R) = {} /\ Seeds[kind].required \subseteq DOMAIN found
  <2>1. DOMAIN found = {E[i].key : i \in K}
    BY <1>6
  <2> HIDE DEF found, R
  <2> QED
    BY <1>5, <2>1 DEF Sound
<1>10. Bad("invalid_type").error # <<>> /\ Bad("missing_field").error # <<>>
  BY DEF Bad
<1>11. Failing(R) # {} => R[Min(Failing(R))].result.error # <<>>
  <2> HIDE DEF R, x, K
  <2> QED
    BY <1>3, FailingIs
<1> HIDE DEF found, R
<1> QED
  BY <1>2, <1>8, <1>9, <1>10, <1>11

\* An object is read as a map if none of its entries is an error.
MapAt(kind, j, path, below) ==
  [i \in 1..Len(j.entries) |->
     [name |-> j.entries[i].key,
      result |-> below[j.entries[i].value][MapSeeds[kind]][PathOfEntry(kind, j.entries[i].key, path)]]]
SoundMap(kind, j, path, below) ==
  /\ j.is = "object"
  /\ \A i \in 1..Len(j.entries) :
       below[j.entries[i].value][MapSeeds[kind]][PathOfEntry(kind, j.entries[i].key, path)].error = <<>>

\* The same of a map, whose entries are all of one kind.
LEMMA MapRead ==
  ASSUME NEW kind, NEW j \in AnyJson, NEW path, NEW below
  PROVE  /\ ~SoundMap(kind, j, path, below) => ReadMap(kind, j, path, below).error # <<>>
         /\ SoundMap(kind, j, path, below) =>
              ReadMap(kind, j, path, below) = FinishedMap(kind, MapAt(kind, j, path, below))
<1> DEFINE E == j.entries
           N == Len(E)
           at(i) == below[E[i].value][MapSeeds[kind]][PathOfEntry(kind, E[i].key, path)]
           x == MapAt(kind, j, path, below)
           R == FlattenSeq([i \in DOMAIN E |-> IF TRUE THEN <<[name |-> E[i].key, result |-> at(i)]>> ELSE <<>>])
<1>1. N \in Nat /\ DOMAIN E = 1..N
  BY EntryAt
<1>2. ReadMap(kind, j, path, below)
        = IF j.is # "object" THEN Bad("invalid_type")
          ELSE IF Failing(R) # {} THEN R[Min(Failing(R))].result
          ELSE FinishedMap(kind, R)
  BY Zenon DEF ReadMap, Entries
<1>3. R = [i \in 1..N |-> x[i]]
  <2> DEFINE ss == [i \in DOMAIN E |-> IF TRUE THEN <<[name |-> E[i].key, result |-> at(i)]>> ELSE <<>>]
  <2>1. IsList(ss) /\ DOMAIN ss = 1..N
    <3>1. ss = [i \in 1..N |-> ss[i]]
      BY <1>1
    <3> HIDE DEF ss, N
    <3> QED
      BY <1>1, <3>1, ListMade
  <2>2. \A i \in DOMAIN ss : ss[i] = <<x[i]>>
    BY <1>1 DEF MapAt
  <2>3. FlattenSeq(ss) = [i \in DOMAIN ss |-> x[i]]
    <3> HIDE DEF x, ss
    <3> QED
      BY <2>1, <2>2, FlatOnes
  <2>4. R = FlattenSeq(ss)
    OBVIOUS
  <2> HIDE DEF ss, x, N, R
  <2> QED
    BY <2>1, <2>3, <2>4 DEF Holding
<1>4. x = [i \in 1..N |-> x[i]]
  BY Zenon DEF MapAt
<1>5. R = x
  BY <1>3, <1>4, Zenon
<1>6. IsList(x) /\ DOMAIN x = 1..N
  <2> HIDE DEF x
  <2> QED
    BY <1>1, <1>4, ListMade
<1>7. Failing(x) = {} <=> \A i \in 1..N : at(i).error = <<>>
  <2>1. \A i \in 1..N : x[i].result = at(i)
    BY DEF MapAt
  <2> HIDE DEF x, at
  <2> QED
    BY <1>6, <2>1 DEF Failing
<1>8. Failing(x) # {} => x[Min(Failing(x))].result.error # <<>>
  <2> HIDE DEF x
  <2> QED
    BY <1>6, FailingIs
<1>9. SoundMap(kind, j, path, below) <=> j.is = "object" /\ Failing(x) = {}
  BY <1>7 DEF SoundMap
<1>10. Bad("invalid_type").error # <<>>
  BY DEF Bad
<1> HIDE DEF x, R
<1> QED
  BY <1>2, <1>5, <1>8, <1>9, <1>10 DEF x

-----------------------------------------------------------------------------
\* One pass over a file settles its format as reading it twice does.

\* Sorting keeps of some entries those with a known name, one of each.
LEMMA SortedHolds ==
  ASSUME NEW order, IsList(order), NEW s, IsList(s)
  PROVE  IsList(SortUniqueBy(order, s)) /\ ToSet(SortUniqueBy(order, s)) \subseteq ToSet(s)
<1> DEFINE K == {k \in DOMAIN order : Named(s, order[k]) # {}}
           x == [k \in DOMAIN order |-> LastOf(s, order[k])]
           ss == [k \in DOMAIN order |-> IF Named(s, order[k]) = {} THEN <<>> ELSE <<LastOf(s, order[k])>>]
<1>1. Len(order) \in Nat /\ DOMAIN order = 1..Len(order)
  BY ListLen
<1>2. IsList(ss) /\ DOMAIN ss = DOMAIN order
  <2>1. ss = [k \in 1..Len(order) |-> ss[k]] /\ DOMAIN ss = DOMAIN order
    BY <1>1
  <2> HIDE DEF ss
  <2> QED
    BY <1>1, <2>1, ListMade
<1>3. Chosen(ss, K, x)
  BY DEF Chosen
<1>4. Holding(FlattenSeq(ss), DOMAIN ss, K, x)
  <2> HIDE DEF ss, x, K
  <2> QED
    BY <1>2, <1>3, FlatSome
<1>5. \A k \in K : x[k] \in ToSet(s)
  <2>1. SUFFICES ASSUME NEW k \in K PROVE LastOf(s, order[k]) \in ToSet(s)
    OBVIOUS
  <2> DEFINE I == Named(s, order[k])
  <2>2. Len(s) \in Nat /\ DOMAIN s = 1..Len(s)
    BY ListLen
  <2>3. I \subseteq DOMAIN s /\ I # {}
    BY DEF Named
  <2>4. Max(I) \in I
    <3> HIDE DEF I
    <3> QED
      BY <2>2, <2>3, LastPlace
  <2>5. Max(I) \in DOMAIN s
    BY <2>3, <2>4
  <2> QED
    BY <2>5 DEF LastOf, ToSet
<1>6. SortUniqueBy(order, s) = FlattenSeq(ss)
  BY Zenon DEF SortUniqueBy
<1> HIDE DEF ss, x, K
<1> QED
  BY <1>4, <1>5, <1>6 DEF Holding

\* The same of sort_unique, whose names are those of types, attributes and blocks.
LEMMA SortUniqueHolds ==
  ASSUME NEW s, IsList(s)
  PROVE  IsList(SortUnique(s)) /\ ToSet(SortUnique(s)) \subseteq ToSet(s)
BY OrderAssumption, ListOf, SortedHolds DEF SortUnique

\* Of usable results there is no first problem.
LEMMA FirstProblemNone ==
  ASSUME NEW s, IsList(s), \A y \in ToSet(s) : Usable(y.result)
  PROVE  /\ FirstProblem(s)
              = Good([i \in DOMAIN s |-> [name |-> s[i].name, value |-> s[i].result.value]])
         /\ Usable(FirstProblem(s))
<1>1. {i \in DOMAIN s : ~Usable(s[i].result)} = {}
  BY DEF ToSet
<1>2. FirstProblem(s)
        = Good([i \in DOMAIN s |-> [name |-> s[i].name, value |-> s[i].result.value]])
  BY <1>1, Zenon DEF FirstProblem
<1> QED
  BY <1>2 DEF Good, Usable

\* Of usable results name_map is usable.
LEMMA NameMapUsable ==
  ASSUME NEW s, IsList(s), \A y \in ToSet(s) : Usable(y.result)
  PROVE  Usable(NameMap(s))
BY SortUniqueHolds, FirstProblemNone DEF NameMap

\* The two paths a document is read at are two.
LEMMA PathsAre ==
  <<>> \in Paths /\ Derived \in Paths /\ (<<>> = Derived) = FALSE
BY DEF Paths, Derived, Roots, Label

\* What a stored schema is made of is made of nothing else.
LEMMA StoredKindsRead ==
  /\ StoredKinds \subseteq ReadKinds
  /\ \A kind \in StoredSeedKinds : /\ kind \in DOMAIN Seeds /\ kind # "provider"
                                   /\ \A key \in DOMAIN Seeds[kind].fields :
                                        Seeds[kind].fields[key] \in StoredKinds
  /\ \A kind \in StoredMapKinds : kind \in DOMAIN MapSeeds /\ MapSeeds[kind] \in StoredKinds
<1>1. StoredKinds \subseteq ReadKinds
  BY DEF StoredKinds, StoredSeedKinds, StoredMapKinds, ReadKinds, Seeds, MapSeeds, TypeKinds
<1>2. ASSUME NEW kind \in StoredMapKinds
      PROVE  kind \in DOMAIN MapSeeds /\ MapSeeds[kind] \in StoredKinds
  BY DEF StoredKinds, StoredSeedKinds, StoredMapKinds, MapSeeds
<1>3. ASSUME NEW kind \in StoredSeedKinds
      PROVE  kind \in DOMAIN Seeds /\ kind # "provider"
  BY DEF StoredSeedKinds, Seeds
<1>4. ASSUME NEW kind \in StoredSeedKinds, NEW key \in DOMAIN Seeds[kind].fields
      PROVE  Seeds[kind].fields[key] \in StoredKinds
  <2>1. CASE kind = "storedBlock"
    <3>1. Seeds[kind] = StoredBlockSeed
      BY <2>1 DEF Seeds
    <3> QED
      BY <3>1 DEF StoredBlockSeed, Seed, StoredKinds, StoredMapKinds
  <2>2. CASE kind = "storedResource"
    <3>1. Seeds[kind] = StoredResourceSeed
      BY <2>2 DEF Seeds
    <3> QED
      BY <3>1 DEF StoredResourceSeed, Seed, StoredKinds, StoredSeedKinds
  <2>3. CASE kind = "storedAttribute"
    <3>1. Seeds[kind] = StoredAttributeSeed
      BY <2>3 DEF Seeds
    <3> QED
      BY <3>1 DEF StoredAttributeSeed, Seed, StoredKinds, Scalars
  <2>4. CASE kind = "storedNestedBlock"
    <3>1. Seeds[kind] = StoredNestedBlockSeed
      BY <2>4 DEF Seeds
    <3> QED
      BY <3>1 DEF StoredNestedBlockSeed, Seed, StoredKinds, StoredSeedKinds, Scalars
  <2> QED
    BY <2>1, <2>2, <2>3, <2>4 DEF StoredSeedKinds
<1> QED
  BY <1>1, <1>2, <1>3, <1>4

\* A field read the same below two paths.
FieldsAgreed(kind, j, p, q, below) ==
  \A i \in Known(kind, j) : Agreed(FieldAt(kind, j, p, below, i), FieldAt(kind, j, q, below, i))
BothFinished(kind, j, p, q, below) ==
  \E found : /\ IsFound(found, kind, j, p, below)
             /\ \A key \in DOMAIN found : Usable(found[key])
             /\ ReadFields(kind, j, p, below) = Finished(kind, found, p)
             /\ ReadFields(kind, j, q, below) = Finished(kind, found, q)

\* An object whose fields are read the same below two paths is finished the same.
LEMMA FieldsSame ==
  ASSUME NEW kind, kind # "provider", NEW j \in AnyJson, NEW p, NEW q, NEW below,
         FieldsAgreed(kind, j, p, q, below), Sound(kind, j, p, below)
  PROVE  BothFinished(kind, j, p, q, below)
<1>1. \A i \in Known(kind, j) : /\ FieldAt(kind, j, q, below, i) = FieldAt(kind, j, p, below, i)
                                /\ Usable(FieldAt(kind, j, p, below, i))
  BY DEF Sound, Agreed, Usable, FieldsAgreed
<1>2. Sound(kind, j, q, below)
  BY <1>1 DEF Sound
<1>3. PICK found : /\ IsFound(found, kind, j, p, below)
                   /\ ReadFields(kind, j, p, below) = Finished(kind, found, p)
  BY FieldsRead
<1>4. PICK other : /\ IsFound(other, kind, j, q, below)
                   /\ ReadFields(kind, j, q, below) = Finished(kind, other, q)
  BY <1>2, FieldsRead
<1>5. other = found
  <2> DEFINE D == {j.entries[i].key : i \in Known(kind, j)}
  <2>1. other = [key \in D |-> other[key]] /\ found = [key \in D |-> found[key]]
    BY <1>3, <1>4 DEF IsFound
  <2>2. \A key \in D : other[key] = found[key]
    BY <1>1, <1>3, <1>4 DEF IsFound
  <2> HIDE DEF D
  <2> QED
    BY <2>1, <2>2, Zenon
<1>6. \A key \in DOMAIN found : Usable(found[key])
  <2>1. DOMAIN found = {j.entries[i].key : i \in Known(kind, j)}
    BY <1>3 DEF IsFound
  <2> QED
    BY <1>1, <1>3, <2>1 DEF IsFound
<1> QED
  BY <1>3, <1>4, <1>5, <1>6 DEF BothFinished

\* Below as a function.
LEMMA BelowIs ==
  ASSUME NEW j, NEW c \in Children(j)
  PROVE  Below(j)[c] = Read[c]
BY Zenon DEF Below

\* What the seeds of a stored schema return.
LEMMA FinishedStored ==
  ASSUME NEW found, NEW path
  PROVE  /\ Finished("storedResource", found, path) = found["block"]
         /\ Finished("storedBlock", found, path)
              = Good([attributes |-> found["attributes"].value, blocks |-> found["blocks"].value])
         /\ Finished("storedAttribute", found, path)
              = Good(NormalizedAttribute(found["type"].value, found))
         /\ Finished("storedNestedBlock", found, path)
              = Good(NestedBlock(found, found["nesting_mode"].value, found["block"].value))
<1>1. Finished("storedResource", found, path) = found["block"]
  BY DEF Finished
<1>2. Finished("storedBlock", found, path)
        = Good([attributes |-> found["attributes"].value, blocks |-> found["blocks"].value])
  BY DEF Finished
<1>3. Finished("storedAttribute", found, path) = Good(NormalizedAttribute(found["type"].value, found))
  BY DEF Finished
<1>4. Finished("storedNestedBlock", found, path)
        = Good(NestedBlock(found, found["nesting_mode"].value, found["block"].value))
  BY DEF Finished
<1> QED
  BY <1>1, <1>2, <1>3, <1>4

\* Objects of a stored schema are read the same by both passes.
LEMMA StoredSeedSame ==
  ASSUME NEW j \in AnyJson, \A c \in Children(j) : Same(c), NEW kind \in StoredSeedKinds
  PROVE  SameRead(j, kind)
<1> DEFINE a == Read[j][kind][<<>>]
           b == Read[j][kind][Derived]
<1>1. kind \in ReadKinds /\ kind \in DOMAIN Seeds /\ kind # "provider"
  BY StoredKindsRead DEF StoredKinds
<1>2. a = ReadFields(kind, j, <<>>, Below(j)) /\ b = ReadFields(kind, j, Derived, Below(j))
  <2>1. kind \notin Scalars /\ kind \in DOMAIN Seeds
    BY <1>1 DEF StoredSeedKinds, Scalars
  <2>2. a = ReadNode(kind, j, <<>>, Below(j)) /\ b = ReadNode(kind, j, Derived, Below(j))
    BY <1>1, PathsAre, ReadIs DEF Below
  <2>3. \A path : ReadNode(kind, j, path, Below(j)) = ReadFields(kind, j, path, Below(j))
    BY DEF ReadNode, StoredSeedKinds, Scalars, Seeds, MapSeeds
  <2> QED
    BY <2>2, <2>3
<1>3. FieldsAgreed(kind, j, <<>>, Derived, Below(j))
  <2>1. SUFFICES ASSUME NEW i \in Known(kind, j)
                 PROVE  Agreed(FieldAt(kind, j, <<>>, Below(j), i), FieldAt(kind, j, Derived, Below(j), i))
    BY DEF FieldsAgreed
  <2> DEFINE e == j.entries[i]
             sub == Seeds[kind].fields[e.key]
  <2>2. e.value \in Children(j) /\ e.key \in DOMAIN Seeds[kind].fields
    BY EntryAt DEF Known
  <2>3. sub \in StoredKinds
    BY <2>2, StoredKindsRead
  <2>4. Agreed(Read[e.value][sub][<<>>], Read[e.value][sub][Derived])
    BY <2>2, <2>3 DEF Same, SameRead
  <2>5. \A path : FieldAt(kind, j, path, Below(j), i) = Read[e.value][sub][path]
    BY <1>1, <2>2, BelowIs DEF FieldAt, PathBelow
  <2>6. /\ FieldAt(kind, j, <<>>, Below(j), i) = Read[e.value][sub][<<>>]
        /\ FieldAt(kind, j, Derived, Below(j), i) = Read[e.value][sub][Derived]
    BY <2>5
  <2> QED
    BY <2>4, <2>6, Zenon
<1>4. CASE ~Sound(kind, j, <<>>, Below(j))
  BY <1>2, <1>4, FieldsRead DEF SameRead, Agreed
<1>5. CASE Sound(kind, j, <<>>, Below(j))
  <2>1. PICK found : /\ IsFound(found, kind, j, <<>>, Below(j))
                     /\ \A key \in DOMAIN found : Usable(found[key])
                     /\ a = Finished(kind, found, <<>>) /\ b = Finished(kind, found, Derived)
    <3>1. BothFinished(kind, j, <<>>, Derived, Below(j))
      BY <1>1, <1>3, <1>5, FieldsSame
    <3> QED
      BY <1>2, <3>1 DEF BothFinished
  <2>2. \E whole : /\ Finished(kind, found, <<>>) = whole /\ Finished(kind, found, Derived) = whole
                   /\ whole.problem = <<>>
    <3>1. CASE kind = "storedResource"
      <4>1. "block" \in DOMAIN found
        <5>1. Seeds[kind] = StoredResourceSeed
          BY <3>1 DEF Seeds
        <5>2. "block" \in Seeds[kind].required
          BY <5>1 DEF StoredResourceSeed, Seed
        <5>3. DOMAIN found = {j.entries[i].key : i \in Known(kind, j)}
          BY <2>1 DEF IsFound
        <5> QED
          BY <1>5, <5>2, <5>3 DEF Sound
      <4> QED
        BY <2>1, <3>1, <4>1, FinishedStored DEF Usable
    <3>2. \A value : Good(value).problem = <<>>
      BY DEF Good
    <3>3. CASE kind # "storedResource"
      BY <3>2, <3>3, FinishedStored DEF StoredSeedKinds
    <3> QED
      BY <3>1, <3>3
  <2> QED
    BY <2>1, <2>2 DEF SameRead, Agreed
<1> QED
  BY <1>4, <1>5

\* So are its maps.
LEMMA StoredMapSame ==
  ASSUME NEW j \in AnyJson, \A c \in Children(j) : Same(c), NEW kind \in StoredMapKinds
  PROVE  SameRead(j, kind)
<1> DEFINE a == Read[j][kind][<<>>]
           b == Read[j][kind][Derived]
           N == Len(j.entries)
           at(i, path) == Below(j)[j.entries[i].value][MapSeeds[kind]][PathOfEntry(kind, j.entries[i].key, path)]
           sub(i) == Read[j.entries[i].value][MapSeeds[kind]]
<1>1. kind \in ReadKinds /\ kind \in DOMAIN MapSeeds /\ MapSeeds[kind] \in StoredKinds
  BY StoredKindsRead DEF StoredKinds
<1>2. a = ReadMap(kind, j, <<>>, Below(j)) /\ b = ReadMap(kind, j, Derived, Below(j))
  <2>1. a = ReadNode(kind, j, <<>>, Below(j)) /\ b = ReadNode(kind, j, Derived, Below(j))
    BY <1>1, PathsAre, ReadIs DEF Below
  <2>2. \A path : ReadNode(kind, j, path, Below(j)) = ReadMap(kind, j, path, Below(j))
    BY DEF ReadNode, StoredMapKinds, Scalars, Seeds, MapSeeds
  <2> QED
    BY <2>1, <2>2
<1>3. \A i \in 1..N : /\ at(i, <<>>) = sub(i)[<<>>] /\ at(i, Derived) = sub(i)[Derived]
                      /\ Agreed(sub(i)[<<>>], sub(i)[Derived])
  <2>1. SUFFICES ASSUME NEW i \in 1..N
                 PROVE  /\ at(i, <<>>) = sub(i)[<<>>] /\ at(i, Derived) = sub(i)[Derived]
                        /\ Agreed(sub(i)[<<>>], sub(i)[Derived])
    OBVIOUS
  <2>2. j.entries[i].value \in Children(j)
    BY EntryAt
  <2>3. \A path : PathOfEntry(kind, j.entries[i].key, path) = path
    BY DEF PathOfEntry, StoredMapKinds
  <2>4. Below(j)[j.entries[i].value] = Read[j.entries[i].value]
    BY <2>2, BelowIs
  <2>5. Agreed(sub(i)[<<>>], sub(i)[Derived])
    BY <1>1, <2>2 DEF Same, SameRead
  <2> QED
    BY <2>3, <2>4, <2>5
<1>4. CASE ~SoundMap(kind, j, <<>>, Below(j))
  BY <1>2, <1>4, MapRead DEF SameRead, Agreed
<1>5. CASE SoundMap(kind, j, <<>>, Below(j))
  <2>1. \A i \in 1..N : at(i, Derived) = at(i, <<>>) /\ Usable(at(i, <<>>))
    BY <1>3, <1>5 DEF SoundMap, Agreed, Usable
  <2>2. SoundMap(kind, j, Derived, Below(j))
    BY <1>5, <2>1 DEF SoundMap, Usable
  <2>3. MapAt(kind, j, Derived, Below(j)) = MapAt(kind, j, <<>>, Below(j))
    BY <2>1, Zenon DEF MapAt
  <2> DEFINE s == MapAt(kind, j, <<>>, Below(j))
  <2>4. a = FinishedMap(kind, s) /\ b = FinishedMap(kind, s)
    BY <1>2, <1>5, <2>2, <2>3, MapRead
  <2>5. FinishedMap(kind, s) = NameMap(s)
    <3> HIDE DEF s
    <3>1. FinishedMap("storedSchemas", s) = NameMap(s)
      BY DEF FinishedMap
    <3>2. FinishedMap("storedAttributes", s) = NameMap(s)
      BY DEF FinishedMap
    <3>3. FinishedMap("storedBlocks", s) = NameMap(s)
      BY DEF FinishedMap
    <3> QED
      BY <3>1, <3>2, <3>3 DEF StoredMapKinds
  <2>6. IsList(s) /\ DOMAIN s = 1..N
    <3>1. s = [i \in 1..N |-> s[i]] /\ N \in Nat
      BY EntryAt, Zenon DEF MapAt
    <3> HIDE DEF s, N
    <3> QED
      BY <3>1, ListMade
  <2>7. \A y \in ToSet(s) : Usable(y.result)
    <3>1. \A i \in 1..N : s[i].result = at(i, <<>>)
      BY DEF MapAt
    <3> HIDE DEF s, at, N
    <3> QED
      BY <2>1, <2>6, <3>1 DEF ToSet
  <2>8. Usable(NameMap(s))
    <3> HIDE DEF s
    <3> QED
      BY <2>6, <2>7, NameMapUsable
  <2> HIDE DEF s, a, b
  <2>9. a = b /\ a.problem = <<>>
    BY <2>4, <2>5, <2>8 DEF Usable
  <2> USE DEF a, b
  <2> QED
    BY <2>9 DEF SameRead, Agreed
<1> QED
  BY <1>4, <1>5

\* So are scalars.
LEMMA ScalarSame ==
  ASSUME NEW j \in AnyJson, NEW kind \in Scalars
  PROVE  SameRead(j, kind)
<1>1. kind \in ReadKinds
  BY DEF ReadKinds
<1>2. \A path \in Paths : Read[j][kind][path] = ReadScalar(kind, j)
  BY <1>1, ReadIs DEF ReadNode, Scalars, Seeds, MapSeeds
<1>3. Read[j][kind][<<>>] = ReadScalar(kind, j) /\ Read[j][kind][Derived] = ReadScalar(kind, j)
  BY <1>2, PathsAre
<1>4. ReadScalar(kind, j).problem = <<>>
  <2>1. \A v : Good(v).problem = <<>> /\ Bad(v).problem = <<>>
    BY DEF Good, Bad
  <2> QED
    BY <2>1, Zenon DEF ReadScalar
<1> QED
  BY <1>3, <1>4 DEF SameRead, Agreed

\* Where the shared pass takes a stored type, the derived impl takes the same.
LEMMA StoredForms ==
  ASSUME NEW j \in AnyJson
  PROVE  /\ StoredForm(j, <<>>) # <<>> => StoredForm(j, Derived) = StoredForm(j, <<>>)
         /\ \A path :
              StoredForm(j, path) # <<>> /\ Len(StoredForm(j, path)) # 1
                => StoredForm(j, path)[2] \in Children(j)
<1> DEFINE of(key) == {i \in DOMAIN j.entries : j.entries[i].key = key}
           kind == j.entries[CHOOSE i \in of("kind") : TRUE].value
           value == j.entries[CHOOSE i \in of("value") : TRUE].value
           once(places) == \E i \in places : places = {i}
           ordered == \A i \in DOMAIN j.entries : j.entries[i].key = <<"kind", "value">>[i]
           refused == j.is # "object" \/ ~once(of("kind"))
           odd(path) == path # Derived /\ ~(Len(j.entries) <= 2 /\ ordered)
           primitive == kind.text \in Primitives
<1>1. \A path : StoredForm(j, path)
        = IF refused THEN <<>> ELSE IF kind.is # "string" THEN <<>>
          ELSE IF odd(path) THEN <<>>
          ELSE IF of("value") = {} THEN IF primitive THEN <<kind.text>> ELSE <<>>
          ELSE IF ~once(of("value")) THEN <<>>
          ELSE IF ~primitive THEN <<kind.text, value>>
          ELSE IF path = Derived /\ value.is = "null" THEN <<kind.text>> ELSE <<>>
  BY Zenon DEF StoredForm
<1>2. of("value") # {} => value \in Children(j)
  <2>1. ASSUME of("value") # {} PROVE (CHOOSE i \in of("value") : TRUE) \in DOMAIN j.entries
    BY <2>1
  <2> QED
    BY <2>1, EntryAt
<1>3. ~odd(Derived) /\ <<>> # Derived
  BY PathsAre
<1>4. Len(<<kind.text>>) = 1 /\ <<kind.text, value>>[2] = value
  OBVIOUS
<1> HIDE DEF of, kind, value, once, ordered, refused, odd, primitive
<1>5. StoredForm(j, <<>>) # <<>> => StoredForm(j, Derived) = StoredForm(j, <<>>)
  <2>1. StoredForm(j, <<>>)
          = IF refused THEN <<>> ELSE IF kind.is # "string" THEN <<>>
            ELSE IF odd(<<>>) THEN <<>>
            ELSE IF of("value") = {} THEN IF primitive THEN <<kind.text>> ELSE <<>>
            ELSE IF ~once(of("value")) THEN <<>>
            ELSE IF ~primitive THEN <<kind.text, value>> ELSE <<>>
    BY <1>1, <1>3
  <2>2. StoredForm(j, Derived)
          = IF refused THEN <<>> ELSE IF kind.is # "string" THEN <<>>
            ELSE IF of("value") = {} THEN IF primitive THEN <<kind.text>> ELSE <<>>
            ELSE IF ~once(of("value")) THEN <<>>
            ELSE IF ~primitive THEN <<kind.text, value>>
            ELSE IF value.is = "null" THEN <<kind.text>> ELSE <<>>
    BY <1>1, <1>3
  <2> QED
    BY <2>1, <2>2
<1>6. ASSUME NEW path, StoredForm(j, path) # <<>>, Len(StoredForm(j, path)) # 1
      PROVE  StoredForm(j, path)[2] \in Children(j)
  <2>1. StoredForm(j, path) = <<kind.text, value>> /\ of("value") # {}
    BY <1>1, <1>4, <1>6
  <2> QED
    BY <1>2, <1>4, <2>1
<1> QED
  BY <1>5, <1>6

\* So are its types, which the shared pass reads into the same values.
LEMMA StoredTypeSame ==
  ASSUME NEW j \in AnyJson, \A c \in Children(j) : Same(c)
  PROVE  SameRead(j, "storedType")
<1> DEFINE a == ReadStoredType(j, <<>>, Below(j))
           b == ReadStoredType(j, Derived, Below(j))
           f == StoredForm(j, <<>>)
           g == StoredForm(j, Derived)
           of(form, kind, path) == Below(j)[form[2]][kind][path]
           itemOf(form, path) == Then(of(form, "storedType", path), LAMBDA item : Type(form[1], <<item>>, <<>>))
           fieldsOf(form, path) ==
             Then(of(form, "storedAttributes", path), LAMBDA fields : Type("object", <<>>, fields))
           read(form, path) == IF Len(form) = 1 THEN Good(Type(form[1], <<>>, <<>>))
                               ELSE IF form[1] \in Collections THEN itemOf(form, path)
                               ELSE IF form[1] = "object" THEN fieldsOf(form, path)
                               ELSE IF form[1] = "tuple" THEN of(form, "storedTypes", path)
                               ELSE Bad("unknown_variant")
<1>1. Read[j]["storedType"][<<>>] = a /\ Read[j]["storedType"][Derived] = b
  <2>1. "storedType" \in ReadKinds
    BY DEF ReadKinds, TypeKinds
  <2>2. \A path : ReadNode("storedType", j, path, Below(j)) = ReadStoredType(j, path, Below(j))
    BY DEF ReadNode, Scalars, Seeds, MapSeeds
  <2> QED
    BY <2>1, <2>2, PathsAre, ReadIs DEF Below
<1>2. Bad("invalid_type").error # <<>> /\ Bad("unknown_variant").error # <<>>
      /\ \A v : Good(v).problem = <<>>
  BY DEF Bad, Good
<1>3. CASE f = <<>>
  <2>1. a = Bad("invalid_type")
    BY <1>3, Zenon DEF ReadStoredType
  <2> QED
    BY <1>1, <1>2, <2>1 DEF SameRead, Agreed
<1>4. CASE f # <<>>
  <2>1. a = read(f, <<>>)
    BY <1>4, Zenon DEF ReadStoredType
  <2>2. b = read(f, Derived)
    <3>1. g = f
      BY <1>4, StoredForms
    <3>2. b = IF g = <<>> THEN Bad("invalid_type") ELSE read(g, Derived)
      BY Zenon DEF ReadStoredType
    <3> HIDE DEF b, f, g, read
    <3> QED
      BY <1>4, <3>1, <3>2
  <2>3. Len(f) # 1 => \A kind \in StoredKinds : Agreed(of(f, kind, <<>>), of(f, kind, Derived))
    <3>1. SUFFICES ASSUME Len(f) # 1, NEW kind \in StoredKinds
                   PROVE  Agreed(of(f, kind, <<>>), of(f, kind, Derived))
      OBVIOUS
    <3>2. f[2] \in Children(j)
      BY <1>4, <3>1, StoredForms
    <3> HIDE DEF f
    <3>3. Below(j)[f[2]] = Read[f[2]]
      BY <3>2, BelowIs
    <3>4. SameRead(f[2], kind)
      BY <3>2 DEF Same
    <3> QED
      BY <3>3, <3>4 DEF SameRead
  <2>4. "storedType" \in StoredKinds /\ "storedAttributes" \in StoredKinds /\ "storedTypes" \in StoredKinds
    BY DEF StoredKinds, StoredMapKinds
  <2>5. Len(f) # 1 => Agreed(itemOf(f, <<>>), itemOf(f, Derived))
    <3>1. SUFFICES ASSUME Len(f) # 1 PROVE Agreed(itemOf(f, <<>>), itemOf(f, Derived))
      OBVIOUS
    <3>2. Agreed(of(f, "storedType", <<>>), of(f, "storedType", Derived))
      BY <2>3, <2>4, <3>1
    <3> HIDE DEF of, f
    <3>3. CASE of(f, "storedType", <<>>).error # <<>>
      BY <3>3, Zenon DEF Then, Usable, Agreed
    <3>4. CASE of(f, "storedType", <<>>).error = <<>>
      <4>1. of(f, "storedType", Derived) = of(f, "storedType", <<>>) /\ Usable(of(f, "storedType", <<>>))
        BY <3>2, <3>4 DEF Agreed, Usable
      <4> QED
        BY <1>2, <4>1, Zenon DEF Then, Agreed
    <3> QED
      BY <3>3, <3>4
  <2>6. Len(f) # 1 => Agreed(fieldsOf(f, <<>>), fieldsOf(f, Derived))
    <3>1. SUFFICES ASSUME Len(f) # 1 PROVE Agreed(fieldsOf(f, <<>>), fieldsOf(f, Derived))
      OBVIOUS
    <3>2. Agreed(of(f, "storedAttributes", <<>>), of(f, "storedAttributes", Derived))
      BY <2>3, <2>4, <3>1
    <3> HIDE DEF of, f
    <3>3. CASE of(f, "storedAttributes", <<>>).error # <<>>
      BY <3>3, Zenon DEF Then, Usable, Agreed
    <3>4. CASE of(f, "storedAttributes", <<>>).error = <<>>
      <4>1. /\ of(f, "storedAttributes", Derived) = of(f, "storedAttributes", <<>>)
            /\ Usable(of(f, "storedAttributes", <<>>))
        BY <3>2, <3>4 DEF Agreed, Usable
      <4> QED
        BY <1>2, <4>1, Zenon DEF Then, Agreed
    <3> QED
      BY <3>3, <3>4
  <2> HIDE DEF of, f, itemOf, fieldsOf
  <2>7. Agreed(read(f, <<>>), read(f, Derived))
    <3>1. CASE Len(f) = 1
      BY <1>2, <3>1, Zenon DEF Agreed
    <3>2. CASE Len(f) # 1
      <4>1. Agreed(of(f, "storedTypes", <<>>), of(f, "storedTypes", Derived))
        BY <2>3, <2>4, <3>2
      <4>2. Agreed(Bad("unknown_variant"), Bad("unknown_variant"))
        BY <1>2 DEF Agreed
      <4> QED
        BY <2>5, <2>6, <3>2, <4>1, <4>2, Zenon
    <3> QED
      BY <3>1, <3>2
  <2> HIDE DEF a, b, read
  <2> QED
    BY <1>1, <2>1, <2>2, <2>7, Zenon DEF SameRead
<1> QED
  BY <1>3, <1>4

\* So are the types of a tuple.
LEMMA StoredTypesSame ==
  ASSUME NEW j \in AnyJson, \A c \in Children(j) : Same(c)
  PROVE  SameRead(j, "storedTypes")
<1> DEFINE results(path) == [i \in DOMAIN j.items |-> Below(j)[j.items[i]]["storedType"][path]]
           failing(path) == {i \in DOMAIN results(path) : results(path)[i].error # <<>>}
           read(path) == IF j.is # "array" THEN Bad("invalid_type")
                         ELSE IF failing(path) # {} THEN results(path)[Min(failing(path))]
                         ELSE Good(AsTuple([i \in DOMAIN results(path) |-> results(path)[i].value]))
<1>1. Read[j]["storedTypes"][<<>>] = read(<<>>) /\ Read[j]["storedTypes"][Derived] = read(Derived)
  <2>1. "storedTypes" \in ReadKinds
    BY DEF ReadKinds, TypeKinds
  <2>2. \A path : ReadNode("storedTypes", j, path, Below(j)) = ReadStoredTypes(j, path, Below(j))
    BY DEF ReadNode, Scalars, Seeds, MapSeeds
  <2>3. \A path : ReadStoredTypes(j, path, Below(j)) = read(path)
    BY Zenon DEF ReadStoredTypes
  <2>4. \A path \in Paths : Read[j]["storedTypes"][path] = ReadNode("storedTypes", j, path, Below(j))
    BY <2>1, ReadIs DEF Below
  <2> HIDE DEF read
  <2> QED
    BY <2>2, <2>3, <2>4, PathsAre, Zenon
<1>2. Bad("invalid_type").error # <<>> /\ \A v : Good(v).problem = <<>>
  BY DEF Bad, Good
<1>3. \A i \in DOMAIN j.items : Agreed(results(<<>>)[i], results(Derived)[i])
  <2>1. SUFFICES ASSUME NEW i \in DOMAIN j.items PROVE Agreed(results(<<>>)[i], results(Derived)[i])
    OBVIOUS
  <2>2. j.items[i] \in Children(j)
    BY EntryAt
  <2>3. Below(j)[j.items[i]] = Read[j.items[i]]
    BY <2>2, BelowIs
  <2>4. "storedType" \in StoredKinds
    BY DEF StoredKinds
  <2>5. Agreed(Read[j.items[i]]["storedType"][<<>>], Read[j.items[i]]["storedType"][Derived])
    BY <2>2, <2>4 DEF Same, SameRead
  <2> QED
    BY <2>3, <2>5
<1>4. \A path : /\ DOMAIN results(path) = DOMAIN j.items
                /\ failing(path) \in SUBSET Nat
                /\ failing(path) # {} => results(path)[Min(failing(path))].error # <<>>
  <2>1. SUFFICES ASSUME NEW path
                 PROVE  /\ DOMAIN results(path) = DOMAIN j.items
                        /\ failing(path) \in SUBSET Nat
                        /\ failing(path) # {} => results(path)[Min(failing(path))].error # <<>>
    OBVIOUS
  <2> DEFINE I == failing(path)
  <2>2. I \in SUBSET Nat
    BY EntryAt
  <2>3. I # {} => Min(I) \in I
    <3> HIDE DEF I
    <3> QED
      BY <2>2, FirstPlace
  <2>4. Min(I) \in I => results(path)[Min(I)].error # <<>>
    BY Zenon
  <2>5. DOMAIN results(path) = DOMAIN j.items
    OBVIOUS
  <2> HIDE DEF results
  <2> QED
    BY <2>2, <2>3, <2>4, <2>5
<1>5. CASE j.is # "array" \/ failing(<<>>) # {}
  <2>1. read(<<>>).error # <<>>
    <3>1. failing(<<>>) # {} => results(<<>>)[Min(failing(<<>>))].error # <<>>
      BY <1>4
    <3> HIDE DEF failing, results
    <3> QED
      BY <1>2, <1>5, <3>1
  <2> HIDE DEF read
  <2> QED
    BY <1>1, <2>1, Zenon DEF SameRead, Agreed
<1>6. CASE j.is = "array" /\ failing(<<>>) = {}
  <2>1. \A i \in DOMAIN j.items : results(<<>>)[i].error = <<>>
    BY <1>4, <1>6
  <2>2. results(Derived) = results(<<>>)
    <3>1. \A i \in DOMAIN j.items : results(Derived)[i] = results(<<>>)[i]
      <4> HIDE DEF results
      <4> QED
        BY <1>3, <2>1 DEF Agreed
    <3> DEFINE s == results(Derived)
               t == results(<<>>)
    <3>2. s = [i \in DOMAIN j.items |-> s[i]] /\ t = [i \in DOMAIN j.items |-> t[i]]
      BY Zenon
    <3> HIDE DEF results
    <3> QED
      BY <3>1, <3>2, Zenon
  <2> HIDE DEF results
  <2>3. failing(Derived) = failing(<<>>)
    BY <2>2
  <2> HIDE DEF failing
  <2>4. read(Derived) = read(<<>>) /\ read(<<>>) = Good(AsTuple([i \in DOMAIN results(<<>>) |-> results(<<>>)[i].value]))
    BY <1>6, <2>2, <2>3, Zenon
  <2> HIDE DEF read
  <2> QED
    BY <1>1, <1>2, <2>4, Zenon DEF SameRead, Agreed
<1> QED
  BY <1>5, <1>6

\* Whatever a normalized document is made of.
LEMMA SameReads ==
  \A j \in AnyJson : Same(j)
<1> DEFINE S == {j \in AnyJson : Same(j)}
<1>1. ASSUME NEW j \in AnyJson, Children(j) \subseteq S
      PROVE  j \in S
  <2>1. \A c \in Children(j) : Same(c)
    BY <1>1
  <2>2. ASSUME NEW kind \in StoredKinds PROVE SameRead(j, kind)
    BY <2>1, StoredSeedSame, StoredMapSame, ScalarSame, StoredTypeSame, StoredTypesSame DEF StoredKinds
  <2> QED
    BY <2>2 DEF Same
<1> HIDE DEF S
<1>2. AnyJson \subseteq S
  BY <1>1, JsonInduction
<1> QED
  BY <1>2 DEF S

\* The fields of both formats, of each, and where each is read.
FormatPath(kind) == IF kind = "derived" THEN Derived ELSE <<>>

\* The seeds of the three ways to read a document.
LEMMA FormatSeeds ==
  /\ "either" \in DOMAIN Seeds /\ "derived" \in DOMAIN Seeds /\ "document" \in DOMAIN Seeds
  /\ Seeds["either"] = EitherSeed /\ Seeds["derived"] = DerivedSeed /\ Seeds["document"] = DocumentSeed
BY DEF Seeds

\* A format has no field that may be left out, and the shared pass knows them all.
LEMMA FormatFields ==
  ASSUME NEW kind \in {"derived", "document"}
  PROVE  /\ Seeds[kind].required = DOMAIN Seeds[kind].fields
         /\ \A key \in DOMAIN Seeds[kind].fields :
              /\ key \in DOMAIN EitherSeed.fields
              /\ EitherSeed.fields[key] = Seeds[kind].fields[key]
              /\ kind = "derived" => Seeds[kind].fields[key] \in StoredKinds
<1>1. CASE kind = "derived"
  <2>1. Seeds[kind] = DerivedSeed
    BY <1>1, FormatSeeds
  <2>2. DerivedSeed.required = DOMAIN DerivedSeed.fields
    BY DEF DerivedSeed, Seed
  <2>3. \A key \in DOMAIN DerivedSeed.fields :
              /\ key \in DOMAIN EitherSeed.fields
              /\ EitherSeed.fields[key] = DerivedSeed.fields[key]
              /\ DerivedSeed.fields[key] \in StoredKinds
    BY DEF DerivedSeed, EitherSeed, Seed, StoredKinds, StoredMapKinds, StoredSeedKinds, Scalars
  <2> QED
    BY <2>1, <2>2, <2>3
<1>2. CASE kind = "document"
  <2>1. Seeds[kind] = DocumentSeed
    BY <1>2, FormatSeeds
  <2>2. DocumentSeed.required = DOMAIN DocumentSeed.fields
    BY DEF DocumentSeed, Seed
  <2>3. \A key \in DOMAIN DocumentSeed.fields :
              key \in DOMAIN EitherSeed.fields /\ EitherSeed.fields[key] = DocumentSeed.fields[key]
    BY DEF DocumentSeed, EitherSeed, Seed
  <2> QED
    BY <1>2, <2>1, <2>2, <2>3
<1> QED
  BY <1>1, <1>2

\* All three finish a document the same.
LEMMA FormatRead ==
  ASSUME NEW j \in AnyJson, NEW kind \in {"either", "derived", "document"}, NEW path \in Paths
  PROVE  /\ Read[j][kind][path] = ReadFields(kind, j, path, Below(j))
         /\ \A found : Finished(kind, found, path) = FinishedDocument(found)
<1>1. kind \in ReadKinds
  BY FormatSeeds DEF ReadKinds
<1>2. Read[j][kind][path] = ReadNode(kind, j, path, Below(j))
  BY <1>1, ReadIs DEF Below
<1>3. ReadNode(kind, j, path, Below(j)) = ReadFields(kind, j, path, Below(j))
  <2>1. kind \notin Scalars /\ kind \in DOMAIN Seeds
    BY FormatSeeds DEF Scalars
  <2>2. kind \notin DOMAIN MapSeeds /\ kind \notin TypeKinds
    BY DEF MapSeeds, TypeKinds
  <2> QED
    BY <2>1, <2>2 DEF ReadNode, TypeKinds
<1>4. \A found : Finished(kind, found, path) = FinishedDocument(found)
  BY DEF Finished
<1> QED
  BY <1>2, <1>3, <1>4

\* The same fields, read as those of both formats and as those of one.
OneFormat(kind, j, path, found) ==
  IF Seeds[kind].required \subseteq DOMAIN found
  THEN \E other : /\ Read[j][kind][path] = FinishedDocument(other)
                  /\ Seeds[kind].required \subseteq DOMAIN other
                  /\ \A key \in Seeds[kind].required : other[key] = found[key]
  ELSE Read[j][kind][path].error # <<>>

\* Where the shared pass meets no error, reading one format meets none unless a field
\* of it is missing, and then has read the same.
LEMMA FormatAgrees ==
  ASSUME NEW j \in AnyJson, NEW kind \in {"derived", "document"}, NEW path \in Paths,
         path = FormatPath(kind), NEW found,
         Sound("either", j, <<>>, Below(j)), IsFound(found, "either", j, <<>>, Below(j))
  PROVE  OneFormat(kind, j, path, found)
<1> DEFINE B == Below(j)
           keys == Seeds[kind].required
<1>1. /\ Seeds["either"] = EitherSeed /\ kind \notin {"provider", "either"}
      /\ Read[j][kind][path] = ReadFields(kind, j, path, B)
      /\ \A other : Finished(kind, other, path) = FinishedDocument(other)
  BY FormatSeeds, FormatRead
<1>2. ASSUME NEW i \in Known(kind, j)
      PROVE  /\ i \in Known("either", j) /\ j.entries[i].key \in keys
             /\ FieldAt(kind, j, path, B, i) = FieldAt("either", j, <<>>, B, i)
  <2> DEFINE e == j.entries[i]
             sub == Seeds[kind].fields[e.key]
  <2>1. e.key \in DOMAIN Seeds[kind].fields /\ i \in 1..Len(j.entries) /\ e.value \in Children(j)
    BY EntryAt DEF Known
  <2>2. /\ e.key \in keys /\ e.key \in DOMAIN EitherSeed.fields /\ EitherSeed.fields[e.key] = sub
        /\ kind = "derived" => sub \in StoredKinds
    BY <2>1, FormatFields
  <2>3. i \in Known("either", j)
    BY <1>1, <2>1, <2>2 DEF Known
  <2>4. /\ FieldAt(kind, j, path, B, i) = Read[e.value][sub][path]
        /\ FieldAt("either", j, <<>>, B, i) = Read[e.value][sub][<<>>]
    BY <1>1, <2>1, <2>2, BelowIs DEF FieldAt, PathBelow
  <2>5. Read[e.value][sub][path] = Read[e.value][sub][<<>>]
    <3>1. CASE kind = "document"
      BY <3>1 DEF FormatPath
    <3>2. CASE kind = "derived"
      <4>1. path = Derived
        BY <3>2 DEF FormatPath
      <4>2. e.value \in AnyJson
        BY <2>1, EntryAt
      <4>3. Agreed(Read[e.value][sub][<<>>], Read[e.value][sub][Derived])
        BY <2>2, <3>2, <4>2, SameReads DEF Same, SameRead
      <4>4. Read[e.value][sub][<<>>].error = <<>>
        BY <2>3, <2>4 DEF Sound
      <4> QED
        BY <4>1, <4>3, <4>4 DEF Agreed
    <3> QED
      BY <3>1, <3>2
  <2> QED
    BY <2>2, <2>3, <2>4, <2>5
<1>3. DOMAIN found = {j.entries[i].key : i \in Known("either", j)}
  BY DEF IsFound
<1>4. \A i \in Known("either", j) : j.entries[i].key \in keys => i \in Known(kind, j)
  BY FormatFields DEF Known
<1>5. CASE keys \subseteq DOMAIN found
  <2>1. Sound(kind, j, path, B)
    <3>1. \A i \in Known(kind, j) : ~Again(j, i) /\ FieldAt(kind, j, path, B, i).error = <<>>
      BY <1>2 DEF Sound
    <3>2. \A key \in keys : \E i \in Known(kind, j) : j.entries[i].key = key
      BY <1>3, <1>4, <1>5
    <3> QED
      BY <3>1, <3>2 DEF Sound
  <2>2. PICK other : /\ IsFound(other, kind, j, path, B)
                     /\ ReadFields(kind, j, path, B) = Finished(kind, other, path)
    BY <2>1, FieldsRead
  <2>3. DOMAIN other = {j.entries[i].key : i \in Known(kind, j)}
    BY <2>2 DEF IsFound
  <2>4. ASSUME NEW key \in keys PROVE key \in DOMAIN other /\ other[key] = found[key]
    <3>1. PICK i \in Known(kind, j) : j.entries[i].key = key
      BY <2>1 DEF Sound
    <3> QED
      BY <1>2, <2>2, <2>3, <3>1 DEF IsFound
  <2> QED
    BY <1>1, <1>5, <2>2, <2>4 DEF OneFormat
<1>6. CASE ~(keys \subseteq DOMAIN found)
  <2>1. ~Sound(kind, j, path, B)
    BY <1>2, <1>3, <1>6 DEF Sound
  <2> QED
    BY <1>1, <1>6, <2>1, FieldsRead DEF OneFormat
<1> QED
  BY <1>5, <1>6

\* Reading the fields of both formats settles what a file is as reading it twice does.
THEOREM ReadingSettles ==
  ASSUME NEW j \in AnyJson
  PROVE  ReadSchemaFile(j) = ReadTwice(j)
<1> DEFINE both == Read[j]["either"][<<>>]
           stored == Read[j]["derived"][Derived]
           document == Read[j]["document"][<<>>]
<1>1. /\ both = ReadFields("either", j, <<>>, Below(j))
      /\ \A found : Finished("either", found, <<>>) = FinishedDocument(found)
  BY PathsAre, FormatRead
<1>2. ReadSchemaFile(j)
        = IF both.error # <<>> THEN ReadTwice(j)
          ELSE IF both.value.normalized # <<>> THEN SchemaFile("normalized", Good(both.value.normalized[1]))
          ELSE IF both.value.raw # <<>> THEN SchemaFile("raw", NormalizedDocument(both.value.raw[1]))
          ELSE ReadTwice(j)
  BY Zenon DEF ReadSchemaFile
<1>3. ReadTwice(j)
        = IF stored.error = <<>> THEN SchemaFile("normalized", Good(stored.value.normalized[1]))
          ELSE SchemaFile("raw", NormalizeSchema(j))
  BY Zenon DEF ReadTwice
<1>4. NormalizeSchema(j)
        = IF document.error # <<>> THEN document ELSE NormalizedDocument(document.value.raw[1])
  BY Zenon DEF NormalizeSchema
<1>5. CASE ~Sound("either", j, <<>>, Below(j))
  BY <1>1, <1>2, <1>5, FieldsRead
<1>6. CASE Sound("either", j, <<>>, Below(j))
  <2>1. PICK found : IsFound(found, "either", j, <<>>, Below(j)) /\ both = FinishedDocument(found)
    BY <1>1, <1>6, FieldsRead
  <2>2. OneFormat("derived", j, Derived, found) /\ OneFormat("document", j, <<>>, found)
    <3>1. Derived = FormatPath("derived") /\ <<>> = FormatPath("document")
      BY DEF FormatPath
    <3> QED
      BY <1>6, <2>1, <3>1, PathsAre, FormatAgrees
  <2> DEFINE raw(seen) == [format_version |-> seen["format_version"].value,
                           providers |-> seen["provider_schemas"].value]
             raws(seen) == IF DocumentSeed.required \subseteq DOMAIN seen THEN <<raw(seen)>> ELSE <<>>
             schemas(seen) == IF DerivedSeed.required \subseteq DOMAIN seen
                                THEN <<StoredSchema(seen)>> ELSE <<>>
  <2>3. \A seen : /\ FinishedDocument(seen).error = <<>>
                  /\ FinishedDocument(seen).value.raw = raws(seen)
                  /\ FinishedDocument(seen).value.normalized = schemas(seen)
    <3>1. SUFFICES ASSUME NEW seen
                   PROVE  /\ FinishedDocument(seen).error = <<>>
                          /\ FinishedDocument(seen).value.raw = raws(seen)
                          /\ FinishedDocument(seen).value.normalized = schemas(seen)
      OBVIOUS
    <3> DEFINE formats == [raw |-> raws(seen), normalized |-> schemas(seen)]
    <3>2. FinishedDocument(seen) = Good(formats)
      BY Zenon DEF FinishedDocument
    <3>3. formats.raw = raws(seen) /\ formats.normalized = schemas(seen)
      BY Zenon
    <3> HIDE DEF formats, raws, schemas
    <3>4. Good(formats).error = <<>> /\ Good(formats).value = formats
      BY DEF Good
    <3> QED
      BY <3>2, <3>3, <3>4
  <2>4. /\ DerivedSeed.required = {"source", "version", "provider_config", "resources", "data_sources"}
        /\ DocumentSeed.required = {"format_version", "provider_schemas"}
    BY DEF DerivedSeed, DocumentSeed, Seed
  <2>5. \A v : <<v>> # <<>>
    OBVIOUS
  <2>6. both.error = <<>> /\ both.value.raw = raws(found) /\ both.value.normalized = schemas(found)
    BY <2>1, <2>3
  <2>7. CASE DerivedSeed.required \subseteq DOMAIN found
    <3>1. PICK other : /\ stored = FinishedDocument(other) /\ DerivedSeed.required \subseteq DOMAIN other
                       /\ \A key \in DerivedSeed.required : other[key] = found[key]
      BY <2>2, <2>7, FormatSeeds DEF OneFormat
    <3>2. StoredSchema(other) = StoredSchema(found)
      <4>1. /\ other["source"] = found["source"] /\ other["version"] = found["version"]
            /\ other["provider_config"] = found["provider_config"]
            /\ other["resources"] = found["resources"] /\ other["data_sources"] = found["data_sources"]
        BY <2>4, <3>1
      <4> QED
        BY <4>1, Zenon DEF StoredSchema
    <3>3. both.value.normalized = <<StoredSchema(found)>>
      BY <2>6, <2>7, Zenon
    <3>4. stored.error = <<>> /\ stored.value.normalized = <<StoredSchema(found)>>
      <4>1. schemas(other) = <<StoredSchema(found)>>
        BY <3>1, <3>2, Zenon
      <4> HIDE DEF schemas, raws
      <4> QED
        BY <2>3, <3>1, <4>1
    <3> HIDE DEF both, stored, document
    <3> QED
      BY <1>2, <1>3, <2>5, <2>6, <3>3, <3>4
  <2>8. CASE ~(DerivedSeed.required \subseteq DOMAIN found)
    <3>1. both.value.normalized = <<>>
      BY <2>6, <2>8, Zenon
    <3>2. stored.error # <<>>
      BY <2>2, <2>8, FormatSeeds DEF OneFormat
    <3>3. CASE DocumentSeed.required \subseteq DOMAIN found
      <4>1. PICK other : /\ document = FinishedDocument(other) /\ DocumentSeed.required \subseteq DOMAIN other
                         /\ \A key \in DocumentSeed.required : other[key] = found[key]
        BY <2>2, <3>3, FormatSeeds DEF OneFormat
      <4>2. document.error = <<>> /\ document.value.raw = both.value.raw /\ both.value.raw # <<>>
        <5>1. other["format_version"] = found["format_version"] /\ other["provider_schemas"] = found["provider_schemas"]
          BY <2>4, <4>1
        <5>2. raw(other) = raw(found)
          BY <5>1, Zenon
        <5>3. raws(other) = <<raw(other)>> /\ raws(found) = <<raw(found)>>
          BY <3>3, <4>1, Zenon
        <5> HIDE DEF raw, raws, schemas
        <5> QED
          BY <2>3, <2>5, <2>6, <4>1, <5>2, <5>3
      <4> HIDE DEF both, stored, document
      <4> QED
        BY <1>2, <1>3, <1>4, <2>6, <3>1, <3>2, <4>2
    <3>4. CASE ~(DocumentSeed.required \subseteq DOMAIN found)
      <4>1. both.value.raw = <<>>
        BY <2>6, <3>4, Zenon
      <4> HIDE DEF both, stored, document
      <4> QED
        BY <1>2, <2>6, <3>1, <4>1
    <3> QED
      BY <3>3, <3>4
  <2> QED
    BY <2>7, <2>8
<1> QED
  BY <1>5, <1>6

-----------------------------------------------------------------------------
\* The first problem of many results.

\* The first problem of results is the problem of one of them, or there is none.
LEMMA FirstProblemFound ==
  ASSUME NEW s, IsList(s), NoErrors(s)
  PROVE  /\ FirstProblem(s).error = <<>>
         /\ \/ FirstProblem(s).problem = <<>> /\ \A i \in DOMAIN s : s[i].result.problem = <<>>
            \/ \E i \in DOMAIN s : FirstIn(s, i) /\ FirstProblem(s) = s[i].result
<1> DEFINE wrong == {i \in DOMAIN s : ~Usable(s[i].result)}
<1>1. Len(s) \in Nat /\ DOMAIN s = 1..Len(s)
  BY ListLen
<1>2. \A i \in DOMAIN s : s[i].result.error = <<>>
  BY DEF NoErrors, ToSet
<1>3. FirstProblem(s) = IF wrong # {} THEN s[Min(wrong)].result
                        ELSE Good([i \in DOMAIN s |-> [name |-> s[i].name, value |-> s[i].result.value]])
  BY Zenon DEF FirstProblem
<1>4. CASE wrong = {}
  <2>1. \A v : Good(v).error = <<>> /\ Good(v).problem = <<>>
    BY DEF Good
  <2>2. \A i \in DOMAIN s : s[i].result.problem = <<>>
    BY <1>4 DEF Usable
  <2> QED
    BY <1>3, <1>4, <2>1, <2>2, Zenon
<1>5. CASE wrong # {}
  <2>1. Min(wrong) \in wrong /\ \A i \in wrong : Min(wrong) <= i
    <3>1. wrong \in SUBSET Nat
      BY <1>1
    <3> HIDE DEF wrong
    <3> QED
      BY <1>5, <3>1, FirstPlace
  <2> DEFINE m == Min(wrong)
  <2>2. m \in DOMAIN s /\ s[m].result.problem # <<>>
    BY <1>2, <2>1 DEF Usable
  <2>3. \A k \in 1..(m - 1) : s[k].result.problem = <<>>
    <3>1. SUFFICES ASSUME NEW k \in 1..(m - 1) PROVE s[k].result.problem = <<>>
      OBVIOUS
    <3>2. k \in DOMAIN s /\ ~(m <= k)
      <4> HIDE DEF m
      <4> QED
        BY <1>1, <2>2
    <3>3. k \notin wrong
      BY <2>1, <3>2
    <3> QED
      BY <3>2, <3>3 DEF Usable
  <2>4. FirstIn(s, m)
    BY <2>2, <2>3 DEF FirstIn
  <2>5. FirstProblem(s) = s[m].result
    BY <1>3, <1>5
  <2> HIDE DEF m
  <2> QED
    BY <1>2, <2>2, <2>4, <2>5
<1> QED
  BY <1>4, <1>5

\* It is the problem of the first that has one.
LEMMA FirstProblemIs ==
  ASSUME NEW s, IsList(s), NoErrors(s), NEW i, FirstIn(s, i)
  PROVE  FirstProblem(s) = s[i].result
<1>1. Len(s) \in Nat /\ DOMAIN s = 1..Len(s)
  BY ListLen
<1>2. PICK k \in DOMAIN s : FirstIn(s, k) /\ FirstProblem(s) = s[k].result
  BY FirstProblemFound DEF FirstIn
<1>3. k = i
  BY <1>1, <1>2 DEF FirstIn
<1> QED
  BY <1>2, <1>3

\* Of results after others.
LEMMA FirstConcat ==
  ASSUME NEW s, NEW t, IsList(s), IsList(t), NoErrors(s), NoErrors(t)
  PROVE  /\ IsList(s \o t) /\ NoErrors(s \o t)
         /\ FirstProblem(s \o t).problem = Earlier(FirstProblem(s).problem, FirstProblem(t).problem)
<1> DEFINE u == s \o t
           n == Len(s)
<1>1. /\ IsList(u) /\ ToSet(u) = ToSet(s) \cup ToSet(t) /\ Len(u) = n + Len(t)
      /\ \A i \in 1..n : u[i] = s[i]
      /\ \A i \in 1..Len(t) : u[n + i] = t[i]
  BY ListConcat
<1>2. /\ n \in Nat /\ Len(t) \in Nat /\ DOMAIN s = 1..n /\ DOMAIN t = 1..Len(t)
      /\ DOMAIN u = 1..Len(u)
  BY <1>1, ListLen
<1>3. NoErrors(u)
  BY <1>1 DEF NoErrors
<1> HIDE DEF u, n
<1>4. CASE \E i \in DOMAIN s : FirstIn(s, i) /\ FirstProblem(s) = s[i].result
  <2>1. PICK i \in DOMAIN s : FirstIn(s, i) /\ FirstProblem(s) = s[i].result
    BY <1>4
  <2>2. FirstIn(u, i)
    <3>1. i \in 1..n /\ i \in DOMAIN u /\ \A k \in 1..(i - 1) : k \in 1..n
      BY <1>1, <1>2
    <3> QED
      BY <1>1, <2>1, <3>1 DEF FirstIn
  <2>3. FirstProblem(u) = u[i].result /\ u[i] = s[i]
    BY <1>1, <1>2, <1>3, <2>2, FirstProblemIs
  <2> QED
    BY <1>1, <1>3, <2>1, <2>3 DEF Earlier, FirstIn, u
<1>5. CASE FirstProblem(s).problem = <<>> /\ \A i \in DOMAIN s : s[i].result.problem = <<>>
  <2>1. CASE \E i \in DOMAIN t : FirstIn(t, i) /\ FirstProblem(t) = t[i].result
    <3>1. PICK i \in DOMAIN t : FirstIn(t, i) /\ FirstProblem(t) = t[i].result
      BY <2>1
    <3>2. FirstIn(u, n + i)
      <4>1. i \in 1..Len(t) /\ n + i \in DOMAIN u /\ u[n + i] = t[i]
        BY <1>1, <1>2
      <4>2. ASSUME NEW k \in 1..((n + i) - 1) PROVE u[k].result.problem = <<>>
        <5>1. CASE k <= n
          <6>1. k \in 1..n
            BY <1>2, <5>1
          <6> QED
            BY <1>1, <1>2, <1>5, <6>1
        <5>2. CASE ~(k <= n)
          <6>1. k - n \in 1..(i - 1) /\ k - n \in 1..Len(t) /\ n + (k - n) = k
            BY <1>2, <4>1, <5>2
          <6>2. u[k] = t[k - n]
            BY <1>1, <6>1
          <6> QED
            BY <3>1, <6>1, <6>2 DEF FirstIn
        <5> QED
          BY <5>1, <5>2
      <4>3. u[n + i].result.problem # <<>>
        BY <3>1, <4>1 DEF FirstIn
      <4> QED
        BY <4>1, <4>2, <4>3, Zenon DEF FirstIn
    <3>3. FirstProblem(u) = t[i].result
      <4>1. FirstProblem(u) = u[n + i].result
        BY <1>1, <1>3, <3>2, FirstProblemIs
      <4> QED
        BY <1>1, <1>2, <4>1
    <3> QED
      BY <1>1, <1>3, <1>5, <3>1, <3>3 DEF Earlier, u
  <2>2. CASE FirstProblem(t).problem = <<>> /\ \A i \in DOMAIN t : t[i].result.problem = <<>>
    <3>1. ASSUME NEW k \in DOMAIN u PROVE u[k].result.problem = <<>>
      <4>1. CASE k <= n
        <5>1. k \in 1..n
          BY <1>1, <1>2, <4>1
        <5> QED
          BY <1>1, <1>2, <1>5, <5>1
      <4>2. CASE ~(k <= n)
        <5>1. k - n \in 1..Len(t) /\ n + (k - n) = k
          BY <1>1, <1>2, <4>2
        <5>2. u[k] = t[k - n]
          BY <1>1, <5>1
        <5> QED
          BY <1>2, <2>2, <5>1, <5>2
      <4> QED
        BY <4>1, <4>2
    <3>2. FirstProblem(u).problem = <<>>
      BY <1>1, <1>3, <3>1, FirstProblemFound DEF FirstIn
    <3> QED
      BY <1>1, <1>3, <1>5, <2>2, <3>2 DEF Earlier, u
  <2> QED
    BY <2>1, <2>2, FirstProblemFound
<1> QED
  BY <1>4, <1>5, FirstProblemFound

\* Of no results, and of one.
LEMMA FirstSimple ==
  /\ NoErrors(<<>>) /\ FirstProblem(<<>>).problem = <<>>
  /\ \A y : y.result.error = <<>> =>
       /\ NoErrors(<<y>>) /\ FirstProblem(<<y>>).problem = y.result.problem
<1>1. NoErrors(<<>>) /\ DOMAIN <<>> = {}
  <2>1. DOMAIN <<>> = 1..0
    OBVIOUS
  <2> QED
    BY <2>1, ListEmpty DEF NoErrors
<1>2. FirstProblem(<<>>).problem = <<>>
  BY <1>1, ListEmpty, FirstProblemFound
<1>3. ASSUME NEW y, y.result.error = <<>>
      PROVE  NoErrors(<<y>>) /\ FirstProblem(<<y>>).problem = y.result.problem
  <2>1. IsList(<<y>>) /\ NoErrors(<<y>>)
    BY <1>3, ListOne DEF NoErrors
  <2>2. DOMAIN <<y>> = {1} /\ <<y>>[1] = y
    OBVIOUS
  <2> QED
    BY <2>1, <2>2, FirstProblemFound
<1> QED
  BY <1>1, <1>2, <1>3

\* And the first of some problems.
LEMMA FirstOfConcat ==
  ASSUME NEW s, NEW t, IsList(s), IsList(t)
  PROVE  FirstOf(s \o t) = Earlier(FirstOf(s), FirstOf(t))
<1>1. /\ IsList(s \o t)
      /\ \A i \in 1..Len(s) : (s \o t)[i] = s[i]
      /\ \A i \in 1..Len(t) : (s \o t)[Len(s) + i] = t[i]
      /\ s \o t = <<>> <=> s = <<>> /\ t = <<>>
  BY ListConcat
<1>2. \A u : Head(u) = u[1]
  OBVIOUS
<1>3. \A u : <<u>> # <<>>
  OBVIOUS
<1>4. \A u : IsList(u) /\ u # <<>> => 1 \in 1..Len(u)
  <2>1. SUFFICES ASSUME NEW u, IsList(u), u # <<>> PROVE 1 \in 1..Len(u)
    OBVIOUS
  <2>2. Len(u) \in Nat /\ \E x : x \in ToSet(u)
    BY <2>1, ListLen, ListEmpty
  <2>3. \E i \in 1..Len(u) : TRUE
    BY <2>1, <2>2, ListLen
  <2> QED
    BY <2>2, <2>3
<1>5. CASE s # <<>>
  BY <1>1, <1>2, <1>3, <1>4, <1>5 DEF FirstOf, Earlier
<1>6. CASE s = <<>>
  <2>1. Len(s) = 0
    BY <1>6
  <2>2. CASE t = <<>>
    BY <1>1, <1>6, <2>2 DEF FirstOf, Earlier
  <2>3. CASE t # <<>>
    <3>1. (s \o t)[1] = t[1]
      BY <1>1, <1>4, <2>1, <2>3
    <3> QED
      BY <1>1, <1>2, <1>3, <1>6, <2>3, <3>1 DEF FirstOf, Earlier
  <2> QED
    BY <2>2, <2>3
<1> QED
  BY <1>5, <1>6

\* Lists that go together one by one go together flattened.
LEMMA FlatTogether ==
  ASSUME NEW ss, NEW pp, IsList(ss), IsList(pp), AllTogether(ss, pp)
  PROVE  Together(FlattenSeq(ss), FlattenSeq(pp))
<1>1. /\ Len(ss) \in Nat /\ DOMAIN ss = 1..Len(ss) /\ Len(pp) \in Nat /\ DOMAIN pp = 1..Len(pp)
      /\ Len(pp) = Len(ss)
  BY ListLen DEF AllTogether
<1>2. \A i \in 1..Len(ss) : Together(ss[i], pp[i])
  BY <1>1 DEF AllTogether
<1>3. CASE ss = <<>>
  <2>1. Len(ss) = 0 /\ Len(pp) = 0
    BY <1>1, <1>3
  <2>2. pp = <<>>
    BY <1>1, <2>1, ListLen, ListEmpty
  <2>3. FlattenSeq(ss) = <<>> /\ FlattenSeq(pp) = <<>>
    BY <1>3, <2>1, <2>2, Zenon DEF FlattenSeq
  <2> QED
    BY <2>3, ListEmpty, FirstSimple DEF Together, FirstOf
<1>4. CASE ss # <<>>
  <2>1. Len(ss) # 0 /\ pp # <<>>
    <3>1. Len(ss) # 0
      BY <1>4, EmptySeq, SeqEqual DEF IsList
    <3>2. Len(<<>>) = 0
      OBVIOUS
    <3> QED
      BY <1>1, <3>1, <3>2
  <2>2. PICK f : Along(ss, Len(ss), f) /\ FlattenSeq(ss) = f[Len(ss)]
    BY <1>4, FlattenAlong
  <2>3. PICK g : Along(pp, Len(ss), g) /\ FlattenSeq(pp) = g[Len(ss)]
    BY <1>1, <2>1, FlattenAlong
  <2> DEFINE Wanting == {i \in 1..Len(ss) : ~Together(f[i], g[i])}
  <2>4. Wanting = {}
    <3>1. SUFFICES ASSUME Wanting # {} PROVE FALSE
      OBVIOUS
    <3>2. PICK i \in Wanting : \A k \in Wanting : i <= k
      <4>1. Wanting \in SUBSET Nat
        BY <1>1
      <4> QED
        BY <3>1, <4>1, LeastNumber
    <3>3. i \in 1..Len(ss)
      OBVIOUS
    <3>4. CASE i = 1
      <4>1. f[i] = ss[i] /\ g[i] = pp[i]
        BY <2>2, <2>3, <3>3, <3>4, Zenon DEF Along
      <4> QED
        BY <1>2, <3>2, <3>3, <4>1
    <3>5. CASE i # 1
      <4>1. i - 1 \in 1..Len(ss) /\ ~(i <= i - 1)
        BY <1>1, <3>3, <3>5
      <4>2. Together(f[i - 1], g[i - 1])
        BY <3>2, <4>1
      <4>3. f[i] = f[i - 1] \o ss[i] /\ g[i] = g[i - 1] \o pp[i]
        BY <2>2, <2>3, <3>3, <3>5, Zenon DEF Along
      <4>4. Together(ss[i], pp[i])
        BY <1>2, <3>3
      <4>5. /\ IsList(f[i]) /\ NoErrors(f[i])
            /\ FirstProblem(f[i]).problem = Earlier(FirstProblem(f[i - 1]).problem, FirstProblem(ss[i]).problem)
        BY <4>2, <4>3, <4>4, FirstConcat DEF Together
      <4>6. IsList(g[i]) /\ FirstOf(g[i]) = Earlier(FirstOf(g[i - 1]), FirstOf(pp[i]))
        BY <4>2, <4>3, <4>4, FirstOfConcat, ListConcat DEF Together
      <4>7. Together(f[i], g[i])
        BY <4>2, <4>4, <4>5, <4>6 DEF Together
      <4> QED
        BY <3>2, <4>7
    <3> QED
      BY <3>4, <3>5
  <2>5. Len(ss) \in 1..Len(ss)
    BY <1>1, <2>1
  <2>6. Together(f[Len(ss)], g[Len(ss)])
    BY <2>4, <2>5
  <2> QED
    BY <2>2, <2>3, <2>6
<1> QED
  BY <1>3, <1>4

-----------------------------------------------------------------------------
\* What a node has to tell of the schema, and what it tells.

\* Everything in a raw document can be read, and what has problems is in one.
LEMMA RawKindsRead ==
  RawKinds \subseteq ReadKinds /\ NodeKinds \subseteq RawKinds
BY DEF RawKinds, NodeKinds, ReadKinds, Seeds, MapSeeds, Scalars, TypeKinds

\* FormedBelow as a function.
LEMMA FormedBelowIs ==
  ASSUME NEW j, NEW c \in Children(j)
  PROVE  FormedBelow(j)[c] = WellFormed[c]
BY Zenon DEF FormedBelow

\* ProblemsBelow as a function.
LEMMA ProblemsBelowIs ==
  ASSUME NEW j, NEW c \in Children(j)
  PROVE  ProblemsBelow(j)[c] = Problems[c]
BY Zenon DEF ProblemsBelow

\* What is below a path is at a path.
LEMMA PathsGrow ==
  ASSUME NEW path \in Paths
  PROVE  /\ \A name \in STRING : Append(path, Key(name)) \in Paths
         /\ \A i \in Nat : Append(path, Place(i)) \in Paths
         /\ \A kind, name : PathBelow(kind, name, path) \in Paths
         /\ \A kind, name : name \in STRING => PathOfEntry(kind, name, path) \in Paths
<1>1. \A name \in STRING : Append(path, Key(name)) \in Paths
  BY DEF Paths, Key
<1>2. \A i \in Nat : Append(path, Place(i)) \in Paths
  BY DEF Paths, Place
<1>3. /\ <<Label("provider")>> \in Paths /\ <<Label("resource")>> \in Paths
      /\ <<Label("data")>> \in Paths
  BY DEF Paths, Roots, Label
<1>4. \A kind, name : PathBelow(kind, name, path) \in Paths
  BY <1>3 DEF PathBelow
<1>5. \A kind, name : name \in STRING => PathOfEntry(kind, name, path) \in Paths
  BY <1>1 DEF PathOfEntry
<1> QED
  BY <1>1, <1>2, <1>4, <1>5

\* The last value of a name.
LEMMA AtIs ==
  ASSUME NEW j \in AnyJson, NEW key, Has(j, key)
  PROVE  LET i == Max(Places(j, key)) IN
         /\ i \in 1..Len(j.entries) /\ j.entries[i].key = key /\ At(j, key) = j.entries[i].value
         /\ At(j, key) \in Children(j) /\ At(j, key) \in AnyJson
<1> DEFINE I == Places(j, key)
<1>1. Len(j.entries) \in Nat /\ DOMAIN j.entries = 1..Len(j.entries)
  BY EntryAt
<1>2. I \subseteq 1..Len(j.entries) /\ I # {}
  BY <1>1 DEF Places, Has
<1>3. Max(I) \in I
  <2> HIDE DEF I
  <2> QED
    BY <1>1, <1>2, LastPlace
<1>4. Max(I) \in 1..Len(j.entries) /\ j.entries[Max(I)].key = key
  BY <1>2, <1>3 DEF Places
<1>5. At(j, key) = j.entries[Max(I)].value
  BY Zenon DEF At
<1> HIDE DEF I
<1>6. At(j, key) \in Children(j) /\ At(j, key) \in AnyJson
  BY <1>4, <1>5, EntryAt
<1> QED
  BY <1>4, <1>5, <1>6 DEF I

\* Results named as the entries of an object have a name where it has the key.
LEMMA NamedPlaces ==
  ASSUME NEW j, NEW s, NamedAs(s, j), NEW key
  PROVE  Named(s, key) = Places(j, key)
BY DEF NamedAs, Named, Places

\* All problems are lists.
LEMMA ListIf ==
  ASSUME NEW n \in Nat, NEW pp, pp = [i \in 1..n |-> pp[i]], \A i \in 1..n : IsList(pp[i])
  PROVE  IsList(pp) /\ IsList(FlattenSeq(pp))
<1>1. IsList(pp) /\ Len(pp) = n
  BY ListMade
<1>2. \A p \in ToSet(pp) : IsList(p)
  BY <1>1, ListLen
<1> QED
  BY <1>1, <1>2, FlatList

\* No problems, and one, are lists; so are those of a nesting mode.
LEMMA ListProblem ==
  /\ IsList(<<>>)
  /\ \A path, what : /\ IsList(Problem(path, what))
                     /\ FirstOf(Problem(path, what)) = Wrong(path, what).problem
                     /\ Problem(path, what) # <<>>
  /\ \A j, path : IsList(ModeProblems(j, path))
<1>1. IsList(<<>>)
  BY ListEmpty
<1>2. ASSUME NEW path, NEW what
      PROVE  /\ IsList(Problem(path, what)) /\ Problem(path, what) # <<>>
             /\ FirstOf(Problem(path, what)) = Wrong(path, what).problem
  <2> DEFINE x == [path |-> path, what |-> what]
  <2>1. IsList(<<x>>) /\ <<x>> # <<>>
    <3> HIDE DEF x
    <3> QED
      BY ListOne
  <2>2. Head(<<x>>) = x
    <3> HIDE DEF x
    <3> QED
      OBVIOUS
  <2>3. Wrong(path, what).problem = <<x>>
    <3>1. Wrong(path, what) = [error |-> <<>>, problem |-> <<x>>, value |-> <<>>]
      BY Zenon DEF Wrong
    <3> HIDE DEF x
    <3> QED
      BY <3>1
  <2>4. Problem(path, what) = <<x>>
    BY Zenon DEF Problem
  <2> HIDE DEF x
  <2> QED
    BY <2>1, <2>2, <2>3, <2>4, Zenon DEF FirstOf
<1>3. ASSUME NEW j, NEW path PROVE IsList(ModeProblems(j, path))
  BY <1>1, <1>2, Zenon DEF ModeProblems
<1> QED
  BY <1>1, <1>2, <1>3

\* So are those of the parts of a node, if those of the nodes inside it are.
LEMMA ProblemsAreLists ==
  ASSUME NEW j \in AnyJson, \A c \in Children(j) : ListsIn(c), NEW path \in Paths
  PROVE  /\ \A kind \in {"schemas", "attributes", "blocks"} :
              IsList(ProblemsByName(kind, j, path, ProblemsBelow(j)))
         /\ IsList(ProblemsByField(j, path, ProblemsBelow(j)))
         /\ IsList(ProblemsByItem(j, path, ProblemsBelow(j)))
         /\ IsList(TypeProblems(j, path, ProblemsBelow(j)))
<1>1. ASSUME NEW kind \in {"schemas", "attributes", "blocks"}
      PROVE  IsList(ProblemsByName(kind, j, path, ProblemsBelow(j)))
  <2> DEFINE pp == [k \in DOMAIN Order |->
                      IF Has(j, Order[k])
                      THEN ProblemsBelow(j)[At(j, Order[k])][MapSeeds[kind]][Append(path, Key(Order[k]))]
                      ELSE <<>>]
  <2>1. Len(Order) \in Nat /\ DOMAIN Order = 1..Len(Order) /\ \A k \in 1..Len(Order) : Order[k] \in STRING
    BY OrderAssumption
  <2>2. \A k \in 1..Len(Order) : IsList(pp[k])
    <3>1. SUFFICES ASSUME NEW k \in 1..Len(Order) PROVE IsList(pp[k])
      OBVIOUS
    <3>2. CASE Has(j, Order[k])
      <4>1. MapSeeds[kind] \in NodeKinds
        BY DEF MapSeeds, NodeKinds
      <4>2. At(j, Order[k]) \in Children(j)
        BY <3>2, AtIs
      <4>3. IsList(Problems[At(j, Order[k])][MapSeeds[kind]][Append(path, Key(Order[k]))])
        BY <2>1, <4>1, <4>2, PathsGrow DEF ListsIn
      <4>4. pp[k] = Problems[At(j, Order[k])][MapSeeds[kind]][Append(path, Key(Order[k]))]
        BY <2>1, <3>2, <4>2, ProblemsBelowIs
      <4> QED
        BY <4>3, <4>4
    <3>3. CASE ~Has(j, Order[k])
      BY <2>1, <3>3, ListEmpty, Zenon
    <3> QED
      BY <3>2, <3>3
  <2>3. pp = [k \in 1..Len(Order) |-> pp[k]]
    BY <2>1
  <2>4. ProblemsByName(kind, j, path, ProblemsBelow(j)) = FlattenSeq(pp)
    BY Zenon DEF ProblemsByName
  <2> HIDE DEF pp
  <2> QED
    BY <2>1, <2>2, <2>3, <2>4, ListIf
<1>2. IsList(ProblemsByField(j, path, ProblemsBelow(j)))
  <2> DEFINE N == Len(j.entries)
             pp == [i \in DOMAIN j.entries |->
                      IF \E k \in 1..(i - 1) : j.entries[k].key = j.entries[i].key THEN <<>>
                      ELSE ProblemsBelow(j)[At(j, j.entries[i].key)]["type"][Append(path, Key(j.entries[i].key))]]
  <2>1. N \in Nat /\ DOMAIN j.entries = 1..N /\ \A i \in 1..N : j.entries[i].key \in STRING
    BY EntryAt
  <2>2. \A i \in 1..N : IsList(pp[i])
    <3>1. SUFFICES ASSUME NEW i \in 1..N PROVE IsList(pp[i])
      OBVIOUS
    <3> DEFINE key == j.entries[i].key
    <3>2. "type" \in NodeKinds
      BY DEF NodeKinds
    <3>3. Has(j, key)
      BY <2>1 DEF Has, Places
    <3>4. At(j, key) \in Children(j)
      BY <3>3, AtIs
    <3>5. IsList(Problems[At(j, key)]["type"][Append(path, Key(key))])
      BY <2>1, <3>2, <3>4, PathsGrow DEF ListsIn
    <3>6. ProblemsBelow(j)[At(j, key)] = Problems[At(j, key)]
      BY <3>4, ProblemsBelowIs
    <3>7. pp[i] = <<>> \/ pp[i] = Problems[At(j, key)]["type"][Append(path, Key(key))]
      BY <2>1, <3>6, Zenon
    <3> HIDE DEF pp
    <3> QED
      BY <3>5, <3>7, ListEmpty
  <2>3. pp = [i \in 1..N |-> pp[i]]
    BY <2>1
  <2>4. ProblemsByField(j, path, ProblemsBelow(j)) = FlattenSeq(pp)
    BY Zenon DEF ProblemsByField
  <2> HIDE DEF pp, N
  <2> QED
    BY <2>1, <2>2, <2>3, <2>4, ListIf
<1>3. IsList(ProblemsByItem(j, path, ProblemsBelow(j)))
  <2> DEFINE N == Len(j.items)
             pp == [i \in DOMAIN j.items |-> ProblemsBelow(j)[j.items[i]]["type"][Append(path, Place(i))]]
  <2>1. N \in Nat /\ DOMAIN j.items = 1..N
    BY EntryAt
  <2>2. \A i \in 1..N : IsList(pp[i])
    <3>1. SUFFICES ASSUME NEW i \in 1..N PROVE IsList(pp[i])
      OBVIOUS
    <3>2. "type" \in NodeKinds /\ j.items[i] \in Children(j) /\ i \in Nat
      BY EntryAt DEF NodeKinds
    <3>3. IsList(Problems[j.items[i]]["type"][Append(path, Place(i))])
      BY <3>2, PathsGrow DEF ListsIn
    <3>4. pp[i] = Problems[j.items[i]]["type"][Append(path, Place(i))]
      BY <2>1, <3>2, ProblemsBelowIs
    <3> QED
      BY <3>3, <3>4
  <2>3. pp = [i \in 1..N |-> pp[i]]
    BY <2>1
  <2>4. ProblemsByItem(j, path, ProblemsBelow(j)) = FlattenSeq(pp)
    BY Zenon DEF ProblemsByItem
  <2> HIDE DEF pp, N
  <2> QED
    BY <2>1, <2>2, <2>3, <2>4, ListIf
<1>4. IsList(TypeProblems(j, path, ProblemsBelow(j)))
  <2> DEFINE inside(kind) == ProblemsBelow(j)[j.items[2]][kind][path]
             constructor == j.items[1].text
             more == j.is = "array" /\ j.items # <<>> /\ Len(j.items) # 1
             built == CASE constructor \in Collections -> inside("type")
                        [] constructor = "object" -> inside("objectType")
                        [] constructor = "tuple" -> inside("tupleType")
                        [] OTHER -> Problem(path, "unknown_constructor")
  <2>1. ASSUME more, NEW kind \in {"type", "objectType", "tupleType"}
        PROVE  IsList(inside(kind))
    <3>1. 2 \in 1..Len(j.items)
      <4>1. Len(j.items) \in Nat /\ Len(j.items) # 0
        <5>1. IsList(j.items)
          BY JsonNode DEF IsJson
        <5>2. \E x : x \in ToSet(j.items)
          BY <2>1, <5>1, ListEmpty
        <5>3. \E i \in 1..Len(j.items) : TRUE
          BY <5>1, <5>2, ListLen
        <5> QED
          BY <5>3, EntryAt
      <4>2. Len(j.items) # 1
        BY <2>1
      <4> DEFINE n == Len(j.items)
      <4> HIDE DEF n
      <4>3. n \in Nat /\ n # 0 /\ n # 1
        BY <4>1, <4>2 DEF n
      <4>4. 2 \in 1..n
        BY <4>3
      <4> QED
        BY <4>4 DEF n
    <3>2. j.items[2] \in Children(j) /\ kind \in NodeKinds
      BY <3>1, EntryAt DEF NodeKinds
    <3>3. ProblemsBelow(j)[j.items[2]] = Problems[j.items[2]]
      BY <3>2, ProblemsBelowIs
    <3> QED
      BY <3>2, <3>3 DEF ListsIn
  <2>2. more => IsList(built)
    <3> HIDE DEF more, inside
    <3>1. "object" \notin Collections /\ "tuple" \notin Collections
      BY DEF Collections
    <3>2. /\ more => IsList(inside("type")) /\ IsList(inside("objectType")) /\ IsList(inside("tupleType"))
          /\ IsList(Problem(path, "unknown_constructor"))
      BY <2>1, ListProblem
    <3> QED
      BY <3>1, <3>2, Zenon
  <2>3. TypeProblems(j, path, ProblemsBelow(j))
          = IF j.is = "string" THEN IF j.text \in Primitives THEN <<>> ELSE Problem(path, "unknown_primitive")
            ELSE IF j.is # "array" THEN Problem(path, "expected_array")
            ELSE IF j.items = <<>> THEN Problem(path, "missing_constructor")
            ELSE IF j.items[1].is # "string" THEN Problem(path, "missing_constructor")
            ELSE IF Len(j.items) = 1 THEN Problem(path, "missing_constructor_parameter")
            ELSE built
    BY Zenon DEF TypeProblems
  <2> HIDE DEF built
  <2> QED
    BY <2>2, <2>3, ListProblem
<1> QED
  BY <1>1, <1>2, <1>3, <1>4

\* The problems of a node are what Problems says.
LEMMA ProblemsOfNode ==
  ASSUME NEW j \in AnyJson, NEW path \in Paths
  PROVE  NodeParts(j, path) /\ ObjectParts(j, path)
<1> DEFINE of(key, part) == IF Has(j, key) THEN ProblemsBelow(j)[At(j, key)][part][path] ELSE <<>>
           in(kind) == ProblemsIn(kind, j, path, ProblemsBelow(j))
<1>1. \A kind \in NodeKinds : Problems[j][kind][path] = in(kind)
  BY ProblemsIs DEF ProblemsBelow
<1>2. \A key, part : of(key, part) = PartProblems(j, key, part, path)
  <2>1. SUFFICES ASSUME NEW key, NEW part PROVE of(key, part) = PartProblems(j, key, part, path)
    OBVIOUS
  <2>2. CASE Has(j, key)
    <3>1. At(j, key) \in Children(j)
      BY <2>2, AtIs
    <3>2. ProblemsBelow(j)[At(j, key)] = Problems[At(j, key)]
      BY <3>1, ProblemsBelowIs
    <3> QED
      BY <2>2, <3>2 DEF PartProblems
  <2>3. CASE ~Has(j, key)
    BY <2>3 DEF PartProblems
  <2> QED
    BY <2>2, <2>3
<1>3. /\ in("schemas") = ProblemsByName("schemas", j, path, ProblemsBelow(j))
      /\ in("attributes") = ProblemsByName("attributes", j, path, ProblemsBelow(j))
      /\ in("blocks") = ProblemsByName("blocks", j, path, ProblemsBelow(j))
      /\ in("type") = TypeProblems(j, path, ProblemsBelow(j))
  BY DEF ProblemsIn
<1>4. in("objectType") = IF j.is = "object" THEN ProblemsByField(j, path, ProblemsBelow(j))
                         ELSE Problem(path, "expected_object")
  BY DEF ProblemsIn
<1>5. in("tupleType") = IF j.is = "array" THEN ProblemsByItem(j, path, ProblemsBelow(j))
                        ELSE Problem(path, "expected_tuple")
  BY DEF ProblemsIn
<1>6. in("schema") = of("block", "block")
  BY DEF ProblemsIn
<1>7. in("block") = of("attributes", "attributes") \o of("block_types", "blocks")
  BY DEF ProblemsIn
<1>8. in("nestedBlock") = ModeProblems(j, path) \o of("block", "block")
  BY DEF ProblemsIn
<1>9. in("attribute") = IF Present(j, "type") THEN of("type", "type")
                        ELSE IF Present(j, "nested_type") THEN of("nested_type", "nestedType")
                        ELSE Problem(path, "missing_type")
  BY DEF ProblemsIn
<1>10. in("nestedType") = of("attributes", "attributes") \o ModeProblems(j, path)
  BY DEF ProblemsIn
<1> HIDE DEF in, of
<1>11. NodeParts(j, path)
  BY <1>1, <1>3, <1>4, <1>5 DEF NodeParts, NodeKinds
<1>12. ObjectParts(j, path)
  <2>1. /\ Problems[j]["schema"][path] = in("schema") /\ Problems[j]["block"][path] = in("block")
        /\ Problems[j]["nestedBlock"][path] = in("nestedBlock")
        /\ Problems[j]["attribute"][path] = in("attribute")
        /\ Problems[j]["nestedType"][path] = in("nestedType")
    BY <1>1 DEF NodeKinds
  <2> QED
    BY <1>2, <1>6, <1>7, <1>8, <1>9, <1>10, <2>1 DEF ObjectParts
<1> QED
  BY <1>11, <1>12

\* All problems of all nodes are lists.
LEMMA ProblemLists ==
  \A j \in AnyJson : ListsIn(j)
<1> DEFINE S == {j \in AnyJson : ListsIn(j)}
<1>1. ASSUME NEW j \in AnyJson, Children(j) \subseteq S
      PROVE  j \in S
  <2>1. \A c \in Children(j) : ListsIn(c)
    BY <1>1
  <2>2. ASSUME NEW path \in Paths, NEW kind \in NodeKinds PROVE IsList(Problems[j][kind][path])
    <3>1. NodeParts(j, path) /\ ObjectParts(j, path)
      BY ProblemsOfNode
    <3>2. ASSUME NEW key, NEW part \in NodeKinds PROVE IsList(PartProblems(j, key, part, path))
      <4>1. CASE Has(j, key)
        <5>1. At(j, key) \in Children(j)
          BY <4>1, AtIs
        <5> QED
          BY <2>1, <4>1, <5>1 DEF PartProblems, ListsIn
      <4>2. CASE ~Has(j, key)
        BY <4>2, ListEmpty DEF PartProblems
      <4> QED
        BY <4>1, <4>2
    <3>3. \A s, t : IsList(s) /\ IsList(t) => IsList(s \o t)
      BY ListConcat
    <3>4. CASE kind \in {"schemas", "attributes", "blocks"}
      BY <2>1, <3>1, <3>4, ProblemsAreLists DEF NodeParts
    <3>5. CASE kind \in {"type", "objectType", "tupleType"}
      <4>1. /\ IsList(Problems[j]["type"][path]) /\ IsList(Problems[j]["objectType"][path])
            /\ IsList(Problems[j]["tupleType"][path])
        BY <2>1, <3>1, ProblemsAreLists, ListProblem DEF NodeParts
      <4> QED
        BY <3>5, <4>1
    <3>6. CASE kind \in {"schema", "block", "nestedBlock", "attribute", "nestedType"}
      <4>1. /\ IsList(PartProblems(j, "block", "block", path))
            /\ IsList(PartProblems(j, "attributes", "attributes", path))
            /\ IsList(PartProblems(j, "block_types", "blocks", path))
            /\ IsList(PartProblems(j, "type", "type", path))
            /\ IsList(PartProblems(j, "nested_type", "nestedType", path))
        BY <3>2 DEF NodeKinds
      <4>2. IsList(ModeProblems(j, path)) /\ IsList(Problem(path, "missing_type"))
        BY ListProblem
      <4>3. /\ IsList(Problems[j]["schema"][path]) /\ IsList(Problems[j]["block"][path])
            /\ IsList(Problems[j]["nestedBlock"][path]) /\ IsList(Problems[j]["attribute"][path])
            /\ IsList(Problems[j]["nestedType"][path])
        BY <3>1, <3>3, <4>1, <4>2 DEF ObjectParts
      <4> QED
        BY <3>6, <4>3
    <3> QED
      BY <3>4, <3>5, <3>6 DEF NodeKinds
  <2> QED
    BY <2>2 DEF ListsIn
<1> HIDE DEF S
<1>2. AnyJson \subseteq S
  BY <1>1, JsonInduction
<1> QED
  BY <1>2 DEF S

\* A node of a plain kind tells what is promised of it.
LEMMA PlainTells ==
  ASSUME NEW j, Held(j), NEW kind \in PlainKinds, NEW path \in Paths, Read[j][kind][path].error = <<>>
  PROVE  Read[j][kind][path].problem = FirstOf(Problems[j][kind][path])
<1>1. kind \in RawKinds /\ kind \in NodeKinds /\ kind \notin {"attributes", "blocks", "schemas"}
  BY DEF RawKinds, NodeKinds, PlainKinds
<1>2. Meant(j, kind, path)
  BY <1>1 DEF Held, HoldsOf
<1> QED
  BY <1>1, <1>2 DEF Meant, TellsNode, Told

\* No result and no problem go together, and one result and what it has.
LEMMA TogetherOne ==
  /\ Together(<<>>, <<>>)
  /\ \A y, p : y.result.error = <<>> /\ IsList(p) /\ y.result.problem = FirstOf(p)
                 => Together(<<y>>, p)
<1>1. Together(<<>>, <<>>)
  BY ListEmpty, FirstSimple DEF Together, FirstOf
<1>2. ASSUME NEW y, NEW p, y.result.error = <<>>, IsList(p), y.result.problem = FirstOf(p)
      PROVE  Together(<<y>>, p)
  BY <1>2, ListOne, FirstSimple DEF Together
<1> QED
  BY <1>1, <1>2

\* The last entry of a name and the problems of its value go together.
LEMMA LastTogether ==
  ASSUME NEW j \in AnyJson, \A c \in Children(j) : Held(c), NEW kind \in PlainKinds, NEW path \in Paths,
         NEW s, ReadsEntries(s, j, kind, path), NEW name \in STRING, Has(j, name)
  PROVE  Together(<<LastOf(s, name)>>, Problems[At(j, name)][kind][Append(path, Key(name))])
<1> DEFINE i == Max(Places(j, name))
<1>1. /\ i \in 1..Len(j.entries) /\ j.entries[i].key = name /\ At(j, name) = j.entries[i].value
      /\ At(j, name) \in Children(j) /\ At(j, name) \in AnyJson
  BY AtIs
<1>2. LastOf(s, name) = s[i] /\ i \in DOMAIN s
  BY <1>1, NamedPlaces, EntryAt DEF LastOf, ReadsEntries, NamedAs
<1>3. /\ s[i].result = Read[At(j, name)][kind][Append(path, Key(name))]
      /\ s[i].result.error = <<>>
  BY <1>1, <1>2 DEF ReadsEntries
<1>4. Append(path, Key(name)) \in Paths
  BY PathsGrow
<1>5. s[i].result.problem = FirstOf(Problems[At(j, name)][kind][Append(path, Key(name))])
  BY <1>1, <1>3, <1>4, PlainTells
<1>6. kind \in NodeKinds
  BY DEF PlainKinds, NodeKinds
<1>7. IsList(Problems[At(j, name)][kind][Append(path, Key(name))])
  BY <1>1, <1>4, <1>6, ProblemLists DEF ListsIn
<1> QED
  BY <1>2, <1>3, <1>5, <1>7, TogetherOne

\* A map's results, sorted, go together with its problems by name (sort_unique).
LEMMA ByNameTogether ==
  ASSUME NEW j \in AnyJson, \A c \in Children(j) : Held(c), NEW path \in Paths,
         NEW kind \in {"schemas", "attributes", "blocks"},
         NEW s, ReadsEntries(s, j, MapSeeds[kind], path)
  PROVE  Together(SortUnique(s), ProblemsByName(kind, j, path, ProblemsBelow(j)))
<1> DEFINE sub == MapSeeds[kind]
           ss == [k \in DOMAIN Order |-> IF Named(s, Order[k]) = {} THEN <<>> ELSE <<LastOf(s, Order[k])>>]
           pp == [k \in DOMAIN Order |->
                    IF Has(j, Order[k])
                    THEN ProblemsBelow(j)[At(j, Order[k])][sub][Append(path, Key(Order[k]))]
                    ELSE <<>>]
<1>1. /\ Len(Order) \in Nat /\ DOMAIN Order = 1..Len(Order) /\ \A k \in DOMAIN Order : Order[k] \in STRING
      /\ sub \in PlainKinds
  BY OrderAssumption DEF MapSeeds, PlainKinds
<1>2. ASSUME NEW k \in DOMAIN Order
      PROVE  Together(ss[k], pp[k])
  <2>1. Named(s, Order[k]) = {} <=> ~Has(j, Order[k])
    BY NamedPlaces DEF ReadsEntries, Has
  <2>2. CASE Has(j, Order[k])
    <3>1. At(j, Order[k]) \in Children(j)
      BY <2>2, AtIs
    <3>2. ProblemsBelow(j)[At(j, Order[k])] = Problems[At(j, Order[k])]
      BY <3>1, ProblemsBelowIs
    <3>3. ss[k] = <<LastOf(s, Order[k])>>
      BY <2>1, <2>2, Zenon
    <3>4. pp[k] = Problems[At(j, Order[k])][sub][Append(path, Key(Order[k]))]
      BY <2>2, <3>2
    <3>5. Together(<<LastOf(s, Order[k])>>, Problems[At(j, Order[k])][sub][Append(path, Key(Order[k]))])
      BY <1>1, <2>2, LastTogether
    <3> QED
      BY <3>3, <3>4, <3>5, Zenon
  <2>3. CASE ~Has(j, Order[k])
    <3>1. ss[k] = <<>> /\ pp[k] = <<>>
      BY <2>1, <2>3, Zenon
    <3> QED
      BY <3>1, TogetherOne
  <2> QED
    BY <2>2, <2>3
<1>3. IsList(ss) /\ DOMAIN ss = DOMAIN Order
  <2>1. ss = [k \in 1..Len(Order) |-> ss[k]] /\ DOMAIN ss = DOMAIN Order
    BY <1>1
  <2> HIDE DEF ss
  <2> QED
    BY <1>1, <2>1, ListMade
<1>4. IsList(pp) /\ DOMAIN pp = DOMAIN Order
  <2>1. pp = [k \in 1..Len(Order) |-> pp[k]] /\ DOMAIN pp = DOMAIN Order
    BY <1>1
  <2> HIDE DEF pp
  <2> QED
    BY <1>1, <2>1, ListMade
<1>5. SortUnique(s) = FlattenSeq(ss) /\ ProblemsByName(kind, j, path, ProblemsBelow(j)) = FlattenSeq(pp)
  BY Zenon DEF SortUnique, SortUniqueBy, ProblemsByName
<1> HIDE DEF ss, pp
<1>6. AllTogether(ss, pp)
  BY <1>2, <1>3, <1>4 DEF AllTogether
<1> QED
  BY <1>3, <1>4, <1>5, <1>6, FlatTogether

\* The fields of a cty object, merged, go together with its problems in document order
\* (merge_repeated_keys).
LEMMA ByFieldTogether ==
  ASSUME NEW j \in AnyJson, \A c \in Children(j) : Held(c), NEW path \in Paths,
         NEW s, ReadsEntries(s, j, "type", path)
  PROVE  Together(MergeRepeated(s), ProblemsByField(j, path, ProblemsBelow(j)))
<1> DEFINE E == j.entries
           ss == [i \in DOMAIN s |->
                    IF \E k \in 1..(i - 1) : s[k].name = s[i].name THEN <<>> ELSE <<LastOf(s, s[i].name)>>]
           pp == [i \in DOMAIN E |->
                    IF \E k \in 1..(i - 1) : E[k].key = E[i].key THEN <<>>
                    ELSE ProblemsBelow(j)[At(j, E[i].key)]["type"][Append(path, Key(E[i].key))]]
<1>1. /\ Len(E) \in Nat /\ DOMAIN E = 1..Len(E) /\ \A i \in DOMAIN E : E[i].key \in STRING
      /\ DOMAIN s = DOMAIN E /\ \A i \in DOMAIN E : s[i].name = E[i].key
  BY EntryAt DEF ReadsEntries, NamedAs
<1>2. ASSUME NEW i \in DOMAIN E
      PROVE  Together(ss[i], pp[i])
  <2> DEFINE key == E[i].key
  <2>1. (\E k \in 1..(i - 1) : s[k].name = s[i].name) <=> \E k \in 1..(i - 1) : E[k].key = E[i].key
    <3>1. \A k \in 1..(i - 1) : k \in DOMAIN E
      BY <1>1
    <3> QED
      BY <1>1, <3>1
  <2>2. CASE \E k \in 1..(i - 1) : E[k].key = E[i].key
    <3>1. ss[i] = <<>> /\ pp[i] = <<>>
      BY <1>1, <2>1, <2>2, Zenon
    <3> QED
      BY <3>1, TogetherOne
  <2>3. CASE ~\E k \in 1..(i - 1) : E[k].key = E[i].key
    <3>1. Has(j, key) /\ key \in STRING /\ s[i].name = key
      BY <1>1 DEF Has, Places
    <3>2. At(j, key) \in Children(j)
      BY <3>1, AtIs
    <3>3. ProblemsBelow(j)[At(j, key)] = Problems[At(j, key)]
      BY <3>2, ProblemsBelowIs
    <3>4. ss[i] = <<LastOf(s, s[i].name)>>
      BY <1>1, <2>1, <2>3, Zenon
    <3>5. pp[i] = Problems[At(j, key)]["type"][Append(path, Key(key))]
      BY <2>3, <3>3, Zenon
    <3>6. "type" \in PlainKinds
      BY DEF PlainKinds
    <3>7. Together(<<LastOf(s, key)>>, Problems[At(j, key)]["type"][Append(path, Key(key))])
      BY <3>1, <3>6, LastTogether
    <3> HIDE DEF ss, pp, key
    <3> QED
      BY <3>1, <3>4, <3>5, <3>7
  <2> QED
    BY <2>2, <2>3
<1>3. IsList(ss) /\ DOMAIN ss = DOMAIN E
  <2>1. ss = [k \in 1..Len(E) |-> ss[k]] /\ DOMAIN ss = DOMAIN E
    BY <1>1, Zenon
  <2> HIDE DEF ss
  <2> QED
    BY <1>1, <2>1, ListMade
<1>4. IsList(pp) /\ DOMAIN pp = DOMAIN E
  <2>1. pp = [k \in 1..Len(E) |-> pp[k]] /\ DOMAIN pp = DOMAIN E
    BY <1>1, Zenon
  <2> HIDE DEF pp
  <2> QED
    BY <1>1, <2>1, ListMade
<1>5. MergeRepeated(s) = FlattenSeq(ss) /\ ProblemsByField(j, path, ProblemsBelow(j)) = FlattenSeq(pp)
  BY Zenon DEF MergeRepeated, ProblemsByField
<1> HIDE DEF ss, pp
<1>6. AllTogether(ss, pp)
  BY <1>2, <1>3, <1>4 DEF AllTogether
<1> QED
  BY <1>3, <1>4, <1>5, <1>6, FlatTogether

\* The items of a tuple, as results without a name.
ReadsItems(s, j, path) ==
  /\ IsList(s) /\ DOMAIN s = DOMAIN j.items
  /\ \A i \in DOMAIN s : /\ s[i].result = Read[j.items[i]]["type"][Append(path, Place(i))]
                         /\ s[i].result.error = <<>>

\* The items of a tuple go together with its problems.
LEMMA ByItemTogether ==
  ASSUME NEW j \in AnyJson, \A c \in Children(j) : Held(c), NEW path \in Paths,
         NEW s, ReadsItems(s, j, path)
  PROVE  Together(s, ProblemsByItem(j, path, ProblemsBelow(j)))
<1> DEFINE N == Len(j.items)
           sub(i) == Problems[j.items[i]]["type"][Append(path, Place(i))]
           ss == [i \in 1..N |-> <<s[i]>>]
           pp == [i \in DOMAIN j.items |-> ProblemsBelow(j)[j.items[i]]["type"][Append(path, Place(i))]]
<1>1. N \in Nat /\ DOMAIN j.items = 1..N /\ \A i \in 1..N : j.items[i] \in Children(j)
  BY EntryAt
<1>2. IsList(s) /\ DOMAIN s = 1..N /\ Len(s) = N
  <2> HIDE DEF N
  <2>1. IsList(s) /\ DOMAIN s = 1..N /\ Len(s) \in Nat /\ DOMAIN s = 1..Len(s)
    BY <1>1, ListLen DEF ReadsItems
  <2> QED
    BY <1>1, <2>1
<1>3. ASSUME NEW i \in 1..N
      PROVE  Together(ss[i], pp[i])
  <2>1. Append(path, Place(i)) \in Paths /\ "type" \in PlainKinds /\ "type" \in NodeKinds
    BY <1>1, PathsGrow DEF PlainKinds, NodeKinds
  <2>2. /\ s[i].result = Read[j.items[i]]["type"][Append(path, Place(i))]
        /\ s[i].result.error = <<>>
    BY <1>2 DEF ReadsItems
  <2>4. s[i].result.problem = FirstOf(sub(i))
    BY <1>1, <2>1, <2>2, PlainTells
  <2>5. IsList(sub(i))
    BY <1>1, <2>1, EntryAt, ProblemLists DEF ListsIn
  <2>6. ss[i] = <<s[i]>>
    BY Zenon
  <2>7. pp[i] = sub(i)
    BY <1>1, ProblemsBelowIs
  <2> HIDE DEF ss, pp, sub
  <2> QED
    BY <2>2, <2>4, <2>5, <2>6, <2>7, TogetherOne
<1>4. IsList(ss) /\ DOMAIN ss = 1..N /\ Len(ss) = N
  <2>1. ss = [k \in 1..N |-> ss[k]]
    BY Zenon
  <2> HIDE DEF ss, N
  <2> QED
    BY <1>1, <2>1, ListMade
<1>5. IsList(pp) /\ DOMAIN pp = 1..N
  <2>1. pp = [k \in 1..N |-> pp[k]]
    BY <1>1
  <2> HIDE DEF pp, N
  <2> QED
    BY <1>1, <2>1, ListMade
<1>6. FlattenSeq(ss) = s
  <2>1. \A i \in DOMAIN ss : ss[i] = <<s[i]>>
    BY Zenon
  <2>2. s = [i \in 1..N |-> s[i]]
    <3> HIDE DEF N
    <3> QED
      BY <1>2, ListLen
  <2>3. FlattenSeq(ss) = [i \in DOMAIN ss |-> s[i]]
    <3> HIDE DEF ss
    <3> QED
      BY <1>4, <2>1, FlatOnes
  <2> HIDE DEF ss
  <2> QED
    BY <1>4, <2>2, <2>3, Zenon
<1>7. ProblemsByItem(j, path, ProblemsBelow(j)) = FlattenSeq(pp)
  BY Zenon DEF ProblemsByItem
<1> HIDE DEF ss, pp, N
<1>8. AllTogether(ss, pp)
  BY <1>3, <1>4, <1>5 DEF AllTogether
<1>9. Together(FlattenSeq(ss), FlattenSeq(pp))
  BY <1>4, <1>5, <1>8, FlatTogether
<1> QED
  BY <1>6, <1>7, <1>9

-----------------------------------------------------------------------------
\* The objects of the raw format.

\* The objects of the raw format: well-formed if they can be read, and then read as
\* what the last value of each known name is.
RawSeeds == {"document", "provider", "schema", "block", "attribute", "nestedType", "nestedBlock"}

\* What the objects of the raw format are made of.
LEMMA RawSeedKinds ==
  ASSUME NEW kind \in RawSeeds
  PROVE  /\ kind \in DOMAIN Seeds
         /\ \A key \in DOMAIN Seeds[kind].fields : Seeds[kind].fields[key] \in RawKinds
         /\ Seeds[kind].required \subseteq DOMAIN Seeds[kind].fields
<1>1. CASE kind = "document"
  <2>1. kind \in DOMAIN Seeds /\ Seeds[kind] = DocumentSeed
    BY <1>1 DEF Seeds
  <2> QED
    BY <2>1 DEF DocumentSeed, Seed, RawKinds, NodeKinds
<1>2. CASE kind = "provider"
  <2>1. kind \in DOMAIN Seeds /\ Seeds[kind] = ProviderSeed
    BY <1>2 DEF Seeds
  <2> QED
    BY <2>1 DEF ProviderSeed, Seed, RawKinds, NodeKinds
<1>3. CASE kind = "schema"
  <2>1. kind \in DOMAIN Seeds /\ Seeds[kind] = SchemaSeed
    BY <1>3 DEF Seeds
  <2> QED
    BY <2>1 DEF SchemaSeed, Seed, RawKinds, NodeKinds
<1>4. CASE kind = "block"
  <2>1. kind \in DOMAIN Seeds /\ Seeds[kind] = BlockSeed
    BY <1>4 DEF Seeds
  <2> QED
    BY <2>1 DEF BlockSeed, Seed, RawKinds, NodeKinds
<1>5. CASE kind = "attribute"
  <2>1. kind \in DOMAIN Seeds /\ Seeds[kind] = AttributeSeed
    BY <1>5 DEF Seeds
  <2> QED
    BY <2>1 DEF AttributeSeed, Seed, RawKinds, NodeKinds
<1>6. CASE kind = "nestedType"
  <2>1. kind \in DOMAIN Seeds /\ Seeds[kind] = NestedTypeSeed
    BY <1>6 DEF Seeds
  <2> QED
    BY <2>1 DEF NestedTypeSeed, Seed, RawKinds, NodeKinds
<1>7. CASE kind = "nestedBlock"
  <2>1. kind \in DOMAIN Seeds /\ Seeds[kind] = NestedBlockSeed
    BY <1>7 DEF Seeds
  <2> QED
    BY <2>1 DEF NestedBlockSeed, Seed, RawKinds, NodeKinds
<1> QED
  BY <1>1, <1>2, <1>3, <1>4, <1>5, <1>6, <1>7 DEF RawSeeds

\* A child is read without an error if it is well-formed, and then it means what it promises.
LEMMA ChildHeld ==
  ASSUME NEW c, Held(c), NEW kind \in RawKinds, NEW path \in Paths
  PROVE  HoldsOf(c, kind, path)
BY DEF Held

\* An object is read without an error if it is well-formed.
LEMMA SoundIs ==
  ASSUME NEW j \in AnyJson, \A c \in Children(j) : Held(c), NEW kind \in RawSeeds, NEW path \in Paths
  PROVE  Sound(kind, j, path, Below(j)) <=> HasFields(Seeds[kind], j, FormedBelow(j))
<1> DEFINE E == j.entries
           F == Seeds[kind].fields
           K == Known(kind, j)
<1>1. /\ Len(E) \in Nat /\ DOMAIN E = 1..Len(E)
      /\ K \subseteq 1..Len(E)
      /\ K = {i \in DOMAIN E : E[i].key \in DOMAIN F}
  BY EntryAt DEF Known
<1>2. ASSUME NEW i \in K
      PROVE  FieldAt(kind, j, path, Below(j), i).error = <<>> <=> FormedBelow(j)[E[i].value][F[E[i].key]]
  <2> DEFINE c == E[i].value
             sub == F[E[i].key]
             below == PathBelow(kind, E[i].key, path)
  <2>1. c \in Children(j) /\ E[i].key \in DOMAIN F
    BY <1>1, EntryAt DEF Known
  <2>2. sub \in RawKinds /\ below \in Paths
    BY <2>1, RawSeedKinds, PathsGrow
  <2>3. HoldsOf(c, sub, below)
    BY <2>1, <2>2, ChildHeld
  <2>4. Below(j)[c] = Read[c] /\ FormedBelow(j)[c] = WellFormed[c]
    BY <2>1, BelowIs, FormedBelowIs
  <2>5. FieldAt(kind, j, path, Below(j), i) = Read[c][sub][below]
    BY <2>4, Zenon DEF FieldAt
  <2> QED
    BY <2>3, <2>4, <2>5 DEF HoldsOf
<1>3. (\A i \in K : ~Again(j, i)) <=> \A i, m \in K : E[i].key = E[m].key => i = m
  <2>1. ASSUME \A i \in K : ~Again(j, i), NEW i \in K, NEW m \in K, E[i].key = E[m].key
        PROVE  i = m
    <3>1. ~(i < m)
      <4>1. i < m => i \in 1..(m - 1)
        BY <1>1
      <4> QED
        BY <2>1, <4>1 DEF Again
    <3>2. ~(m < i)
      <4>1. m < i => m \in 1..(i - 1)
        BY <1>1
      <4> QED
        BY <2>1, <4>1 DEF Again
    <3> QED
      BY <1>1, <3>1, <3>2
  <2>2. ASSUME \A i, m \in K : E[i].key = E[m].key => i = m, NEW i \in K, Again(j, i)
        PROVE  FALSE
    <3>1. PICK m \in 1..(i - 1) : E[m].key = E[i].key
      BY <2>2 DEF Again
    <3>2. m \in K /\ m # i
      BY <1>1, <3>1
    <3> QED
      BY <2>2, <3>1, <3>2
  <2> QED
    BY <2>1, <2>2
<1>4. Sound(kind, j, path, Below(j))
        <=> /\ j.is = "object"
            /\ \A i \in K : ~Again(j, i)
            /\ \A i \in K : FieldAt(kind, j, path, Below(j), i).error = <<>>
            /\ \A key \in Seeds[kind].required : \E i \in K : E[i].key = key
  BY Zenon DEF Sound
<1>5. HasFields(Seeds[kind], j, FormedBelow(j))
        <=> /\ j.is = "object"
            /\ \A i, m \in K : E[i].key = E[m].key => i = m
            /\ \A i \in K : FormedBelow(j)[E[i].value][F[E[i].key]]
            /\ \A key \in Seeds[kind].required : \E i \in K : E[i].key = key
  <2> HIDE DEF K
  <2> QED
    BY <1>1, Zenon DEF HasFields
<1> HIDE DEF K
<1> QED
  BY <1>2, <1>3, <1>4, <1>5

\* An object that is well-formed is finished with such fields.
LEMMA RawFieldsRead ==
  ASSUME NEW j \in AnyJson, \A c \in Children(j) : Held(c), NEW kind \in RawSeeds, NEW path \in Paths
  PROVE  /\ ~HasFields(Seeds[kind], j, FormedBelow(j)) => ReadFields(kind, j, path, Below(j)).error # <<>>
         /\ HasFields(Seeds[kind], j, FormedBelow(j)) => ReadsFields(kind, j, path)
<1> DEFINE E == j.entries
           F == Seeds[kind].fields
           K == Known(kind, j)
<1>1. ~HasFields(Seeds[kind], j, FormedBelow(j)) => ReadFields(kind, j, path, Below(j)).error # <<>>
  BY SoundIs, FieldsRead
<1>2. ASSUME HasFields(Seeds[kind], j, FormedBelow(j))
      PROVE  ReadsFields(kind, j, path)
  <2>1. Sound(kind, j, path, Below(j))
    BY <1>2, SoundIs
  <2>2. PICK found : /\ IsFound(found, kind, j, path, Below(j))
                     /\ ReadFields(kind, j, path, Below(j)) = Finished(kind, found, path)
    BY <2>1, FieldsRead
  <2>3. /\ Len(E) \in Nat /\ DOMAIN E = 1..Len(E)
    BY EntryAt
  <2>4. DOMAIN found = {E[i].key : i \in K}
    BY <2>2 DEF IsFound
  <2>5. DOMAIN found = {key \in DOMAIN F : Has(j, key)}
    <3>1. ASSUME NEW key \in DOMAIN F, Has(j, key) PROVE \E i \in K : E[i].key = key
      BY <2>3, <3>1 DEF Has, Places, Known
    <3>2. ASSUME NEW i \in K PROVE E[i].key \in DOMAIN F /\ Has(j, E[i].key)
      BY <2>3 DEF Has, Places, Known
    <3> HIDE DEF K
    <3> QED
      BY <2>4, <3>1, <3>2
  <2>6. Seeds[kind].required \subseteq DOMAIN found
    BY <2>1, <2>4 DEF Sound
  <2>7. ASSUME NEW key \in DOMAIN found
        PROVE  LET below == PathBelow(kind, key, path) IN
               /\ found[key] = Read[At(j, key)][F[key]][below]
               /\ found[key].error = <<>>
               /\ At(j, key) \in Children(j)
               /\ WellFormed[At(j, key)][F[key]]
               /\ Meant(At(j, key), F[key], below)
    <3> DEFINE below == PathBelow(kind, key, path)
               i == Max(Places(j, key))
    <3>1. key \in DOMAIN F /\ Has(j, key)
      BY <2>5
    <3>2. /\ i \in 1..Len(E) /\ E[i].key = key /\ At(j, key) = E[i].value
          /\ At(j, key) \in Children(j)
      BY <3>1, AtIs
    <3>3. i \in K
      BY <3>1, <3>2 DEF Known
    <3>4. found[key] = FieldAt(kind, j, path, Below(j), i)
      BY <2>2, <3>2, <3>3 DEF IsFound
    <3>5. found[key] = Read[At(j, key)][F[key]][below]
      <4>1. Below(j)[At(j, key)] = Read[At(j, key)]
        BY <3>2, BelowIs
      <4>2. FieldAt(kind, j, path, Below(j), i) = Below(j)[E[i].value][F[E[i].key]][PathBelow(kind, E[i].key, path)]
        BY Zenon DEF FieldAt
      <4> HIDE DEF i
      <4> QED
        BY <3>2, <3>4, <4>1, <4>2
    <3>6. found[key].error = <<>>
      BY <2>1, <3>3, <3>4 DEF Sound
    <3>7. HoldsOf(At(j, key), F[key], below)
      BY <3>1, <3>2, RawSeedKinds, PathsGrow, ChildHeld
    <3> QED
      BY <3>2, <3>5, <3>6, <3>7 DEF HoldsOf
  <2>8. RawFields(found, kind, j, path)
    BY <2>5, <2>6, <2>7, Zenon DEF RawFields
  <2> QED
    BY <2>2, <2>8 DEF ReadsFields
<1> QED
  BY <1>1, <1>2

\* What the seeds of the raw format return.
LEMMA FinishedRaw ==
  ASSUME NEW found, NEW path
  PROVE  /\ Finished("document", found, path) = FinishedDocument(found)
         /\ Finished("provider", found, path) = FinishedProvider(found)
         /\ Finished("schema", found, path) = found["block"]
         /\ Finished("block", found, path)
              = NormalizedBlock(Optional(found, "attributes", <<>>), Optional(found, "block_types", <<>>))
         /\ Finished("attribute", found, path) = FinishedAttribute(found, path)
         /\ Finished("nestedType", found, path)
              = NestedType(found["nesting_mode"].value, Optional(found, "attributes", <<>>), path)
         /\ Finished("nestedBlock", found, path) = FinishedNestedBlock(found, path)
<1>1. Finished("document", found, path) = FinishedDocument(found)
  BY DEF Finished
<1>2. Finished("provider", found, path) = FinishedProvider(found)
  BY DEF Finished
<1>3. Finished("schema", found, path) = found["block"]
  BY DEF Finished
<1>4. Finished("block", found, path)
        = NormalizedBlock(Optional(found, "attributes", <<>>), Optional(found, "block_types", <<>>))
  BY DEF Finished
<1>5. Finished("attribute", found, path) = FinishedAttribute(found, path)
  BY DEF Finished
<1>6. Finished("nestedType", found, path)
        = NestedType(found["nesting_mode"].value, Optional(found, "attributes", <<>>), path)
  BY DEF Finished
<1>7. Finished("nestedBlock", found, path) = FinishedNestedBlock(found, path)
  BY DEF Finished
<1> QED
  BY <1>1, <1>2, <1>3, <1>4, <1>5, <1>6, <1>7

\* The three kinds of result.
LEMMA ResultsAre ==
  /\ \A value : Good(value).error = <<>> /\ Good(value).problem = <<>> /\ Good(value).value = value
  /\ \A path, what : Wrong(path, what).error = <<>> /\ Wrong(path, what).problem # <<>>
  /\ \A error : Bad(error).error # <<>>
<1>1. \A value : Good(value).error = <<>> /\ Good(value).problem = <<>> /\ Good(value).value = value
  BY DEF Good
<1>2. ASSUME NEW path, NEW what PROVE Wrong(path, what).error = <<>> /\ Wrong(path, what).problem # <<>>
  <2> DEFINE x == [path |-> path, what |-> what]
  <2>1. Wrong(path, what) = [error |-> <<>>, problem |-> <<x>>, value |-> <<>>]
    BY Zenon DEF Wrong
  <2> HIDE DEF x
  <2> QED
    BY <2>1
<1>3. \A error : Bad(error).error # <<>>
  BY DEF Bad
<1> QED
  BY <1>1, <1>2, <1>3

\* A value has no problem.
LEMMA TellsNone ==
  ASSUME NEW value
  PROVE  Tells(Good(value), <<>>)
BY ResultsAre DEF Tells, FirstOf

\* One result after another, the first with problems winning.
LEMMA TellsOneByOne ==
  ASSUME NEW r, NEW s, NEW p, NEW q, IsList(p), IsList(q), Tells(r, p), Tells(s, q),
         NEW result, ~Usable(r) => result = r,
         Usable(r) => result.error = s.error /\ result.problem = s.problem
  PROVE  Tells(result, p \o q)
<1>1. FirstOf(p \o q) = Earlier(FirstOf(p), FirstOf(q))
  BY FirstOfConcat
<1> QED
  BY <1>1 DEF Tells, Usable, Earlier

\* Wrapping a value changes neither error nor problem.
LEMMA ThenSame ==
  /\ \A result, value : (Usable(result) => Usable(Good(value)))
  /\ \A mode, path : Tells(NestingMode(mode, path), IF mode \in Modes THEN <<>> ELSE Problem(path, "nesting_mode"))
<1>1. \A result, value : (Usable(result) => Usable(Good(value)))
  BY ResultsAre DEF Usable
<1>2. ASSUME NEW mode, NEW path
      PROVE  Tells(NestingMode(mode, path), IF mode \in Modes THEN <<>> ELSE Problem(path, "nesting_mode"))
  <2>1. CASE mode \in Modes
    <3>1. NestingMode(mode, path) = Good(mode)
      BY <2>1, Zenon DEF NestingMode
    <3> QED
      BY <2>1, <3>1, TellsNone
  <2>2. CASE mode \notin Modes
    <3>1. NestingMode(mode, path) = Wrong(path, "nesting_mode")
      BY <2>2, Zenon DEF NestingMode
    <3>2. Tells(Wrong(path, "nesting_mode"), Problem(path, "nesting_mode"))
      BY ListProblem, ResultsAre DEF Tells
    <3> QED
      BY <2>2, <3>1, <3>2
  <2> QED
    BY <2>1, <2>2
<1> QED
  BY <1>1, <1>2

\* The fields of attributes or blocks of an object, which may be absent.
LEMMA EntriesTell ==
  ASSUME NEW j \in AnyJson, NEW kind \in {"block", "nestedType"}, NEW path \in Paths,
         NEW found, RawFields(found, kind, j, path),
         NEW key \in DOMAIN Seeds[kind].fields, NEW part \in {"attributes", "blocks"},
         Seeds[kind].fields[key] = part
  PROVE  Tells(NameMap(Optional(found, key, <<>>)), PartProblems(j, key, part, path))
<1>1. PathBelow(kind, key, path) = path /\ part \in NodeKinds
  BY DEF PathBelow, NodeKinds
<1>2. CASE Has(j, key)
  <2>1. /\ key \in DOMAIN found
        /\ found[key] = Read[At(j, key)][part][path]
        /\ Meant(At(j, key), part, path)
    BY <1>1, <1>2 DEF RawFields
  <2>2. Optional(found, key, <<>>) = Read[At(j, key)][part][path].value
    BY <2>1, Zenon DEF Optional
  <2>3. Told(part, Read[At(j, key)][part][path]) = NameMap(Optional(found, key, <<>>))
    BY <2>2, Zenon DEF Told
  <2>4. TellsNode(At(j, key), part, path)
    BY <1>1, <2>1 DEF Meant
  <2> QED
    BY <1>2, <2>3, <2>4 DEF TellsNode, Tells, PartProblems
<1>3. CASE ~Has(j, key)
  <2>1. Optional(found, key, <<>>) = <<>>
    BY <1>3 DEF RawFields, Optional
  <2>2. Usable(NameMap(<<>>))
    BY ListEmpty, NameMapUsable
  <2> QED
    BY <1>3, <2>1, <2>2 DEF Tells, Usable, PartProblems, FirstOf
<1> QED
  BY <1>2, <1>3

\* The problems of the parts of an object are lists.
LEMMA PartLists ==
  ASSUME NEW j \in AnyJson, NEW path \in Paths
  PROVE  /\ \A key, part : part \in NodeKinds => IsList(PartProblems(j, key, part, path))
         /\ IsList(ModeProblems(j, path))
<1>1. ASSUME NEW key, NEW part \in NodeKinds PROVE IsList(PartProblems(j, key, part, path))
  <2>1. CASE Has(j, key)
    BY <2>1, AtIs, ProblemLists DEF PartProblems, ListsIn
  <2>2. CASE ~Has(j, key)
    BY <2>2, ListEmpty DEF PartProblems
  <2> QED
    BY <2>1, <2>2
<1> QED
  BY <1>1, ListProblem

\* A field of a plain kind.
LEMMA FieldTells ==
  ASSUME NEW j \in AnyJson, NEW kind \in {"schema", "nestedBlock"}, NEW path \in Paths,
         NEW found, RawFields(found, kind, j, path)
  PROVE  Tells(found["block"], PartProblems(j, "block", "block", path))
<1>1. /\ "block" \in Seeds[kind].required /\ Seeds[kind].fields["block"] = "block"
      /\ PathBelow(kind, "block", path) = path /\ "block" \in NodeKinds
  <2>1. CASE kind = "schema"
    <3>1. Seeds[kind] = SchemaSeed
      BY <2>1 DEF Seeds
    <3> QED
      BY <2>1, <3>1 DEF SchemaSeed, Seed, PathBelow, NodeKinds
  <2>2. CASE kind = "nestedBlock"
    <3>1. Seeds[kind] = NestedBlockSeed
      BY <2>2 DEF Seeds
    <3> QED
      BY <2>2, <3>1 DEF NestedBlockSeed, Seed, PathBelow, NodeKinds
  <2> QED
    BY <2>1, <2>2
<1>2. /\ "block" \in DOMAIN found /\ Has(j, "block")
      /\ found["block"] = Read[At(j, "block")]["block"][path]
      /\ Meant(At(j, "block"), "block", path)
  BY <1>1 DEF RawFields
<1>3. Told("block", found["block"]) = found["block"]
  BY DEF Told
<1> QED
  BY <1>1, <1>2, <1>3 DEF Meant, TellsNode, Tells, PartProblems

\* A nesting mode, and the problem it may be (parse_nesting_mode).
LEMMA ModeTells ==
  ASSUME NEW j \in AnyJson, NEW kind \in {"nestedType", "nestedBlock"}, NEW path \in Paths,
         NEW found, RawFields(found, kind, j, path)
  PROVE  Tells(NestingMode(found["nesting_mode"].value, path), ModeProblems(j, path))
<1>1. /\ "nesting_mode" \in Seeds[kind].required /\ Seeds[kind].fields["nesting_mode"] = "text"
      /\ PathBelow(kind, "nesting_mode", path) = path
  <2>1. CASE kind = "nestedType"
    <3>1. Seeds[kind] = NestedTypeSeed
      BY <2>1 DEF Seeds
    <3> QED
      BY <2>1, <3>1 DEF NestedTypeSeed, Seed, PathBelow
  <2>2. CASE kind = "nestedBlock"
    <3>1. Seeds[kind] = NestedBlockSeed
      BY <2>2 DEF Seeds
    <3> QED
      BY <2>2, <3>1 DEF NestedBlockSeed, Seed, PathBelow
  <2> QED
    BY <2>1, <2>2
<1>2. /\ "nesting_mode" \in DOMAIN found
      /\ found["nesting_mode"] = Read[At(j, "nesting_mode")]["text"][path]
      /\ Meant(At(j, "nesting_mode"), "text", path)
  BY <1>1 DEF RawFields
<1>3. found["nesting_mode"] = Good(At(j, "nesting_mode").text)
  BY <1>2 DEF Meant
<1>4. found["nesting_mode"].value = At(j, "nesting_mode").text
  BY <1>3, ResultsAre
<1>5. ModeProblems(j, path) = IF found["nesting_mode"].value \in Modes THEN <<>> ELSE Problem(path, "nesting_mode")
  BY <1>4, Zenon DEF ModeProblems
<1> QED
  BY <1>5, ThenSame

\* A schema tells the problems of its block.
LEMMA SchemaTells ==
  ASSUME NEW j \in AnyJson, NEW path \in Paths, NEW found, RawFields(found, "schema", j, path)
  PROVE  Tells(Finished("schema", found, path), Problems[j]["schema"][path])
<1>1. Tells(found["block"], PartProblems(j, "block", "block", path))
  BY FieldTells
<1>2. Problems[j]["schema"][path] = PartProblems(j, "block", "block", path)
  BY ProblemsOfNode DEF ObjectParts
<1> QED
  BY <1>1, <1>2, FinishedRaw

\* A block tells those of its attributes, then of its blocks (Normalizer::block).
LEMMA BlockTells ==
  ASSUME NEW j \in AnyJson, NEW path \in Paths, NEW found, RawFields(found, "block", j, path)
  PROVE  Tells(Finished("block", found, path), Problems[j]["block"][path])
<1> DEFINE p == PartProblems(j, "attributes", "attributes", path)
           q == PartProblems(j, "block_types", "blocks", path)
           a == NameMap(Optional(found, "attributes", <<>>))
           b == NameMap(Optional(found, "block_types", <<>>))
           r == Finished("block", found, path)
           whole(value) == [attributes |-> a.value, blocks |-> value]
<1>1. Seeds["block"].fields = [attributes |-> "attributes", block_types |-> "blocks"]
  BY DEF Seeds, BlockSeed, Seed
<1>2. Tells(a, p)
  BY <1>1, EntriesTell
<1>3. Tells(b, q)
  BY <1>1, EntriesTell
<1>4. IsList(p) /\ IsList(q)
  BY PartLists DEF NodeKinds
<1>5. r = IF ~Usable(a) THEN a ELSE IF Usable(b) THEN Good(whole(b.value)) ELSE b
  <2>1. r = NormalizedBlock(Optional(found, "attributes", <<>>), Optional(found, "block_types", <<>>))
    BY FinishedRaw
  <2> HIDE DEF r
  <2> QED
    BY <2>1, Zenon DEF NormalizedBlock, Then
<1>6. Problems[j]["block"][path] = p \o q
  BY ProblemsOfNode DEF ObjectParts
<1> HIDE DEF p, q, a, b, r, whole
<1>7. /\ ~Usable(a) => r = a
      /\ Usable(a) => r.error = b.error /\ r.problem = b.problem
  BY <1>5, ResultsAre DEF Usable
<1>8. Tells(r, p \o q)
  BY <1>2, <1>3, <1>4, <1>7, TellsOneByOne
<1> QED
  BY <1>6, <1>8 DEF r

\* A nested type tells those of its attributes, then its mode's.
LEMMA NestedTypeTells ==
  ASSUME NEW j \in AnyJson, NEW path \in Paths, NEW found, RawFields(found, "nestedType", j, path)
  PROVE  Tells(Finished("nestedType", found, path), Problems[j]["nestedType"][path])
<1> DEFINE p == PartProblems(j, "attributes", "attributes", path)
           q == ModeProblems(j, path)
           a == NameMap(Optional(found, "attributes", <<>>))
           m == NestingMode(found["nesting_mode"].value, path)
           r == Finished("nestedType", found, path)
           whole(mode) == InMode(mode, Type("object", <<>>, a.value))
<1>1. "attributes" \in DOMAIN Seeds["nestedType"].fields /\ Seeds["nestedType"].fields["attributes"] = "attributes"
  BY DEF Seeds, NestedTypeSeed, Seed
<1>2. Tells(a, p)
  BY <1>1, EntriesTell
<1>3. Tells(m, q)
  BY ModeTells
<1>4. IsList(p) /\ IsList(q)
  BY PartLists DEF NodeKinds
<1>5. r = IF ~Usable(a) THEN a ELSE IF Usable(m) THEN Good(whole(m.value)) ELSE m
  <2>1. r = NestedType(found["nesting_mode"].value, Optional(found, "attributes", <<>>), path)
    BY FinishedRaw
  <2> HIDE DEF r
  <2> QED
    BY <2>1, Zenon DEF NestedType, Then
<1>6. Problems[j]["nestedType"][path] = p \o q
  BY ProblemsOfNode DEF ObjectParts
<1> HIDE DEF p, q, a, m, r, whole
<1>7. /\ ~Usable(a) => r = a
      /\ Usable(a) => r.error = m.error /\ r.problem = m.problem
  BY <1>5, ResultsAre DEF Usable
<1>8. Tells(r, p \o q)
  BY <1>2, <1>3, <1>4, <1>7, TellsOneByOne
<1> QED
  BY <1>6, <1>8 DEF r

\* A nested block tells its mode's problem before those of its block.
LEMMA NestedBlockTells ==
  ASSUME NEW j \in AnyJson, NEW path \in Paths, NEW found, RawFields(found, "nestedBlock", j, path)
  PROVE  Tells(Finished("nestedBlock", found, path), Problems[j]["nestedBlock"][path])
<1> DEFINE p == ModeProblems(j, path)
           q == PartProblems(j, "block", "block", path)
           m == NestingMode(found["nesting_mode"].value, path)
           b == found["block"]
           r == Finished("nestedBlock", found, path)
           whole(block) == NestedBlock(found, m.value, block)
<1>2. Tells(m, p)
  BY ModeTells
<1>3. Tells(b, q)
  BY FieldTells
<1>4. IsList(p) /\ IsList(q)
  BY PartLists DEF NodeKinds
<1>5. r = IF ~Usable(m) THEN m ELSE IF Usable(b) THEN Good(whole(b.value)) ELSE b
  <2>1. r = FinishedNestedBlock(found, path)
    BY FinishedRaw
  <2> HIDE DEF r
  <2> QED
    BY <2>1, Zenon DEF FinishedNestedBlock, Then
<1>6. Problems[j]["nestedBlock"][path] = p \o q
  BY ProblemsOfNode DEF ObjectParts
<1> HIDE DEF p, q, m, b, r, whole
<1>7. /\ ~Usable(m) => r = m
      /\ Usable(m) => r.error = b.error /\ r.problem = b.problem
  BY <1>5, ResultsAre DEF Usable
<1>8. Tells(r, p \o q)
  BY <1>2, <1>3, <1>4, <1>7, TellsOneByOne
<1> QED
  BY <1>6, <1>8 DEF r

\* A type of an attribute, or a nested type, which may be null.
GivenIn(found, key) == key \in DOMAIN found /\ found[key] # Good(<<>>)

\* It is given if it is present and not null, and then tells its problems.
LEMMA MaybeTells ==
  ASSUME NEW j \in AnyJson, NEW path \in Paths, NEW found, RawFields(found, "attribute", j, path),
         NEW key \in {"type", "nested_type"}
  PROVE  LET part == IF key = "type" THEN "type" ELSE "nestedType" IN
         /\ GivenIn(found, key) <=> Present(j, key)
         /\ Present(j, key) => Tells(found[key], PartProblems(j, key, part, path))
<1> DEFINE maybe == IF key = "type" THEN "maybeType" ELSE "maybeNestedType"
           part == IF key = "type" THEN "type" ELSE "nestedType"
<1>1. /\ key \in DOMAIN Seeds["attribute"].fields /\ Seeds["attribute"].fields[key] = maybe
      /\ PathBelow("attribute", key, path) = path
  <2>1. Seeds["attribute"] = AttributeSeed
    BY DEF Seeds
  <2> QED
    BY <2>1 DEF AttributeSeed, Seed, PathBelow
<1>2. CASE Has(j, key)
  <2>1. /\ key \in DOMAIN found /\ found[key] = Read[At(j, key)][maybe][path] /\ found[key].error = <<>>
        /\ Meant(At(j, key), maybe, path)
    BY <1>1, <1>2 DEF RawFields
  <2>2. TellsMaybe(At(j, key), maybe, part, path)
    BY <2>1 DEF Meant
  <2> HIDE DEF maybe, part
  <2>3. CASE At(j, key).is = "null"
    BY <2>1, <2>2, <2>3, Zenon DEF TellsMaybe, GivenIn, Present
  <2>4. CASE At(j, key).is # "null"
    <3>1. found[key] # Good(<<>>) /\ found[key].problem = FirstOf(Problems[At(j, key)][part][path])
      BY <2>1, <2>2, <2>4, Zenon DEF TellsMaybe
    <3>2. PartProblems(j, key, part, path) = Problems[At(j, key)][part][path]
      BY <1>2, Zenon DEF PartProblems
    <3>3. Tells(found[key], PartProblems(j, key, part, path))
      BY <2>1, <3>1, <3>2 DEF Tells
    <3>4. GivenIn(found, key) /\ Present(j, key)
      BY <1>2, <2>1, <2>4, <3>1, Zenon DEF GivenIn, Present
    <3> QED
      BY <3>3, <3>4 DEF part
  <2> QED
    BY <2>3, <2>4
<1>3. CASE ~Has(j, key)
  BY <1>3 DEF RawFields, GivenIn, Present
<1> QED
  BY <1>2, <1>3

\* An attribute tells those of its type, or else of its nested type, or that it has
\* neither.
LEMMA AttributeTells ==
  ASSUME NEW j \in AnyJson, NEW path \in Paths, NEW found, RawFields(found, "attribute", j, path)
  PROVE  Tells(Finished("attribute", found, path), Problems[j]["attribute"][path])
<1> DEFINE p == PartProblems(j, "type", "type", path)
           q == PartProblems(j, "nested_type", "nestedType", path)
           w == Wrong(path, "missing_type")
           type == IF GivenIn(found, "type") THEN found["type"]
                   ELSE IF GivenIn(found, "nested_type") THEN found["nested_type"] ELSE w
           r == Finished("attribute", found, path)
           all == Problems[j]["attribute"][path]
           whole(t) == NormalizedAttribute(t[1], found)
<1>1. /\ GivenIn(found, "type") <=> Present(j, "type")
      /\ Present(j, "type") => Tells(found["type"], p)
  BY MaybeTells
<1>2. /\ GivenIn(found, "nested_type") <=> Present(j, "nested_type")
      /\ Present(j, "nested_type") => Tells(found["nested_type"], q)
  BY MaybeTells
<1>3. Tells(w, Problem(path, "missing_type"))
  BY ListProblem, ResultsAre DEF Tells
<1>4. all = IF Present(j, "type") THEN p ELSE IF Present(j, "nested_type") THEN q ELSE Problem(path, "missing_type")
  BY ProblemsOfNode DEF ObjectParts
<1>5. r = IF Usable(type) THEN Good(whole(type.value)) ELSE type
  <2>1. r = FinishedAttribute(found, path)
    BY FinishedRaw
  <2> HIDE DEF r
  <2> QED
    BY <2>1, Zenon DEF FinishedAttribute, Then, GivenIn
<1> HIDE DEF p, q, w, all, r, whole
<1>6. Tells(type, all)
  BY <1>1, <1>2, <1>3, <1>4
<1> HIDE DEF type
<1>7. r.error = type.error /\ r.problem = type.problem
  BY <1>5, ResultsAre DEF Usable
<1>8. Tells(r, all)
  BY <1>6, <1>7 DEF Tells
<1> QED
  BY <1>8 DEF r, all

-----------------------------------------------------------------------------
\* Every kind of node, and so all JSON.

\* How the nodes of the raw format are read, and when they are well-formed.
LEMMA RawNodes ==
  ASSUME NEW j \in AnyJson, NEW path \in Paths
  PROVE  /\ \A kind \in RawSeeds : /\ Read[j][kind][path] = ReadFields(kind, j, path, Below(j))
                                   /\ WellFormed[j][kind] <=> HasFields(Seeds[kind], j, FormedBelow(j))
         /\ \A kind \in {"providers", "schemas", "attributes", "blocks"} :
              /\ Read[j][kind][path] = ReadMap(kind, j, path, Below(j))
              /\ WellFormed[j][kind]
                   <=> /\ j.is = "object"
                       /\ \A i \in DOMAIN j.entries : FormedBelow(j)[j.entries[i].value][MapSeeds[kind]]
         /\ \A kind \in {"text", "flag", "maybeText", "maybeCount"} :
              /\ Read[j][kind][path] = ReadScalar(kind, j)
              /\ WellFormed[j][kind] <=> Usable(ReadScalar(kind, j))
<1> DEFINE read(kind) == ReadNode(kind, j, path, Below(j))
           formed(kind) == Formed(kind, j, FormedBelow(j))
<1>1. \A kind \in RawKinds : Read[j][kind][path] = read(kind) /\ WellFormed[j][kind] = formed(kind)
  <2>1. \A kind \in RawKinds : kind \in ReadKinds
    BY RawKindsRead
  <2>2. \A kind \in RawKinds : Read[j][kind][path] = read(kind)
    BY <2>1, ReadIs DEF Below
  <2>3. \A kind \in RawKinds : WellFormed[j][kind] = formed(kind)
    BY WellFormedIs DEF FormedBelow
  <2> QED
    BY <2>2, <2>3
<1>2. ASSUME NEW kind \in RawSeeds
      PROVE  /\ kind \in RawKinds /\ read(kind) = ReadFields(kind, j, path, Below(j))
             /\ formed(kind) <=> HasFields(Seeds[kind], j, FormedBelow(j))
  <2>1. kind \in RawKinds /\ kind \in DOMAIN Seeds /\ kind \notin Scalars
        /\ kind \notin {"type", "maybeType", "objectType", "tupleType", "maybeNestedType"}
    BY DEF RawSeeds, RawKinds, NodeKinds, Seeds, Scalars
  <2>2. read(kind) = ReadFields(kind, j, path, Below(j))
    BY DEF ReadNode, RawSeeds, Scalars, Seeds, MapSeeds
  <2>3. formed(kind) <=> HasFields(Seeds[kind], j, FormedBelow(j))
    BY <2>1 DEF Formed, RawSeeds, Scalars, Seeds, MapSeeds
  <2> QED
    BY <2>1, <2>2, <2>3
<1>3. ASSUME NEW kind \in {"providers", "schemas", "attributes", "blocks"}
      PROVE  /\ kind \in RawKinds /\ read(kind) = ReadMap(kind, j, path, Below(j))
             /\ formed(kind) <=> /\ j.is = "object"
                                 /\ \A i \in DOMAIN j.entries : FormedBelow(j)[j.entries[i].value][MapSeeds[kind]]
  <2>1. kind \in RawKinds
    BY DEF RawKinds, NodeKinds
  <2>2. read(kind) = ReadMap(kind, j, path, Below(j))
    BY DEF ReadNode, Scalars, Seeds, MapSeeds
  <2>3. formed(kind) <=> /\ j.is = "object"
                         /\ \A i \in DOMAIN j.entries : FormedBelow(j)[j.entries[i].value][MapSeeds[kind]]
    <3>1. kind \in DOMAIN MapSeeds /\ kind \notin DOMAIN Seeds /\ kind \notin Scalars
          /\ kind \notin {"type", "maybeType", "objectType", "tupleType", "maybeNestedType"}
      BY DEF Scalars, Seeds, MapSeeds
    <3> QED
      BY <3>1 DEF Formed
  <2> QED
    BY <2>1, <2>2, <2>3
<1>4. ASSUME NEW kind \in {"text", "flag", "maybeText", "maybeCount"}
      PROVE  /\ kind \in RawKinds /\ read(kind) = ReadScalar(kind, j)
             /\ formed(kind) <=> Usable(ReadScalar(kind, j))
  <2>1. kind \in RawKinds
    BY DEF RawKinds
  <2>2. read(kind) = ReadScalar(kind, j)
    BY DEF ReadNode, Scalars, Seeds, MapSeeds
  <2>3. formed(kind) <=> Usable(ReadScalar(kind, j))
    <3>1. kind \in Scalars /\ kind \notin DOMAIN Seeds /\ kind \notin DOMAIN MapSeeds
          /\ kind \notin {"type", "maybeType", "objectType", "tupleType", "maybeNestedType"}
      BY DEF Scalars, Seeds, MapSeeds
    <3> QED
      BY <3>1 DEF Formed
  <2> QED
    BY <2>1, <2>2, <2>3
<1> HIDE DEF read, formed
<1> QED
  BY <1>1, <1>2, <1>3, <1>4

\* Scalars have no problems, and are read unless they are something else.
LEMMA ScalarsHold ==
  ASSUME NEW j \in AnyJson, NEW kind \in {"text", "flag", "maybeText", "maybeCount"}, NEW path \in Paths
  PROVE  HoldsOf(j, kind, path)
<1> DEFINE r == ReadScalar(kind, j)
<1>1. Read[j][kind][path] = r /\ (WellFormed[j][kind] <=> Usable(r))
  BY RawNodes
<1>2. r.problem = <<>> /\ (kind = "text" /\ r.error = <<>> => r = Good(j.text))
  <2>1. \A value : Good(value).problem = <<>>
    BY ResultsAre
  <2>2. Bad("invalid_type").problem = <<>> /\ Bad("invalid_type").error # <<>>
    BY DEF Bad
  <2>3. CASE kind = "text"
    <3>1. r = IF j.is = "string" THEN Good(j.text) ELSE Bad("invalid_type")
      BY <2>3 DEF ReadScalar
    <3> HIDE DEF r
    <3> QED
      BY <2>1, <2>2, <3>1, Zenon
  <2>4. CASE kind = "flag"
    <3>1. r = Good(j.text = "true") \/ r = Bad("invalid_type")
      BY <2>4 DEF ReadScalar
    <3> HIDE DEF r
    <3> QED
      BY <2>1, <2>2, <2>4, <3>1, Zenon
  <2>5. CASE kind = "maybeText"
    <3>1. r = Good(<<>>) \/ r = Bad("invalid_type")
      BY <2>5 DEF ReadScalar
    <3> HIDE DEF r
    <3> QED
      BY <2>1, <2>2, <2>5, <3>1
  <2>6. CASE kind = "maybeCount"
    <3>1. r = Good(<<>>) \/ r = Good(<<j.number>>) \/ r = Bad("invalid_type")
      BY <2>6 DEF ReadScalar
    <3> HIDE DEF r
    <3> QED
      BY <2>1, <2>2, <2>6, <3>1
  <2> QED
    BY <2>3, <2>4, <2>5, <2>6
<1> HIDE DEF r
<1>3. kind \notin NodeKinds
  BY DEF NodeKinds
<1> QED
  BY <1>1, <1>2, <1>3 DEF HoldsOf, Meant, Usable

\* A kind that shows its problems as they are.
LEMMA NodeMeant ==
  ASSUME NEW j, NEW kind \in PlainKinds, NEW path, Tells(Read[j][kind][path], Problems[j][kind][path])
  PROVE  Meant(j, kind, path)
BY DEF Tells, Meant, TellsNode, Told, PlainKinds, CarriedKinds, Scalars

\* Documents, providers and the map of them carry their problems in their values.
LEMMA CarriedMeant ==
  ASSUME NEW j, NEW kind \in {"provider", "providers", "document"}, NEW path, Read[j][kind][path].problem = <<>>
  PROVE  Meant(j, kind, path)
BY DEF Meant, NodeKinds

\* The objects of the raw format hold, if what is inside them does.
LEMMA SeedsHold ==
  ASSUME NEW j \in AnyJson, \A c \in Children(j) : Held(c), NEW kind \in RawSeeds, NEW path \in Paths
  PROVE  HoldsOf(j, kind, path)
<1> DEFINE r == Read[j][kind][path]
<1>1. /\ r = ReadFields(kind, j, path, Below(j))
      /\ WellFormed[j][kind] <=> HasFields(Seeds[kind], j, FormedBelow(j))
  BY RawNodes
<1>2. CASE ~WellFormed[j][kind]
  BY <1>1, <1>2, RawFieldsRead DEF HoldsOf
<1>3. CASE WellFormed[j][kind]
  <2>1. PICK found : RawFields(found, kind, j, path) /\ r = Finished(kind, found, path)
    BY <1>1, <1>3, RawFieldsRead DEF ReadsFields
  <2>2. r.error = <<>> /\ Meant(j, kind, path)
    <3>1. CASE kind = "document"
      <4>1. r = FinishedDocument(found)
        BY <2>1, <3>1, FinishedRaw
      <4>2. \E value : FinishedDocument(found) = Good(value)
        BY Zenon DEF FinishedDocument
      <4>3. r.error = <<>> /\ r.problem = <<>>
        BY <4>1, <4>2, ResultsAre
      <4> QED
        BY <3>1, <4>3, CarriedMeant
    <3>2. CASE kind = "provider"
      <4>1. r = FinishedProvider(found)
        BY <2>1, <3>2, FinishedRaw
      <4>2. \E value : FinishedProvider(found) = Good(value)
        BY Zenon DEF FinishedProvider
      <4>3. r.error = <<>> /\ r.problem = <<>>
        BY <4>1, <4>2, ResultsAre
      <4> QED
        BY <3>2, <4>3, CarriedMeant
    <3>3. CASE kind \in {"schema", "block", "attribute", "nestedType", "nestedBlock"}
      <4>1. Tells(r, Problems[j][kind][path])
        BY <2>1, <3>3, SchemaTells, BlockTells, AttributeTells, NestedTypeTells, NestedBlockTells
      <4>2. kind \in PlainKinds
        BY <3>3 DEF PlainKinds
      <4> QED
        BY <4>1, <4>2, NodeMeant DEF Tells
    <3> QED
      BY <3>1, <3>2, <3>3 DEF RawSeeds
  <2> QED
    BY <1>3, <2>2 DEF HoldsOf
<1> QED
  BY <1>2, <1>3

\* What the maps of the raw format return.
LEMMA FinishedMaps ==
  ASSUME NEW results
  PROVE  /\ FinishedMap("providers", results) = Good(SortUniqueBy(Matching, results))
         /\ FinishedMap("schemas", results) = Good(SortUnique(results))
         /\ FinishedMap("attributes", results) = Good(results)
         /\ FinishedMap("blocks", results) = Good(results)
<1>1. FinishedMap("providers", results) = Good(SortUniqueBy(Matching, results))
  BY DEF FinishedMap
<1>2. FinishedMap("schemas", results) = Good(SortUnique(results))
  BY DEF FinishedMap
<1>3. FinishedMap("attributes", results) = Good(results)
  BY DEF FinishedMap
<1>4. FinishedMap("blocks", results) = Good(results)
  BY DEF FinishedMap
<1> QED
  BY <1>1, <1>2, <1>3, <1>4

\* A map is read without an error if it is well-formed, as what its entries are.
LEMMA RawMapRead ==
  ASSUME NEW j \in AnyJson, \A c \in Children(j) : Held(c), NEW kind \in RawMaps, NEW path \in Paths
  PROVE  /\ ~WellFormed[j][kind] => Read[j][kind][path].error # <<>>
         /\ WellFormed[j][kind] => ReadsMap(kind, j, path)
<1> DEFINE E == j.entries
           s == MapAt(kind, j, path, Below(j))
           sub == MapSeeds[kind]
           place(i) == PathOfEntry(kind, E[i].key, path)
<1>1. Len(E) \in Nat /\ DOMAIN E = 1..Len(E)
  BY EntryAt
<1>2. /\ Read[j][kind][path] = ReadMap(kind, j, path, Below(j))
      /\ WellFormed[j][kind] <=> j.is = "object" /\ \A i \in DOMAIN E : FormedBelow(j)[E[i].value][sub]
  BY RawNodes DEF RawMaps
<1>3. sub \in RawKinds
  BY DEF RawMaps, MapSeeds, RawKinds, NodeKinds
<1>4. ASSUME NEW i \in DOMAIN E
      PROVE  /\ Below(j)[E[i].value][sub][place(i)] = Read[E[i].value][sub][place(i)]
             /\ Read[E[i].value][sub][place(i)].error = <<>> <=> WellFormed[E[i].value][sub]
             /\ FormedBelow(j)[E[i].value][sub] = WellFormed[E[i].value][sub]
  <2>1. E[i].value \in Children(j) /\ place(i) \in Paths
    BY <1>1, EntryAt, PathsGrow
  <2>2. HoldsOf(E[i].value, sub, place(i))
    BY <1>3, <2>1, ChildHeld
  <2> QED
    BY <2>1, <2>2, BelowIs, FormedBelowIs DEF HoldsOf
<1>5. SoundMap(kind, j, path, Below(j)) <=> WellFormed[j][kind]
  <2>1. SoundMap(kind, j, path, Below(j))
          <=> j.is = "object" /\ \A i \in DOMAIN E : Below(j)[E[i].value][sub][place(i)].error = <<>>
    BY <1>1, Zenon DEF SoundMap
  <2> HIDE DEF place, sub
  <2> QED
    BY <1>2, <1>4, <2>1
<1>6. ~WellFormed[j][kind] => Read[j][kind][path].error # <<>>
  BY <1>2, <1>5, MapRead
<1>7. ASSUME WellFormed[j][kind] PROVE ReadsMap(kind, j, path)
  <2>1. Read[j][kind][path] = FinishedMap(kind, s)
    BY <1>2, <1>5, <1>7, MapRead
  <2>2. IsList(s) /\ DOMAIN s = DOMAIN E
    <3>1. s = [i \in 1..Len(E) |-> s[i]]
      BY Zenon DEF MapAt
    <3> HIDE DEF s
    <3> QED
      BY <1>1, <3>1, ListMade
  <2>3. ASSUME NEW i \in DOMAIN E
        PROVE  s[i].name = E[i].key /\ s[i].result = Below(j)[E[i].value][sub][place(i)]
    <3>1. s[i] = [name |-> E[i].key, result |-> Below(j)[E[i].value][sub][place(i)]]
      BY <1>1, Zenon DEF MapAt
    <3> HIDE DEF s
    <3> QED
      BY <3>1
  <2>4. \A i \in DOMAIN E : WellFormed[E[i].value][sub]
    BY <1>2, <1>4, <1>7
  <2> HIDE DEF s
  <2>5. RawEntries(s, kind, j, path)
    BY <1>4, <2>2, <2>3, <2>4 DEF RawEntries, NamedAs
  <2> QED
    BY <2>1, <2>5 DEF ReadsMap
<1> QED
  BY <1>6, <1>7

\* The maps of the raw format hold, if what is inside them does.
LEMMA MapsHold ==
  ASSUME NEW j \in AnyJson, \A c \in Children(j) : Held(c), NEW kind \in RawMaps, NEW path \in Paths
  PROVE  HoldsOf(j, kind, path)
<1> DEFINE r == Read[j][kind][path]
<1>1. CASE ~WellFormed[j][kind]
  BY <1>1, RawMapRead DEF HoldsOf
<1>2. CASE WellFormed[j][kind]
  <2>1. PICK s : RawEntries(s, kind, j, path) /\ r = FinishedMap(kind, s)
    BY <1>2, RawMapRead DEF ReadsMap
  <2>2. r.error = <<>> /\ r.problem = <<>>
    BY <2>1, FinishedMaps, ResultsAre DEF RawMaps
  <2>3. CASE kind = "providers"
    BY <1>2, <2>2, <2>3, CarriedMeant DEF HoldsOf
  <2>4. CASE kind \in {"schemas", "attributes", "blocks"}
    <3>1. ReadsEntries(s, j, MapSeeds[kind], path)
      <4>1. \A key : PathOfEntry(kind, key, path) = Append(path, Key(key))
        BY <2>4 DEF PathOfEntry
      <4> QED
        BY <2>1, <4>1 DEF RawEntries, ReadsEntries
    <3>2. Together(SortUnique(s), ProblemsByName(kind, j, path, ProblemsBelow(j)))
      BY <2>4, <3>1, ByNameTogether
    <3>3. Problems[j][kind][path] = ProblemsByName(kind, j, path, ProblemsBelow(j))
      BY <2>4, ProblemsOfNode DEF NodeParts
    <3>4. Tells(FirstProblem(SortUnique(s)), Problems[j][kind][path])
      BY <3>2, <3>3, FirstProblemFound DEF Together, Tells
    <3>5. Told(kind, r) = FirstProblem(SortUnique(s))
      <4>1. r.value = IF kind = "schemas" THEN SortUnique(s) ELSE s
        BY <2>1, <2>4, FinishedMaps, ResultsAre
      <4> HIDE DEF r
      <4> QED
        BY <2>4, <4>1 DEF Told, NameMap
    <3>6. TellsNode(j, kind, path)
      BY <3>4, <3>5 DEF Tells, TellsNode
    <3>7. Meant(j, kind, path)
      BY <2>2, <2>4, <3>6 DEF Meant
    <3> QED
      BY <1>2, <2>2, <3>7 DEF HoldsOf
  <2> QED
    BY <2>3, <2>4 DEF RawMaps
<1> QED
  BY <1>1, <1>2

\* Types are always well-formed, whatever the JSON.
TypeLike == {"type", "objectType", "tupleType"}

\* How types and what may be null are read.
LEMMA TypeNodes ==
  ASSUME NEW j \in AnyJson, NEW path \in Paths
  PROVE  /\ Read[j]["type"][path] = ReadType(j, path, Below(j))
         /\ Read[j]["maybeType"][path]
              = IF j.is = "null" THEN Good(<<>>) ELSE Then(ReadType(j, path, Below(j)), Some)
         /\ Read[j]["objectType"][path] = ReadObjectType(j, path, Below(j))
         /\ Read[j]["tupleType"][path] = ReadTupleType(j, path, Below(j))
         /\ Read[j]["maybeNestedType"][path]
              = IF j.is = "null" THEN Good(<<>>)
                ELSE Then(ReadFields("nestedType", j, path, Below(j)), Some)
         /\ \A kind \in TypeLike \cup {"maybeType"} : WellFormed[j][kind]
         /\ WellFormed[j]["maybeNestedType"]
              <=> j.is = "null" \/ HasFields(Seeds["nestedType"], j, FormedBelow(j))
<1> DEFINE read(kind) == ReadNode(kind, j, path, Below(j))
           formed(kind) == Formed(kind, j, FormedBelow(j))
<1>1. \A kind \in RawKinds : Read[j][kind][path] = read(kind) /\ WellFormed[j][kind] = formed(kind)
  <2>1. \A kind \in RawKinds : kind \in ReadKinds
    BY RawKindsRead
  <2>2. \A kind \in RawKinds : Read[j][kind][path] = read(kind)
    BY <2>1, ReadIs DEF Below
  <2>3. \A kind \in RawKinds : WellFormed[j][kind] = formed(kind)
    BY WellFormedIs DEF FormedBelow
  <2> QED
    BY <2>2, <2>3
<1>2. {"type", "maybeType", "objectType", "tupleType", "maybeNestedType"} \subseteq RawKinds
  BY DEF RawKinds, NodeKinds
<1>3. read("type") = ReadType(j, path, Below(j))
  BY DEF ReadNode, Scalars, Seeds, MapSeeds
<1>4. read("maybeType") = IF j.is = "null" THEN Good(<<>>) ELSE Then(ReadType(j, path, Below(j)), Some)
  BY DEF ReadNode, Scalars, Seeds, MapSeeds
<1>5. read("objectType") = ReadObjectType(j, path, Below(j))
  BY DEF ReadNode, Scalars, Seeds, MapSeeds
<1>6. read("tupleType") = ReadTupleType(j, path, Below(j))
  BY DEF ReadNode, Scalars, Seeds, MapSeeds
<1>7. read("maybeNestedType")
        = IF j.is = "null" THEN Good(<<>>) ELSE Then(ReadFields("nestedType", j, path, Below(j)), Some)
  BY DEF ReadNode, Scalars, Seeds, MapSeeds
<1>8. ASSUME NEW kind \in TypeLike \cup {"maybeType"}
      PROVE  formed(kind)
  <2>1. kind \in {"type", "maybeType", "objectType", "tupleType"} /\ kind \notin Scalars
        /\ kind \notin DOMAIN Seeds /\ kind \notin DOMAIN MapSeeds
    BY DEF TypeLike, Scalars, Seeds, MapSeeds
  <2> QED
    BY <2>1 DEF Formed
<1>9. formed("maybeNestedType") <=> j.is = "null" \/ HasFields(Seeds["nestedType"], j, FormedBelow(j))
  BY DEF Formed, Scalars, Seeds, MapSeeds
<1> HIDE DEF read, formed
<1> QED
  BY <1>1, <1>2, <1>3, <1>4, <1>5, <1>6, <1>7, <1>8, <1>9 DEF TypeLike

\* A type that holds tells its problems.
LEMMA TypeChild ==
  ASSUME NEW c \in AnyJson, Held(c), NEW kind \in TypeLike, NEW path \in Paths
  PROVE  Tells(Read[c][kind][path], Problems[c][kind][path])
<1>1. WellFormed[c][kind]
  BY TypeNodes
<1>2. kind \in RawKinds /\ kind \in PlainKinds
  BY DEF TypeLike, RawKinds, NodeKinds, PlainKinds
<1>3. HoldsOf(c, kind, path)
  BY <1>2, ChildHeld
<1>4. Read[c][kind][path].error = <<>>
  BY <1>1, <1>3 DEF HoldsOf
<1> QED
  BY <1>2, <1>4, PlainTells DEF Tells

\* Wrapping changes nothing in what a result tells.
LEMMA ThenTells ==
  ASSUME NEW r, NEW value, NEW p, Tells(r, p)
  PROVE  Tells(IF Usable(r) THEN Good(value) ELSE r, p)
BY ResultsAre DEF Tells, Usable

\* A cty type tells its problems: of its constructor, then of what it is made of.
LEMMA TypeTells ==
  ASSUME NEW j \in AnyJson, \A c \in Children(j) : Held(c), NEW path \in Paths
  PROVE  Tells(ReadType(j, path, Below(j)), TypeProblems(j, path, ProblemsBelow(j)))
<1> DEFINE r == ReadType(j, path, Below(j))
           p == TypeProblems(j, path, ProblemsBelow(j))
           constructor == j.items[1].text
           of(kind) == Below(j)[j.items[2]][kind][path]
           in(kind) == ProblemsBelow(j)[j.items[2]][kind][path]
           more == j.is # "string" /\ j.is = "array" /\ j.items # <<>> /\ j.items[1].is = "string" /\ Len(j.items) # 1
           whole(item) == Type(constructor, <<item>>, <<>>)
           built == IF constructor \in Collections
                      THEN IF Usable(of("type")) THEN Good(whole(of("type").value)) ELSE of("type")
                    ELSE IF constructor = "object" THEN of("objectType")
                    ELSE IF constructor = "tuple" THEN of("tupleType")
                    ELSE Wrong(path, "unknown_constructor")
           problems == CASE constructor \in Collections -> in("type")
                         [] constructor = "object" -> in("objectType")
                         [] constructor = "tuple" -> in("tupleType")
                         [] OTHER -> Problem(path, "unknown_constructor")
<1>1. \A what : Tells(Wrong(path, what), Problem(path, what))
  BY ListProblem, ResultsAre DEF Tells
<1>2. ASSUME more, NEW kind \in TypeLike
      PROVE  Tells(of(kind), in(kind))
  <2>1. j.items[2] \in Children(j)
    <3> DEFINE n == Len(j.items)
    <3>1. n \in Nat /\ n # 0
      <4>1. IsList(j.items)
        BY JsonNode DEF IsJson
      <4>2. \E x : x \in ToSet(j.items)
        BY <1>2, <4>1, ListEmpty
      <4>3. \E i \in 1..Len(j.items) : TRUE
        BY <4>1, <4>2, ListLen
      <4> QED
        BY <4>3, EntryAt
    <3>2. n # 1
      BY <1>2
    <3> HIDE DEF n
    <3>3. 2 \in 1..n
      BY <3>1, <3>2
    <3> QED
      BY <3>3, EntryAt DEF n
  <2>2. Below(j)[j.items[2]] = Read[j.items[2]] /\ ProblemsBelow(j)[j.items[2]] = Problems[j.items[2]]
    BY <2>1, BelowIs, ProblemsBelowIs
  <2>3. j.items[2] \in AnyJson
    BY <2>1, EntryAt
  <2> QED
    BY <2>1, <2>2, <2>3, TypeChild
<1>3. ASSUME more PROVE Tells(built, problems)
  <2>1. Tells(of("type"), in("type")) /\ Tells(of("objectType"), in("objectType"))
        /\ Tells(of("tupleType"), in("tupleType"))
    <3> HIDE DEF more, of, in
    <3> QED
      BY <1>2, <1>3 DEF TypeLike
  <2>2. Tells(IF Usable(of("type")) THEN Good(whole(of("type").value)) ELSE of("type"), in("type"))
    <3> HIDE DEF of, in, whole
    <3> QED
      BY <2>1, ThenTells
  <2>3. "object" \notin Collections /\ "tuple" \notin Collections /\ "object" # "tuple"
    BY DEF Collections
  <2> HIDE DEF of, in, whole, more, constructor
  <2>4. CASE constructor \in Collections
    <3>1. /\ built = IF Usable(of("type")) THEN Good(whole(of("type").value)) ELSE of("type")
          /\ problems = in("type")
      BY <2>3, <2>4, Zenon
    <3> QED
      BY <2>2, <3>1, Zenon
  <2>5. CASE constructor = "object"
    <3>1. built = of("objectType") /\ problems = in("objectType")
      BY <2>3, <2>5, Zenon
    <3> QED
      BY <2>1, <3>1, Zenon
  <2>6. CASE constructor = "tuple"
    <3>1. built = of("tupleType") /\ problems = in("tupleType")
      BY <2>3, <2>6, Zenon
    <3> QED
      BY <2>1, <3>1, Zenon
  <2>7. CASE constructor \notin Collections /\ constructor # "object" /\ constructor # "tuple"
    <3>1. built = Wrong(path, "unknown_constructor") /\ problems = Problem(path, "unknown_constructor")
      BY <2>7, Zenon
    <3> QED
      BY <1>1, <3>1, Zenon
  <2> QED
    BY <2>4, <2>5, <2>6, <2>7, Zenon
<1>4. r = IF j.is = "string"
            THEN IF j.text \in Primitives THEN Good(Type(j.text, <<>>, <<>>))
                 ELSE Wrong(path, "unknown_primitive")
          ELSE IF j.is # "array" THEN Wrong(path, "expected_array")
          ELSE IF j.items = <<>> THEN Wrong(path, "missing_constructor")
          ELSE IF j.items[1].is # "string" THEN Wrong(path, "missing_constructor")
          ELSE IF Len(j.items) = 1 THEN Wrong(path, "missing_constructor_parameter")
          ELSE built
  BY Zenon DEF ReadType, Then
<1>5. p = IF j.is = "string" THEN IF j.text \in Primitives THEN <<>> ELSE Problem(path, "unknown_primitive")
          ELSE IF j.is # "array" THEN Problem(path, "expected_array")
          ELSE IF j.items = <<>> THEN Problem(path, "missing_constructor")
          ELSE IF j.items[1].is # "string" THEN Problem(path, "missing_constructor")
          ELSE IF Len(j.items) = 1 THEN Problem(path, "missing_constructor_parameter")
          ELSE problems
  BY Zenon DEF TypeProblems
<1>6. \A value : Tells(Good(value), <<>>)
  BY TellsNone
<1> HIDE DEF built, problems, r, p
<1>7. Tells(r, p)
  <2>1. CASE j.is = "string"
    <3>1. CASE j.text \in Primitives
      <4>1. r = Good(Type(j.text, <<>>, <<>>)) /\ p = <<>>
        BY <1>4, <1>5, <2>1, <3>1, Zenon
      <4> QED
        BY <1>6, <4>1, Zenon
    <3>2. CASE j.text \notin Primitives
      <4>1. r = Wrong(path, "unknown_primitive") /\ p = Problem(path, "unknown_primitive")
        BY <1>4, <1>5, <2>1, <3>2, Zenon
      <4> QED
        BY <1>1, <4>1, Zenon
    <3> QED
      BY <3>1, <3>2
  <2>2. CASE j.is # "string" /\ j.is # "array"
    <3>1. r = Wrong(path, "expected_array") /\ p = Problem(path, "expected_array")
      BY <1>4, <1>5, <2>2, Zenon
    <3> QED
      BY <1>1, <3>1, Zenon
  <2>3. CASE j.is # "string" /\ j.is = "array" /\ (j.items = <<>> \/ j.items[1].is # "string")
    <3>1. r = Wrong(path, "missing_constructor") /\ p = Problem(path, "missing_constructor")
      BY <1>4, <1>5, <2>3, Zenon
    <3> QED
      BY <1>1, <3>1, Zenon
  <2>4. CASE j.is # "string" /\ j.is = "array" /\ j.items # <<>> /\ j.items[1].is = "string" /\ Len(j.items) = 1
    <3>1. r = Wrong(path, "missing_constructor_parameter") /\ p = Problem(path, "missing_constructor_parameter")
      BY <1>4, <1>5, <2>4, Zenon
    <3> QED
      BY <1>1, <3>1, Zenon
  <2>5. CASE more
    <3>1. r = built /\ p = problems
      BY <1>4, <1>5, <2>5, Zenon
    <3> QED
      BY <1>3, <2>5, <3>1, Zenon
  <2> QED
    BY <2>1, <2>2, <2>3, <2>4, <2>5, Zenon
<1> QED
  BY <1>7 DEF r, p

\* So do the fields of an object type, in document order.
LEMMA ObjectTypeTells ==
  ASSUME NEW j \in AnyJson, \A c \in Children(j) : Held(c), NEW path \in Paths
  PROVE  Tells(Read[j]["objectType"][path], Problems[j]["objectType"][path])
<1> DEFINE E == j.entries
           N == Len(E)
           x == [i \in 1..N |-> [name |-> E[i].key, result |-> Below(j)[E[i].value]["type"][Append(path, Key(E[i].key))]]]
           ss == [i \in DOMAIN E |-> IF TRUE THEN <<[name |-> E[i].key,
                                                     result |-> Below(j)[E[i].value]["type"][Append(path, Key(E[i].key))]]>>
                                     ELSE <<>>]
           s == FlattenSeq(ss)
           r == Read[j]["objectType"][path]
           p == Problems[j]["objectType"][path]
           first == FirstProblem(MergeRepeated(s))
<1>1. N \in Nat /\ DOMAIN E = 1..N
  BY EntryAt
<1>2. r = IF j.is # "object" THEN Wrong(path, "expected_object")
          ELSE IF Usable(first) THEN Good(AsObject(first.value)) ELSE first
  <2>1. r = ReadObjectType(j, path, Below(j))
    BY TypeNodes
  <2> HIDE DEF r
  <2> QED
    BY <2>1, Zenon DEF ReadObjectType, ObjectType, Then, Entries
<1>3. p = IF j.is = "object" THEN ProblemsByField(j, path, ProblemsBelow(j)) ELSE Problem(path, "expected_object")
  BY ProblemsOfNode DEF NodeParts
<1>4. s = [i \in 1..N |-> x[i]]
  <2>1. IsList(ss) /\ DOMAIN ss = 1..N
    <3>1. ss = [i \in 1..N |-> ss[i]]
      BY <1>1
    <3> HIDE DEF ss, N
    <3> QED
      BY <1>1, <3>1, ListMade
  <2>2. \A i \in DOMAIN ss : ss[i] = <<x[i]>>
    BY <1>1
  <2> HIDE DEF ss, x, N
  <2>3. FlattenSeq(ss) = [i \in DOMAIN ss |-> x[i]]
    BY <2>1, <2>2, FlatOnes
  <2> QED
    BY <2>1, <2>3
<1>5. ASSUME NEW i \in 1..N
      PROVE  x[i].name = E[i].key /\ x[i].result = Read[E[i].value]["type"][Append(path, Key(E[i].key))]
             /\ x[i].result.error = <<>>
  <2>1. E[i].value \in Children(j) /\ E[i].value \in AnyJson /\ Append(path, Key(E[i].key)) \in Paths
    BY <1>1, EntryAt, PathsGrow
  <2>2. Below(j)[E[i].value] = Read[E[i].value]
    BY <2>1, BelowIs
  <2>3. x[i].name = E[i].key /\ x[i].result = Below(j)[E[i].value]["type"][Append(path, Key(E[i].key))]
    <3> DEFINE y == Below(j)[E[i].value]["type"][Append(path, Key(E[i].key))]
    <3>1. x[i] = [name |-> E[i].key, result |-> y]
      BY Zenon
    <3> HIDE DEF x, y
    <3> QED
      BY <3>1 DEF y
  <2>4. Tells(Read[E[i].value]["type"][Append(path, Key(E[i].key))],
              Problems[E[i].value]["type"][Append(path, Key(E[i].key))])
    BY <2>1, TypeChild DEF TypeLike
  <2> HIDE DEF x
  <2> QED
    BY <2>2, <2>3, <2>4 DEF Tells
<1> HIDE DEF ss, s, x
<1>6. IsList(s) /\ DOMAIN s = 1..N /\ \A i \in 1..N : s[i] = x[i]
  <2>1. \A i \in 1..N : s[i] = x[i]
    BY <1>4
  <2>2. s = [i \in 1..N |-> s[i]]
    BY <1>4, <2>1, Zenon
  <2> HIDE DEF N
  <2> QED
    BY <1>1, <2>1, <2>2, ListMade
<1>7. ReadsEntries(s, j, "type", path)
  BY <1>1, <1>5, <1>6 DEF ReadsEntries, NamedAs
<1>8. Together(MergeRepeated(s), ProblemsByField(j, path, ProblemsBelow(j)))
  BY <1>7, ByFieldTogether
<1>9. Tells(first, ProblemsByField(j, path, ProblemsBelow(j)))
  BY <1>8, FirstProblemFound DEF Together, Tells
<1> HIDE DEF first, r, p
<1>10. Tells(r, p)
  <2>1. CASE j.is # "object"
    <3>1. r = Wrong(path, "expected_object") /\ p = Problem(path, "expected_object")
      BY <1>2, <1>3, <2>1, Zenon
    <3> QED
      BY <3>1, ListProblem, ResultsAre DEF Tells
  <2>2. CASE j.is = "object"
    <3>1. r = (IF Usable(first) THEN Good(AsObject(first.value)) ELSE first)
          /\ p = ProblemsByField(j, path, ProblemsBelow(j))
      BY <1>2, <1>3, <2>2, Zenon
    <3> QED
      BY <1>9, <3>1, ThenTells
  <2> QED
    BY <2>1, <2>2
<1> QED
  BY <1>10 DEF r, p

\* So do the items of a tuple type.
LEMMA TupleTypeTells ==
  ASSUME NEW j \in AnyJson, \A c \in Children(j) : Held(c), NEW path \in Paths
  PROVE  Tells(Read[j]["tupleType"][path], Problems[j]["tupleType"][path])
<1> DEFINE N == Len(j.items)
           results == [i \in DOMAIN j.items |-> Below(j)[j.items[i]]["type"][Append(path, Place(i))]]
           wrong == {i \in DOMAIN results : ~Usable(results[i])}
           s == [i \in 1..N |-> [name |-> "", result |-> results[i]]]
           r == Read[j]["tupleType"][path]
           p == Problems[j]["tupleType"][path]
           whole == AsTuple([i \in DOMAIN results |-> results[i].value])
<1>1. N \in Nat /\ DOMAIN j.items = 1..N /\ DOMAIN results = 1..N
  BY EntryAt
<1>2. r = IF j.is # "array" THEN Wrong(path, "expected_tuple")
          ELSE IF wrong # {} THEN results[Min(wrong)] ELSE Good(whole)
  <2>1. r = ReadTupleType(j, path, Below(j))
    BY TypeNodes
  <2> HIDE DEF r
  <2> QED
    BY <2>1, Zenon DEF ReadTupleType
<1>3. p = IF j.is = "array" THEN ProblemsByItem(j, path, ProblemsBelow(j)) ELSE Problem(path, "expected_tuple")
  BY ProblemsOfNode DEF NodeParts
<1>4. IsList(s) /\ DOMAIN s = 1..N
  <2>1. s = [i \in 1..N |-> s[i]]
    BY Zenon
  <2> HIDE DEF s, N
  <2> QED
    BY <1>1, <2>1, ListMade
<1>5. \A i \in 1..N : s[i].result = results[i]
  <2>1. SUFFICES ASSUME NEW i \in 1..N PROVE s[i].result = results[i]
    OBVIOUS
  <2> DEFINE none == ""
             y == results[i]
  <2>2. s[i] = [name |-> none, result |-> y]
    BY Zenon
  <2> HIDE DEF s, results, none
  <2> QED
    BY <2>2
<1>6. ASSUME NEW i \in 1..N
      PROVE  /\ results[i] = Read[j.items[i]]["type"][Append(path, Place(i))]
             /\ results[i].error = <<>>
  <2>1. j.items[i] \in Children(j) /\ j.items[i] \in AnyJson /\ Append(path, Place(i)) \in Paths
    BY <1>1, EntryAt, PathsGrow
  <2>2. Below(j)[j.items[i]] = Read[j.items[i]]
    BY <2>1, BelowIs
  <2>3. results[i] = Read[j.items[i]]["type"][Append(path, Place(i))]
    <3>1. results[i] = Below(j)[j.items[i]]["type"][Append(path, Place(i))]
      <4> HIDE DEF N
      <4> QED
        BY <1>1, Zenon
    <3> HIDE DEF results
    <3> QED
      BY <2>2, <3>1
  <2>4. Tells(Read[j.items[i]]["type"][Append(path, Place(i))], Problems[j.items[i]]["type"][Append(path, Place(i))])
    BY <2>1, TypeChild DEF TypeLike
  <2> HIDE DEF results
  <2> QED
    BY <2>3, <2>4 DEF Tells
<1>7. ReadsItems(s, j, path)
  <2> HIDE DEF s, results, N
  <2> QED
    BY <1>1, <1>4, <1>5, <1>6 DEF ReadsItems
<1>8. Together(s, ProblemsByItem(j, path, ProblemsBelow(j)))
  <2> HIDE DEF s
  <2> QED
    BY <1>7, ByItemTogether
<1>9. Tells(FirstProblem(s), ProblemsByItem(j, path, ProblemsBelow(j)))
  <2> HIDE DEF s
  <2> QED
    BY <1>8, FirstProblemFound DEF Together, Tells
<1>10. /\ wrong = {i \in DOMAIN s : ~Usable(s[i].result)}
       /\ wrong # {} => Min(wrong) \in 1..N
  <2>1. wrong = {i \in DOMAIN s : ~Usable(s[i].result)}
    <3> HIDE DEF s, results
    <3> QED
      BY <1>1, <1>4, <1>5
  <2>2. wrong \in SUBSET Nat /\ wrong \subseteq 1..N
    BY <1>1
  <2> HIDE DEF wrong
  <2>3. wrong # {} => Min(wrong) \in wrong
    BY <2>2, FirstPlace
  <2> QED
    BY <2>1, <2>2, <2>3
<1>11. LET same == IF wrong # {} THEN results[Min(wrong)] ELSE Good(whole) IN
       same.error = FirstProblem(s).error /\ same.problem = FirstProblem(s).problem
  <2>1. FirstProblem(s) = IF wrong # {} THEN s[Min(wrong)].result
                          ELSE Good([i \in DOMAIN s |-> [name |-> s[i].name, value |-> s[i].result.value]])
    <3> HIDE DEF s, wrong
    <3> QED
      BY <1>10, Zenon DEF FirstProblem
  <2> HIDE DEF s, wrong, results, whole
  <2> QED
    BY <1>5, <1>10, <2>1, ResultsAre
<1> HIDE DEF s, wrong, results, whole, r, p
<1>12. Tells(r, p)
  <2>1. CASE j.is # "array"
    <3>1. r = Wrong(path, "expected_tuple") /\ p = Problem(path, "expected_tuple")
      BY <1>2, <1>3, <2>1, Zenon
    <3> QED
      BY <3>1, ListProblem, ResultsAre DEF Tells
  <2>2. CASE j.is = "array"
    <3>1. r = (IF wrong # {} THEN results[Min(wrong)] ELSE Good(whole))
          /\ p = ProblemsByItem(j, path, ProblemsBelow(j))
      BY <1>2, <1>3, <2>2, Zenon
    <3> QED
      BY <1>9, <1>11, <3>1 DEF Tells
  <2> QED
    BY <2>1, <2>2
<1> QED
  BY <1>12 DEF r, p

\* Types hold, if what is inside them does.
LEMMA TypesHold ==
  ASSUME NEW j \in AnyJson, \A c \in Children(j) : Held(c), NEW kind \in TypeLike, NEW path \in Paths
  PROVE  HoldsOf(j, kind, path)
<1>1. Tells(Read[j][kind][path], Problems[j][kind][path])
  <2>1. Read[j]["type"][path] = ReadType(j, path, Below(j))
    BY TypeNodes
  <2>2. Problems[j]["type"][path] = TypeProblems(j, path, ProblemsBelow(j))
    BY ProblemsOfNode DEF NodeParts
  <2>3. Tells(Read[j]["type"][path], Problems[j]["type"][path])
    BY <2>1, <2>2, TypeTells
  <2> QED
    BY <2>3, ObjectTypeTells, TupleTypeTells DEF TypeLike
<1>2. WellFormed[j][kind]
  BY TypeNodes
<1>3. kind \in PlainKinds
  BY DEF TypeLike, PlainKinds
<1>4. Meant(j, kind, path)
  BY <1>1, <1>3, NodeMeant
<1> QED
  BY <1>1, <1>2, <1>4 DEF HoldsOf, Tells

\* Of what may be null and is not, a value is never taken for null.
LEMMA SomeTells ==
  ASSUME NEW r, NEW p, IsList(p), Tells(r, p)
  PROVE  Tells(Then(r, Some), p) /\ Then(r, Some) # Good(<<>>)
<1> DEFINE t == Then(r, Some)
<1>1. t = IF Usable(r) THEN Good(<<r.value>>) ELSE r
  BY Zenon DEF Then, Some
<1>2. Tells(t, p)
  <2> DEFINE value == <<r.value>>
  <2> HIDE DEF value, t
  <2>1. t = IF Usable(r) THEN Good(value) ELSE r
    BY <1>1 DEF value
  <2> QED
    BY <2>1, ThenTells
<1>3. t # Good(<<>>)
  <2> HIDE DEF t
  <2>1. CASE Usable(r)
    <3>1. t.value = <<r.value>> /\ Good(<<>>).value = <<>>
      BY <1>1, <2>1, ResultsAre
    <3>2. <<r.value>> # <<>>
      BY ListOne
    <3> QED
      BY <3>1, <3>2
  <2>2. CASE ~Usable(r)
    <3>1. t.problem # <<>>
      BY <1>1, <2>2 DEF Usable, Tells
    <3> QED
      BY <3>1, ResultsAre
  <2> QED
    BY <2>1, <2>2
<1> QED
  BY <1>2, <1>3

\* So does a type that may be null.
LEMMA MaybeTypeHolds ==
  ASSUME NEW j \in AnyJson, \A c \in Children(j) : Held(c), NEW path \in Paths
  PROVE  HoldsOf(j, "maybeType", path)
<1> DEFINE r == Read[j]["maybeType"][path]
           inner == ReadType(j, path, Below(j))
           p == Problems[j]["type"][path]
<1>1. WellFormed[j]["maybeType"] /\ r = IF j.is = "null" THEN Good(<<>>) ELSE Then(inner, Some)
  BY TypeNodes
<1>2. Tells(inner, p)
  <2>1. p = TypeProblems(j, path, ProblemsBelow(j))
    BY ProblemsOfNode DEF NodeParts
  <2> QED
    BY <2>1, TypeTells
<1>3. IsList(p)
  BY ProblemLists DEF ListsIn, NodeKinds
<1>4. Tells(Then(inner, Some), p) /\ Then(inner, Some) # Good(<<>>)
  <2> HIDE DEF inner, p
  <2> QED
    BY <1>2, <1>3, SomeTells
<1>5. r.error = <<>>
  BY <1>1, <1>4, ResultsAre DEF Tells
<1>6. TellsMaybe(j, "maybeType", "type", path)
  BY <1>1, <1>4 DEF TellsMaybe, Tells
<1>7. Meant(j, "maybeType", path)
  BY <1>6 DEF Meant, NodeKinds, CarriedKinds, Scalars
<1> QED
  BY <1>1, <1>5, <1>7 DEF HoldsOf

\* So does a nested type that may be null.
LEMMA MaybeNestedTypeHolds ==
  ASSUME NEW j \in AnyJson, \A c \in Children(j) : Held(c), NEW path \in Paths
  PROVE  HoldsOf(j, "maybeNestedType", path)
<1> DEFINE r == Read[j]["maybeNestedType"][path]
           inner == ReadFields("nestedType", j, path, Below(j))
           p == Problems[j]["nestedType"][path]
           formed == HasFields(Seeds["nestedType"], j, FormedBelow(j))
<1>1. /\ WellFormed[j]["maybeNestedType"] <=> j.is = "null" \/ formed
      /\ r = IF j.is = "null" THEN Good(<<>>) ELSE Then(inner, Some)
  BY TypeNodes
<1>2. ~formed => inner.error # <<>>
  BY RawFieldsRead DEF RawSeeds
<1>3. formed => Tells(inner, p)
  <2>1. ASSUME formed PROVE \E found : RawFields(found, "nestedType", j, path) /\ inner = Finished("nestedType", found, path)
    BY <2>1, RawFieldsRead DEF RawSeeds, ReadsFields
  <2> QED
    BY <2>1, NestedTypeTells
<1>4. IsList(p)
  BY ProblemLists DEF ListsIn, NodeKinds
<1> HIDE DEF inner, p, formed
<1>5. formed => Tells(Then(inner, Some), p) /\ Then(inner, Some) # Good(<<>>)
  BY <1>3, <1>4, SomeTells
<1>6. ~formed => Then(inner, Some) = inner
  BY <1>2, Zenon DEF Then, Usable
<1>7. r.error = <<>> <=> WellFormed[j]["maybeNestedType"]
  BY <1>1, <1>2, <1>5, <1>6, ResultsAre DEF Tells
<1>8. WellFormed[j]["maybeNestedType"] => TellsMaybe(j, "maybeNestedType", "nestedType", path)
  BY <1>1, <1>5 DEF TellsMaybe, Tells, p
<1>9. WellFormed[j]["maybeNestedType"] => Meant(j, "maybeNestedType", path)
  BY <1>8 DEF Meant, NodeKinds, CarriedKinds, Scalars
<1> QED
  BY <1>7, <1>9 DEF HoldsOf

\* These are all the kinds there are.
LEMMA RawKindsSplit ==
  RawKinds = RawSeeds \cup RawMaps \cup TypeLike \cup {"maybeType", "maybeNestedType"}
               \cup {"text", "flag", "maybeText", "maybeCount"}
BY DEF RawKinds, NodeKinds, RawSeeds, RawMaps, TypeLike

\* All JSON is read without an error exactly if it is well-formed, and the problems of
\* its nodes are found in schema order.
THEOREM ReadingTells ==
  \A j \in AnyJson : Held(j)
<1> DEFINE S == {j \in AnyJson : Held(j)}
<1>1. ASSUME NEW j \in AnyJson, Children(j) \subseteq S
      PROVE  j \in S
  <2>1. \A c \in Children(j) : Held(c)
    BY <1>1
  <2>2. ASSUME NEW kind \in RawKinds, NEW path \in Paths PROVE HoldsOf(j, kind, path)
    <3>1. CASE kind \in RawSeeds
      BY <2>1, <3>1, SeedsHold
    <3>2. CASE kind \in RawMaps
      BY <2>1, <3>2, MapsHold
    <3>3. CASE kind \in TypeLike
      BY <2>1, <3>3, TypesHold
    <3>4. CASE kind \in {"text", "flag", "maybeText", "maybeCount"}
      BY <3>4, ScalarsHold
    <3>5. CASE kind = "maybeType"
      BY <2>1, <3>5, MaybeTypeHolds
    <3>6. CASE kind = "maybeNestedType"
      BY <2>1, <3>6, MaybeNestedTypeHolds
    <3> QED
      BY <3>1, <3>2, <3>3, <3>4, <3>5, <3>6, RawKindsSplit
  <2> QED
    BY <2>2 DEF Held
<1> HIDE DEF S
<1>2. AnyJson \subseteq S
  BY <1>1, JsonInduction
<1> QED
  BY <1>2 DEF S

-----------------------------------------------------------------------------
\* A document's provider, and the problem that is reported.

\* The first of lists of one element or none, flattened.
FirstKept(ss, kept, m) == m \in DOMAIN ss /\ m \in kept /\ \A k \in 1..(m - 1) : k \notin kept

\* It is what is kept first.
LEMMA FirstChosen ==
  ASSUME NEW ss, NEW kept, NEW x, NEW m, IsList(ss), Chosen(ss, kept, x), FirstKept(ss, kept, m)
  PROVE  FlattenSeq(ss) # <<>> /\ FlattenSeq(ss)[1] = x[m]
<1> DEFINE n == Len(ss)
<1>1. n \in Nat /\ DOMAIN ss = 1..n /\ m \in 1..n
  BY ListLen DEF FirstKept
<1>2. \A i \in 1..n : ss[i] = IF i \in kept THEN <<x[i]>> ELSE <<>>
  BY <1>1 DEF Chosen
<1>3. \A y : FirstOf(<<y>>) = <<y>> /\ <<y>> # <<>>
  <2>1. SUFFICES ASSUME NEW y PROVE FirstOf(<<y>>) = <<y>> /\ <<y>> # <<>>
    OBVIOUS
  <2>2. Head(<<y>>) = y /\ <<y>> # <<>>
    OBVIOUS
  <2> QED
    BY <2>2, Zenon DEF FirstOf
<1>4. ss # <<>>
  BY <1>1, ListEmpty
<1>5. PICK f : Along(ss, n, f) /\ FlattenSeq(ss) = f[n]
  BY <1>4, FlattenAlong
<1> DEFINE Is(i) == IsList(f[i]) /\ FirstOf(f[i]) = IF i < m THEN <<>> ELSE <<x[m]>>
           Wanting == {i \in 1..n : ~Is(i)}
<1> HIDE DEF n
<1>6. ASSUME NEW i \in 1..n
      PROVE  /\ IsList(ss[i])
             /\ i < m => FirstOf(ss[i]) = <<>>
             /\ i = m => FirstOf(ss[i]) = <<x[m]>>
  <2>1. CASE i \in kept
    <3>1. ss[i] = <<x[i]>> /\ ~(i < m)
      <4>1. i < m => i \in 1..(m - 1)
        BY <1>1
      <4> QED
        BY <1>2, <2>1, <4>1 DEF FirstKept
    <3> QED
      BY <1>3, <3>1, ListOne
  <2>2. CASE i \notin kept
    <3>1. ss[i] = <<>> /\ i # m
      BY <1>2, <2>2 DEF FirstKept
    <3> QED
      BY <3>1, ListEmpty DEF FirstOf
  <2> QED
    BY <2>1, <2>2
<1>7. Wanting = {}
  <2>1. SUFFICES ASSUME Wanting # {} PROVE FALSE
    OBVIOUS
  <2>2. PICK i \in Wanting : \A k \in Wanting : i <= k
    <3>1. Wanting \in SUBSET Nat
      BY <1>1
    <3> QED
      BY <2>1, <3>1, LeastNumber
  <2>3. i \in 1..n
    OBVIOUS
  <2>4. CASE i = 1
    <3>1. f[i] = ss[i]
      BY <1>5, <2>3, <2>4, Zenon DEF Along
    <3>2. i < m \/ i = m
      BY <1>1, <2>4
    <3>3. Is(i)
      BY <1>1, <1>6, <2>3, <3>1, <3>2
    <3> QED
      BY <2>2, <3>3
  <2>5. CASE i # 1
    <3>1. i - 1 \in 1..n /\ ~(i <= i - 1)
      BY <1>1, <2>3, <2>5
    <3>2. Is(i - 1)
      BY <2>2, <3>1
    <3>3. f[i] = f[i - 1] \o ss[i]
      BY <1>5, <2>3, <2>5, Zenon DEF Along
    <3>4. IsList(ss[i])
      BY <1>6, <2>3
    <3>5. IsList(f[i])
      BY <3>2, <3>3, <3>4, ListConcat
    <3>6. FirstOf(f[i]) = Earlier(FirstOf(f[i - 1]), FirstOf(ss[i]))
      BY <3>2, <3>3, <3>4, FirstOfConcat
    <3>7. i < m => FirstOf(f[i - 1]) = <<>> /\ FirstOf(ss[i]) = <<>>
      BY <1>1, <1>6, <2>3, <3>1, <3>2
    <3>8. i = m => FirstOf(f[i - 1]) = <<>> /\ FirstOf(ss[i]) = <<x[m]>>
      BY <1>1, <1>6, <2>3, <3>1, <3>2
    <3>9. i > m => FirstOf(f[i - 1]) = <<x[m]>>
      BY <1>1, <2>3, <3>1, <3>2
    <3>10. <<x[m]>> # <<>>
      BY <1>3
    <3>11. i < m \/ i = m \/ i > m
      BY <1>1, <2>3
    <3>12. Is(i)
      BY <1>1, <2>3, <3>5, <3>6, <3>7, <3>8, <3>9, <3>10, <3>11 DEF Earlier
    <3> QED
      BY <2>2, <3>12
  <2> QED
    BY <2>4, <2>5
<1>8. n \in 1..n /\ ~(n < m)
  BY <1>1
<1>9. FirstOf(FlattenSeq(ss)) = <<x[m]>>
  BY <1>5, <1>7, <1>8
<1>10. FlattenSeq(ss) # <<>>
  BY <1>3, <1>9 DEF FirstOf
<1>11. <<Head(FlattenSeq(ss))>> = <<x[m]>>
  BY <1>9, <1>10 DEF FirstOf
<1>12. \A y, z : <<y>> = <<z>> => y = z
  OBVIOUS
<1>13. Head(FlattenSeq(ss)) = FlattenSeq(ss)[1]
  OBVIOUS
<1> QED
  BY <1>10, <1>11, <1>12, <1>13

\* The provider a document is read for: the first that matches.
LEMMA MatchingFirst ==
  ASSUME NEW j, NEW s, NamedAs(s, j)
  PROVE  LET matching == {k \in DOMAIN Matching : Has(j, Matching[k])}
             kept == SortUniqueBy(Matching, s)
         IN /\ matching = {} => kept = <<>>
            /\ matching # {} => /\ Min(matching) \in matching /\ kept # <<>>
                                /\ kept[1] = LastOf(s, Matching[Min(matching)])
<1> DEFINE matching == {k \in DOMAIN Matching : Has(j, Matching[k])}
           x == [k \in DOMAIN Matching |-> LastOf(s, Matching[k])]
           ss == [k \in DOMAIN Matching |->
                    IF Named(s, Matching[k]) = {} THEN <<>> ELSE <<LastOf(s, Matching[k])>>]
           m == Min(matching)
<1>1. Len(Matching) \in Nat /\ DOMAIN Matching = 1..Len(Matching)
  BY OrderAssumption
<1>2. IsList(ss) /\ DOMAIN ss = DOMAIN Matching
  <2>1. ss = [k \in 1..Len(Matching) |-> ss[k]] /\ DOMAIN ss = DOMAIN Matching
    BY <1>1
  <2> HIDE DEF ss
  <2> QED
    BY <1>1, <2>1, ListMade
<1>3. Chosen(ss, matching, x)
  <2>1. \A k \in DOMAIN Matching : Named(s, Matching[k]) = {} <=> k \notin matching
    BY NamedPlaces DEF Has
  <2> HIDE DEF matching
  <2>2. ASSUME NEW k \in DOMAIN Matching
        PROVE  ss[k] = IF k \in matching THEN <<x[k]>> ELSE <<>>
    BY <2>1
  <2> HIDE DEF x
  <2> QED
    BY <1>2, <2>2 DEF Chosen
<1>4. SortUniqueBy(Matching, s) = FlattenSeq(ss)
  BY Zenon DEF SortUniqueBy
<1>5. ASSUME matching = {} PROVE SortUniqueBy(Matching, s) = <<>>
  <2> HIDE DEF ss, matching, x
  <2>1. Holding(FlattenSeq(ss), DOMAIN ss, matching, x)
    BY <1>2, <1>3, FlatSome
  <2>2. IsList(FlattenSeq(ss)) /\ ToSet(FlattenSeq(ss)) = {}
    BY <1>5, <2>1 DEF Holding
  <2> QED
    BY <1>4, <2>2, ListEmpty
<1>6. ASSUME matching # {}
      PROVE  /\ m \in matching /\ SortUniqueBy(Matching, s) # <<>>
             /\ SortUniqueBy(Matching, s)[1] = LastOf(s, Matching[m])
  <2>1. matching \in SUBSET Nat /\ matching \subseteq 1..Len(Matching)
    BY <1>1
  <2>2. m \in matching /\ \A k \in matching : m <= k
    <3> HIDE DEF matching
    <3> QED
      BY <1>6, <2>1, FirstPlace
  <2>3. FirstKept(ss, matching, m)
    <3>1. m \in DOMAIN ss /\ m \in Nat
      BY <1>1, <1>2, <2>1, <2>2
    <3> HIDE DEF m, matching
    <3>2. \A k \in 1..(m - 1) : k \notin matching
      BY <2>2, <3>1
    <3> QED
      BY <2>2, <3>1, <3>2 DEF FirstKept
  <2>4. x[m] = LastOf(s, Matching[m])
    <3> HIDE DEF m
    <3> QED
      BY <2>2
  <2> HIDE DEF ss, matching, x, m
  <2> QED
    BY <1>2, <1>3, <1>4, <2>2, <2>3, <2>4, FirstChosen
<1> QED
  BY <1>5, <1>6

\* The schemas of a provider tell their problems once they are wanted.
LEMMA SchemasTell ==
  ASSUME NEW q \in AnyJson, NEW found, RawFields(found, "provider", q, <<>>),
         NEW key \in {"resource_schemas", "data_source_schemas"}
  PROVE  LET root == IF key = "resource_schemas" THEN "resource" ELSE "data" IN
         Tells(FirstProblem(Optional(found, key, <<>>)), PartProblems(q, key, "schemas", <<Label(root)>>))
<1> DEFINE root == IF key = "resource_schemas" THEN "resource" ELSE "data"
           place == <<Label(root)>>
<1>1. /\ key \in DOMAIN Seeds["provider"].fields /\ Seeds["provider"].fields[key] = "schemas"
      /\ PathBelow("provider", key, <<>>) = place
  <2>1. Seeds["provider"] = ProviderSeed
    BY DEF Seeds
  <2>2. PathBelow("provider", key, <<>>) = place
    BY DEF PathBelow
  <2> QED
    BY <2>1, <2>2 DEF ProviderSeed, Seed
<1> HIDE DEF place
<1>2. CASE Has(q, key)
  <2>1. /\ key \in DOMAIN found
        /\ found[key] = Read[At(q, key)]["schemas"][place]
        /\ Meant(At(q, key), "schemas", place)
    BY <1>1, <1>2 DEF RawFields
  <2>2. Optional(found, key, <<>>) = Read[At(q, key)]["schemas"][place].value
    BY <2>1, Zenon DEF Optional
  <2>3. Told("schemas", Read[At(q, key)]["schemas"][place]) = FirstProblem(Optional(found, key, <<>>))
    BY <2>2 DEF Told
  <2>4. TellsNode(At(q, key), "schemas", place)
    BY <2>1 DEF Meant, NodeKinds
  <2>5. Tells(FirstProblem(Optional(found, key, <<>>)), PartProblems(q, key, "schemas", place))
    BY <1>2, <2>3, <2>4 DEF TellsNode, Tells, PartProblems
  <2> QED
    BY <2>5 DEF place
<1>3. CASE ~Has(q, key)
  <2>1. Optional(found, key, <<>>) = <<>>
    BY <1>3 DEF RawFields, Optional
  <2>2. FirstProblem(<<>>).error = <<>> /\ FirstProblem(<<>>).problem = <<>>
    BY ListEmpty, FirstSimple, FirstProblemFound
  <2>3. Tells(FirstProblem(Optional(found, key, <<>>)), PartProblems(q, key, "schemas", place))
    BY <1>3, <2>1, <2>2 DEF Tells, PartProblems, FirstOf
  <2> QED
    BY <2>3 DEF place
<1> QED
  BY <1>2, <1>3

\* A well-formed provider is read as the results of its parts, each telling its own.
LEMMA ProviderTells ==
  ASSUME NEW q \in AnyJson, WellFormed[q]["provider"]
  PROVE  ProviderTold(Read[q]["provider"][<<>>].value, q)
<1> DEFINE r == Read[q]["provider"][<<>>]
<1>1. \A c \in Children(q) : Held(c)
  BY ReadingTells, EntryAt
<1>2. /\ r = ReadFields("provider", q, <<>>, Below(q))
      /\ HasFields(Seeds["provider"], q, FormedBelow(q))
  BY PathsAre, RawNodes DEF RawSeeds
<1>3. PICK found : RawFields(found, "provider", q, <<>>) /\ r = Finished("provider", found, <<>>)
  BY <1>1, <1>2, PathsAre, RawFieldsRead DEF RawSeeds, ReadsFields
<1>4. r = FinishedProvider(found)
  BY <1>3, FinishedRaw
<1> DEFINE config == found["provider"]
           resources == Optional(found, "resource_schemas", <<>>)
           data == Optional(found, "data_source_schemas", <<>>)
           place == <<Label("provider")>>
<1>5. r.value.config = config /\ r.value.resources = resources /\ r.value.data_sources = data
  <2>1. r = Good([config |-> config, resources |-> resources, data_sources |-> data])
    BY <1>4, Zenon DEF FinishedProvider
  <2> HIDE DEF r, config, resources, data
  <2>2. r.value = [config |-> config, resources |-> resources, data_sources |-> data]
    BY <2>1, ResultsAre
  <2> QED
    BY <2>2
<1>6. Tells(config, PartProblems(q, "provider", "schema", place))
  <2>1. /\ "provider" \in Seeds["provider"].required /\ Seeds["provider"].fields["provider"] = "schema"
        /\ PathBelow("provider", "provider", <<>>) = place /\ "schema" \in NodeKinds
    <3>1. Seeds["provider"] = ProviderSeed
      BY DEF Seeds
    <3>2. PathBelow("provider", "provider", <<>>) = place
      BY DEF PathBelow
    <3> QED
      BY <3>1, <3>2 DEF ProviderSeed, Seed, NodeKinds
  <2> HIDE DEF place
  <2>2. /\ "provider" \in DOMAIN found /\ Has(q, "provider")
        /\ found["provider"] = Read[At(q, "provider")]["schema"][place]
        /\ Meant(At(q, "provider"), "schema", place)
    BY <1>3, <2>1 DEF RawFields
  <2>3. Told("schema", found["provider"]) = found["provider"]
    BY DEF Told
  <2> QED
    BY <2>1, <2>2, <2>3 DEF Meant, TellsNode, Tells, PartProblems
<1>7. Tells(FirstProblem(resources), PartProblems(q, "resource_schemas", "schemas", <<Label("resource")>>))
  BY <1>3, SchemasTell
<1>8. Tells(FirstProblem(data), PartProblems(q, "data_source_schemas", "schemas", <<Label("data")>>))
  BY <1>3, SchemasTell
<1> HIDE DEF r, config, resources, data
<1> QED
  BY <1>5, <1>6, <1>7, <1>8 DEF ProviderTold, r

\* The provider's problems in order.
LEMMA ProviderInOrder ==
  ASSUME NEW value, NEW q \in AnyJson, ProviderTold(value, q), NEW raw, raw.format_version \in Supported,
         raw.providers # <<>>, raw.providers[1].result.value = value
  PROVE  Tells(NormalizedDocument(raw), ProviderProblems(q))
<1> DEFINE config == value.config
           resources == FirstProblem(value.resources)
           data == FirstProblem(value.data_sources)
           one == IF ~Usable(config) THEN config ELSE resources
           whole(d) == [source |-> Request.source, version |-> Request.version,
                        provider_config |-> config.value, resources |-> resources.value, data_sources |-> d]
           p == PartProblems(q, "provider", "schema", <<Label("provider")>>)
           s == PartProblems(q, "resource_schemas", "schemas", <<Label("resource")>>)
           t == PartProblems(q, "data_source_schemas", "schemas", <<Label("data")>>)
           r == NormalizedDocument(raw)
<1>1. Tells(config, p) /\ Tells(resources, s) /\ Tells(data, t)
  BY Zenon DEF ProviderTold
<1>2. IsList(p) /\ IsList(s) /\ IsList(t)
  <2>1. <<Label("provider")>> \in Paths /\ <<Label("resource")>> \in Paths /\ <<Label("data")>> \in Paths
    BY DEF Paths, Roots, Label
  <2> QED
    BY <2>1, PartLists DEF NodeKinds
<1>3. r = IF ~Usable(config) THEN config
          ELSE IF ~Usable(resources) THEN resources
          ELSE IF Usable(data) THEN Good(whole(data.value)) ELSE data
  BY Zenon DEF NormalizedDocument, Then
<1>4. ProviderProblems(q) = (p \o s) \o t
  BY Zenon DEF ProviderProblems, PartProblems
<1> HIDE DEF config, resources, data, whole, p, s, t, r
<1>5. Tells(one, p \o s)
  <2>1. /\ ~Usable(config) => one = config
        /\ Usable(config) => one.error = resources.error /\ one.problem = resources.problem
    OBVIOUS
  <2> HIDE DEF one
  <2> QED
    BY <1>1, <1>2, <2>1, TellsOneByOne
<1>6. IsList(p \o s)
  BY <1>2, ListConcat
<1>7. /\ ~Usable(one) => r = one
      /\ Usable(one) => r.error = data.error /\ r.problem = data.problem
  BY <1>3, ResultsAre DEF Usable
<1> HIDE DEF one
<1>8. Tells(r, (p \o s) \o t)
  BY <1>1, <1>2, <1>5, <1>6, <1>7, TellsOneByOne
<1> QED
  BY <1>4, <1>8 DEF r

\* A well-formed document is read as its version and the providers that match.
LEMMA DocumentTells ==
  ASSUME NEW j \in AnyJson, WellFormed[j]["document"]
  PROVE  /\ Read[j]["document"][<<>>].error = <<>>
         /\ DocumentTold(Read[j]["document"][<<>>].value.raw[1], j)
<1> DEFINE r == Read[j]["document"][<<>>]
           P == At(j, "provider_schemas")
<1>1. \A c \in Children(j) : Held(c)
  BY ReadingTells, EntryAt
<1>2. /\ r = ReadFields("document", j, <<>>, Below(j))
      /\ HasFields(Seeds["document"], j, FormedBelow(j))
  BY PathsAre, RawNodes DEF RawSeeds
<1>3. PICK found : RawFields(found, "document", j, <<>>) /\ r = Finished("document", found, <<>>)
  BY <1>1, <1>2, PathsAre, RawFieldsRead DEF RawSeeds, ReadsFields
<1>4. r = FinishedDocument(found)
  BY <1>3, FinishedRaw
<1>5. /\ DocumentSeed.required \subseteq DOMAIN found
      /\ "format_version" \in DOMAIN found /\ "provider_schemas" \in DOMAIN found
      /\ Seeds["document"].fields["format_version"] = "text"
      /\ Seeds["document"].fields["provider_schemas"] = "providers"
      /\ \A key : PathBelow("document", key, <<>>) = <<>>
  <2>1. Seeds["document"] = DocumentSeed
    BY DEF Seeds
  <2>2. DocumentSeed.required \subseteq DOMAIN found
    BY <1>3, <2>1 DEF RawFields
  <2>3. \A key : PathBelow("document", key, <<>>) = <<>>
    BY DEF PathBelow
  <2> QED
    BY <2>1, <2>2, <2>3 DEF DocumentSeed, Seed
<1> DEFINE raw == [format_version |-> found["format_version"].value,
                   providers |-> found["provider_schemas"].value]
           normalized == IF DerivedSeed.required \subseteq DOMAIN found THEN <<StoredSchema(found)>> ELSE <<>>
<1>6. r.error = <<>> /\ r.value.raw[1] = raw
  <2>1. r = Good([raw |-> <<raw>>, normalized |-> normalized])
    BY <1>4, <1>5, Zenon DEF FinishedDocument
  <2> HIDE DEF r, raw, normalized
  <2>2. r.error = <<>> /\ r.value = [raw |-> <<raw>>, normalized |-> normalized]
    BY <2>1, ResultsAre
  <2>3. r.value.raw = <<raw>>
    BY <2>2
  <2> QED
    BY <2>2, <2>3
<1>7. raw.format_version = At(j, "format_version").text
  <2>1. /\ found["format_version"] = Read[At(j, "format_version")]["text"][<<>>]
        /\ Meant(At(j, "format_version"), "text", <<>>)
    BY <1>3, <1>5 DEF RawFields
  <2>2. found["format_version"].value = At(j, "format_version").text
    BY <2>1, ResultsAre DEF Meant
  <2> QED
    BY <2>2
<1>8. /\ P \in AnyJson /\ WellFormed[P]["providers"]
      /\ raw.providers = Read[P]["providers"][<<>>].value
  <2>1. /\ found["provider_schemas"] = Read[P]["providers"][<<>>]
        /\ WellFormed[P]["providers"] /\ P \in Children(j)
    BY <1>3, <1>5 DEF RawFields
  <2> QED
    BY <2>1, EntryAt
<1> HIDE DEF raw, r
<1>9. DocumentTold(raw, j)
  BY <1>7, <1>8 DEF DocumentTold
<1> QED
  BY <1>6, <1>9 DEF r

\* A problem is reported as it is.
LEMMA WrongReported ==
  ASSUME NEW path, NEW what
  PROVE  Reported(Wrong(path, what)) = Problem(path, what)
<1> DEFINE x == [path |-> path, what |-> what]
<1>1. Wrong(path, what) = [error |-> <<>>, problem |-> <<x>>, value |-> <<>>] /\ Problem(path, what) = <<x>>
  BY Zenon DEF Wrong, Problem
<1> HIDE DEF x
<1>2. Wrong(path, what).error = <<>> /\ Wrong(path, what).problem = <<x>>
  BY <1>1
<1> QED
  BY <1>1, <1>2, Zenon DEF Reported

\* The schema of a provider is reported as it is promised, whatever the JSON.
THEOREM ReadingInOrder ==
  \A j \in AnyJson : Reported(NormalizeSchema(j)) = Promised(j)
<1> SUFFICES ASSUME NEW j \in AnyJson PROVE Reported(NormalizeSchema(j)) = Promised(j)
  OBVIOUS
<1> DEFINE document == Read[j]["document"][<<>>]
           raw == document.value.raw[1]
           P == At(j, "provider_schemas")
           matching == {k \in DOMAIN Matching : Has(P, Matching[k])}
           Q == At(P, Matching[Min(matching)])
<1>1. document.error = <<>> <=> WellFormed[j]["document"]
  <2>1. "document" \in RawKinds
    BY DEF RawKinds
  <2>2. HoldsOf(j, "document", <<>>)
    BY <2>1, PathsAre, ReadingTells, ChildHeld
  <2> QED
    BY <2>2 DEF HoldsOf
<1>2. NormalizeSchema(j) = IF document.error # <<>> THEN document ELSE NormalizedDocument(raw)
  BY Zenon DEF NormalizeSchema
<1>3. Promised(j) = IF ~WellFormed[j]["document"] THEN <<"json">>
                    ELSE IF At(j, "format_version").text \notin Supported THEN Problem(<<>>, "unsupported_format")
                    ELSE IF matching = {} THEN Problem(<<>>, "missing_provider")
                    ELSE FirstOf(ProviderProblems(Q))
  BY Zenon DEF Promised
<1>4. CASE ~WellFormed[j]["document"]
  <2> HIDE DEF document
  <2> QED
    BY <1>1, <1>2, <1>3, <1>4 DEF Reported
<1>5. CASE WellFormed[j]["document"]
  <2>1. document.error = <<>> /\ DocumentTold(raw, j)
    BY <1>5, DocumentTells
  <2>2. NormalizeSchema(j) = NormalizedDocument(raw)
    BY <1>2, <2>1
  <2>3. P \in AnyJson /\ WellFormed[P]["providers"] /\ raw.format_version = At(j, "format_version").text
        /\ raw.providers = Read[P]["providers"][<<>>].value
    BY <2>1, Zenon DEF DocumentTold
  <2>4. \A c \in Children(P) : Held(c)
    BY <2>3, ReadingTells, EntryAt
  <2> HIDE DEF document, raw, P
  <2>5. PICK s : RawEntries(s, "providers", P, <<>>) /\ raw.providers = SortUniqueBy(Matching, s)
    <3>1. ReadsMap("providers", P, <<>>)
      BY <2>3, <2>4, PathsAre, RawMapRead DEF RawMaps
    <3>2. PICK s : RawEntries(s, "providers", P, <<>>) /\ Read[P]["providers"][<<>>] = FinishedMap("providers", s)
      BY <3>1 DEF ReadsMap
    <3>3. Read[P]["providers"][<<>>].value = SortUniqueBy(Matching, s)
      BY <3>2, FinishedMaps, ResultsAre
    <3> QED
      BY <2>3, <3>2, <3>3
  <2>6. NamedAs(s, P)
    BY <2>5 DEF RawEntries
  <2>7. /\ matching = {} => raw.providers = <<>>
        /\ matching # {} => /\ Min(matching) \in matching /\ raw.providers # <<>>
                            /\ raw.providers[1] = LastOf(s, Matching[Min(matching)])
    BY <2>5, <2>6, MatchingFirst
  <2>8. CASE raw.format_version \notin Supported
    <3>1. NormalizedDocument(raw) = Wrong(<<>>, "unsupported_format")
      BY <2>8, Zenon DEF NormalizedDocument
    <3> QED
      BY <1>3, <1>5, <2>2, <2>3, <2>8, <3>1, WrongReported
  <2>9. CASE raw.format_version \in Supported /\ matching = {}
    <3>1. NormalizedDocument(raw) = Wrong(<<>>, "missing_provider")
      BY <2>7, <2>9, Zenon DEF NormalizedDocument
    <3> QED
      BY <1>3, <1>5, <2>2, <2>3, <2>9, <3>1, WrongReported
  <2>10. CASE raw.format_version \in Supported /\ matching # {}
    <3> DEFINE key == Matching[Min(matching)]
    <3>1. key \in STRING /\ Has(P, key) /\ Q = At(P, key)
      <4>1. Min(matching) \in DOMAIN Matching /\ Has(P, Matching[Min(matching)])
        BY <2>7, <2>10
      <4> HIDE DEF matching
      <4> QED
        BY <4>1, OrderAssumption
    <3> HIDE DEF key, Q, matching
    <3> DEFINE i == Max(Places(P, key))
    <3>2. /\ i \in 1..Len(P.entries) /\ P.entries[i].key = key /\ At(P, key) = P.entries[i].value
          /\ At(P, key) \in AnyJson
      BY <2>3, <3>1, AtIs
    <3>3. LastOf(s, key) = s[i] /\ i \in DOMAIN s
      BY <2>3, <2>6, <3>2, NamedPlaces, EntryAt DEF LastOf, NamedAs
    <3> HIDE DEF i
    <3>4. s[i].result = Read[Q]["provider"][<<>>] /\ WellFormed[Q]["provider"] /\ Q \in AnyJson
      <4>1. MapSeeds["providers"] = "provider" /\ PathOfEntry("providers", key, <<>>) = <<>>
        BY DEF MapSeeds, PathOfEntry
      <4> QED
        BY <2>5, <3>1, <3>2, <3>3, <4>1 DEF RawEntries
    <3>5. raw.providers[1].result.value = Read[Q]["provider"][<<>>].value /\ raw.providers # <<>>
      BY <2>7, <2>10, <3>3, <3>4 DEF key
    <3>6. Tells(NormalizedDocument(raw), ProviderProblems(Q))
      BY <2>10, <3>4, <3>5, ProviderTells, ProviderInOrder
    <3>7. Reported(NormalizedDocument(raw)) = FirstOf(ProviderProblems(Q))
      BY <3>6 DEF Tells, Reported
    <3> QED
      BY <1>3, <1>5, <2>2, <2>3, <2>10, <3>7
  <2> QED
    BY <2>8, <2>9, <2>10
<1> QED
  BY <1>4, <1>5

-----------------------------------------------------------------------------
\* Schemas of any depth, and how they are written.

\* Types and blocks by how deep they nest.
SchemaLevels(n, f) == f = [h \in 0..n |-> SchemaNodes(IF h = 0 THEN {} ELSE f[h - 1])]

\* There are levels of any depth.
LEMMA SchemaLevelsExist ==
  ASSUME NEW n \in Nat
  PROVE  \E f : SchemaLevels(n, f)
<1> DEFINE Wanting == {m \in Nat : ~\E f : SchemaLevels(m, f)}
<1>1. SUFFICES ASSUME Wanting # {} PROVE FALSE
  OBVIOUS
<1>2. PICK m \in Wanting : \A k \in Wanting : m <= k
  <2>1. Wanting \in SUBSET Nat
    OBVIOUS
  <2> QED
    BY <1>1, <2>1, LeastNumber
<1>3. CASE m = 0
  <2> DEFINE f == [h \in 0..0 |-> SchemaNodes({})]
  <2>1. 0..0 = {0}
    OBVIOUS
  <2>2. SchemaLevels(0, f)
    BY <2>1, Zenon DEF SchemaLevels
  <2> QED
    BY <1>2, <1>3, <2>2
<1>4. CASE m # 0
  <2>1. m \in Nat /\ m - 1 \in Nat /\ m - 1 \notin Wanting
    <3>1. m \in Nat /\ m - 1 \in Nat /\ ~(m <= m - 1)
      BY <1>2, <1>4
    <3> QED
      BY <1>2, <3>1
  <2>2. PICK f : SchemaLevels(m - 1, f)
    BY <2>1
  <2> DEFINE g == [h \in 0..m |-> SchemaNodes(IF h = 0 THEN {} ELSE f[h - 1])]
  <2>3. ASSUME NEW h \in 0..m, h # 0
        PROVE  g[h - 1] = f[h - 1]
    <3>1. h - 1 \in 0..(m - 1) /\ h - 1 \in 0..m
      BY <2>1, <2>3
    <3> QED
      BY <2>2, <3>1, Zenon DEF SchemaLevels
  <2>4. SchemaLevels(m, g)
    <3> HIDE DEF g
    <3>1. g = [h \in 0..m |-> SchemaNodes(IF h = 0 THEN {} ELSE f[h - 1])]
      BY DEF g
    <3>2. \A h \in 0..m : SchemaNodes(IF h = 0 THEN {} ELSE f[h - 1])
                            = SchemaNodes(IF h = 0 THEN {} ELSE g[h - 1])
      BY <2>3, Zenon
    <3> QED
      BY <3>1, <3>2, Zenon DEF SchemaLevels
  <2> QED
    BY <1>2, <2>4
<1> QED
  BY <1>3, <1>4

\* A node that nests h deep has nodes inside that nest one less.
LEMMA SchemaTreeIs ==
  \A h \in 0..MaxNesting : SchemaTree[h] = SchemaNodes(Over(h))
<1>1. \E f : SchemaLevels(MaxNesting, f)
  BY SchemaLevelsExist, NestingAssumption
<1>2. SchemaTree = CHOOSE f : SchemaLevels(MaxNesting, f)
  BY Zenon DEF SchemaTree, SchemaLevels
<1>3. SchemaLevels(MaxNesting, SchemaTree)
  BY <1>1, <1>2, Zenon
<1> QED
  BY <1>3, Zenon DEF SchemaLevels, Over

\* More may be inside what more nodes are allowed in.
LEMMA NodesGrow ==
  ASSUME NEW S, NEW T, S \subseteq T
  PROVE  SchemaNodes(S) \subseteq SchemaNodes(T)
<1>1. AttributesOver(S) \subseteq AttributesOver(T)
  BY DEF AttributesOver
<1>2. NestedOver(S) \subseteq NestedOver(T)
  BY DEF NestedOver
<1>3. ASSUME NEW X, NEW Y, X \subseteq Y PROVE NamedIn(X) \subseteq NamedIn(Y)
  <2>1. [name : STRING, value : X] \subseteq [name : STRING, value : Y]
    BY <1>3
  <2> QED
    BY <2>1, SeqMonotonic DEF NamedIn
<1>4. /\ NamedIn(AttributesOver(S)) \subseteq NamedIn(AttributesOver(T))
      /\ NamedIn(NestedOver(S)) \subseteq NamedIn(NestedOver(T))
  BY <1>1, <1>2, <1>3
<1>5. Seq(S) \subseteq Seq(T)
  BY SeqMonotonic
<1>6. [1..1 -> S] \subseteq [1..1 -> T]
  OBVIOUS
<1>7. TypesOver(S) \subseteq TypesOver(T)
  BY <1>4, <1>5, <1>6 DEF TypesOver
<1>8. BlocksOver(S) \subseteq BlocksOver(T)
  BY <1>4 DEF BlocksOver
<1> QED
  BY <1>7, <1>8 DEF SchemaNodes

\* Deeper levels hold the shallower ones.
LEMMA SchemaGrows ==
  \A h \in 0..MaxNesting : Over(h) \subseteq SchemaTree[h]
<1> DEFINE Wanting == {h \in 0..MaxNesting : ~(Over(h) \subseteq SchemaTree[h])}
<1>1. SUFFICES ASSUME Wanting # {} PROVE FALSE
  OBVIOUS
<1>2. PICK h \in Wanting : \A k \in Wanting : h <= k
  <2>1. Wanting \in SUBSET Nat
    BY NestingAssumption
  <2> QED
    BY <1>1, <2>1, LeastNumber
<1>3. h # 0
  BY <1>2 DEF Over
<1>4. h - 1 \in 0..MaxNesting /\ h \in 0..MaxNesting /\ ~(h <= h - 1)
  BY <1>2, <1>3, NestingAssumption
<1>5. Over(h - 1) \subseteq SchemaTree[h - 1]
  BY <1>2, <1>4
<1>6. SchemaTree[h - 1] = SchemaNodes(Over(h - 1)) /\ SchemaTree[h] = SchemaNodes(SchemaTree[h - 1])
  BY <1>3, <1>4, SchemaTreeIs DEF Over
<1>7. SchemaTree[h - 1] \subseteq SchemaTree[h]
  BY <1>5, <1>6, NodesGrow
<1> QED
  BY <1>2, <1>3, <1>7 DEF Over

\* The same from one level to the next.
LEMMA SchemaUp ==
  ASSUME NEW h \in 0..MaxNesting, h # 0
  PROVE  /\ h - 1 \in 0..MaxNesting /\ SchemaTree[h - 1] = Over(h)
         /\ Over(h - 1) \subseteq Over(h) /\ SchemaTree[h - 1] \subseteq SchemaTree[h]
<1>1. h - 1 \in 0..MaxNesting
  BY NestingAssumption
<1>2. SchemaTree[h - 1] = Over(h)
  BY DEF Over
<1>3. Over(h - 1) \subseteq SchemaTree[h - 1] /\ Over(h) \subseteq SchemaTree[h]
  BY <1>1, SchemaGrows
<1> QED
  BY <1>1, <1>2, <1>3

\* All nodes that nest less deep are nodes.
LEMMA SchemaInAny ==
  \A h \in 0..MaxNesting : SchemaTree[h] \subseteq AnyNode
<1> DEFINE Wanting == {k \in 0..MaxNesting : ~(SchemaTree[MaxNesting - k] \subseteq AnyNode)}
<1>1. Wanting = {}
  <2>1. SUFFICES ASSUME Wanting # {} PROVE FALSE
    OBVIOUS
  <2>2. PICK k \in Wanting : \A j \in Wanting : k <= j
    <3>1. Wanting \in SUBSET Nat
      BY NestingAssumption
    <3> QED
      BY <2>1, <3>1, LeastNumber
  <2>3. CASE k = 0
    BY <2>2, <2>3, NestingAssumption DEF AnyNode
  <2>4. CASE k # 0
    <3>1. /\ k - 1 \in 0..MaxNesting /\ ~(k <= k - 1)
          /\ MaxNesting - (k - 1) \in 0..MaxNesting /\ MaxNesting - (k - 1) # 0
          /\ MaxNesting - (k - 1) - 1 = MaxNesting - k
      BY <2>2, <2>4, NestingAssumption
    <3>2. SchemaTree[MaxNesting - (k - 1)] \subseteq AnyNode
      BY <2>2, <3>1
    <3>3. SchemaTree[MaxNesting - k] \subseteq SchemaTree[MaxNesting - (k - 1)]
      BY <3>1, SchemaUp
    <3> QED
      BY <2>2, <3>2, <3>3
  <2> QED
    BY <2>3, <2>4
<1>2. SUFFICES ASSUME NEW h \in 0..MaxNesting PROVE SchemaTree[h] \subseteq AnyNode
  OBVIOUS
<1>3. MaxNesting - h \in 0..MaxNesting /\ MaxNesting - (MaxNesting - h) = h
  BY NestingAssumption
<1> QED
  BY <1>1, <1>3

\* How a node is written, given how what is inside it is.
NodeBody(node, r) == IF "kind" \in DOMAIN node THEN TypeJson(node, r) ELSE BlockJson(node, r)
WriteTo(h, r) == r = [node \in SchemaTree[h] |-> NodeBody(node, r)]

\* Named values of a sequence.
LEMMA NamedAt ==
  ASSUME NEW X, NEW s \in NamedIn(X)
  PROVE  \A i \in DOMAIN s : s[i].name \in STRING /\ s[i].value \in X
<1>1. ToSet(s) \subseteq [name : STRING, value : X]
  BY ListOf DEF NamedIn
<1> QED
  BY <1>1 DEF ToSet

\* Attributes take nothing but how their types are written.
LEMMA AttributesAgree ==
  ASSUME NEW S, NEW s \in NamedIn(AttributesOver(S)), NEW r, NEW w, \A c \in S : r[c] = w[c]
  PROVE  AttributesJson(s, r) = AttributesJson(s, w)
<1>1. \A i \in DOMAIN s : AttributeJson(s[i].value, r) = AttributeJson(s[i].value, w)
  <2>1. \A i \in DOMAIN s : s[i].value.type \in S
    <3>1. \A i \in DOMAIN s : s[i].value \in AttributesOver(S)
      BY NamedAt
    <3> QED
      BY <3>1 DEF AttributesOver
  <2>2. SUFFICES ASSUME NEW i \in DOMAIN s
                 PROVE  AttributeJson(s[i].value, r) = AttributeJson(s[i].value, w)
    OBVIOUS
  <2>3. r[s[i].value.type] = w[s[i].value.type]
    BY <2>1
  <2> QED
    BY <2>3 DEF AttributeJson
<1> QED
  BY <1>1, Zenon DEF AttributesJson, MapJson

\* Writing a node takes nothing from what is not inside it.
LEMMA NodeBodyAgree ==
  ASSUME NEW S, NEW node \in SchemaNodes(S), NEW r, NEW w, \A c \in S : r[c] = w[c]
  PROVE  NodeBody(node, r) = NodeBody(node, w)
<1>1. CASE node \in TypesOver(S)
  <2>1. "kind" \in DOMAIN node
    BY <1>1 DEF TypesOver
  <2>2. Parameter(node, r) = Parameter(node, w)
    <3>1. CASE node.kind \in Primitives
      BY <3>1 DEF Parameter, Primitives, Collections
    <3>2. CASE node.kind \in Collections
      <4>1. node.items \in [1..1 -> S]
        BY <1>1, <3>2 DEF TypesOver, Collections, Primitives
      <4>2. node.items[1] \in S
        BY <4>1
      <4>3. node.kind \notin Primitives
        BY <3>2 DEF Collections, Primitives
      <4>4. node.kind # "object" /\ node.kind # "tuple"
        BY <3>2 DEF Collections
      <4>5. r[node.items[1]] = w[node.items[1]]
        BY <4>2
      <4> QED
        BY <3>2, <4>3, <4>4, <4>5 DEF Parameter
    <3>3. CASE node.kind = "object"
      <4>1. node.fields \in NamedIn(AttributesOver(S))
        BY <1>1, <3>3 DEF TypesOver, Collections, Primitives
      <4>2. AttributesJson(node.fields, r) = AttributesJson(node.fields, w)
        BY <4>1, AttributesAgree
      <4> QED
        BY <3>3, <4>2 DEF Parameter, Collections, Primitives
    <3>4. CASE node.kind = "tuple"
      <4>1. node.items \in Seq(S)
        BY <1>1, <3>4 DEF TypesOver, Collections, Primitives
      <4>2. [i \in DOMAIN node.items |-> r[node.items[i]]] = [i \in DOMAIN node.items |-> w[node.items[i]]]
        <5>1. \A i \in DOMAIN node.items : node.items[i] \in S
          BY <4>1
        <5> QED
          BY <5>1, Zenon
      <4> QED
        BY <3>4, <4>2 DEF Parameter, Collections, Primitives
    <3> QED
      BY <1>1, <3>1, <3>2, <3>3, <3>4 DEF TypesOver
  <2>3. TypeJson(node, r) = TypeJson(node, w)
    BY <2>2, Zenon DEF TypeJson
  <2> QED
    BY <2>1, <2>3, Zenon DEF NodeBody
<1>2. CASE node \in BlocksOver(S)
  <2>1. "kind" \notin DOMAIN node
    BY <1>2 DEF BlocksOver
  <2>2. node.attributes \in NamedIn(AttributesOver(S)) /\ node.blocks \in NamedIn(NestedOver(S))
    BY <1>2 DEF BlocksOver
  <2>3. AttributesJson(node.attributes, r) = AttributesJson(node.attributes, w)
    BY <2>2, AttributesAgree
  <2>4. \A i \in DOMAIN node.blocks :
          NestedBlockJson(node.blocks[i].value, r) = NestedBlockJson(node.blocks[i].value, w)
    <3>1. \A i \in DOMAIN node.blocks : node.blocks[i].value.block \in S
      <4>1. \A i \in DOMAIN node.blocks : node.blocks[i].value \in NestedOver(S)
        BY <2>2, NamedAt
      <4> QED
        BY <4>1 DEF NestedOver
    <3>2. SUFFICES ASSUME NEW i \in DOMAIN node.blocks
                   PROVE  NestedBlockJson(node.blocks[i].value, r) = NestedBlockJson(node.blocks[i].value, w)
      OBVIOUS
    <3>3. r[node.blocks[i].value.block] = w[node.blocks[i].value.block]
      BY <3>1
    <3> QED
      BY <3>3 DEF NestedBlockJson
  <2>5. BlockJson(node, r) = BlockJson(node, w)
    BY <2>3, <2>4, Zenon DEF BlockJson, MapJson
  <2> QED
    BY <2>1, <2>5, Zenon DEF NodeBody
<1> QED
  BY <1>1, <1>2 DEF SchemaNodes

\* So it can be written, however deep it nests.
LEMMA NodeBodyExists ==
  \A h \in 0..MaxNesting : \E r : WriteTo(h, r)
<1> DEFINE Wanting == {h \in 0..MaxNesting : ~\E r : WriteTo(h, r)}
<1>1. SUFFICES ASSUME Wanting # {} PROVE FALSE
  OBVIOUS
<1>2. PICK h \in Wanting : \A k \in Wanting : h <= k
  <2>1. Wanting \in SUBSET Nat
    BY NestingAssumption
  <2> QED
    BY <1>1, <2>1, LeastNumber
<1>3. PICK r : \A c \in Over(h) : c \in SchemaTree[h] /\ r[c] = NodeBody(c, r)
  <2>1. CASE h = 0
    BY <2>1 DEF Over
  <2>2. CASE h # 0
    <3>1. h \in 0..MaxNesting /\ h - 1 \in 0..MaxNesting /\ ~(h <= h - 1)
      BY <1>2, <2>2, NestingAssumption
    <3>2. PICK r : WriteTo(h - 1, r)
      BY <1>2, <3>1
    <3>3. SchemaTree[h - 1] = Over(h) /\ SchemaTree[h - 1] \subseteq SchemaTree[h]
      BY <2>2, <3>1, SchemaUp
    <3>4. ASSUME NEW c \in Over(h) PROVE c \in SchemaTree[h] /\ r[c] = NodeBody(c, r)
      BY <3>2, <3>3, <3>4, Zenon DEF WriteTo
    <3> QED
      BY <3>4
  <2> QED
    BY <2>1, <2>2
<1> DEFINE w == [node \in SchemaTree[h] |-> NodeBody(node, r)]
<1>4. ASSUME NEW node \in SchemaTree[h]
      PROVE  NodeBody(node, w) = NodeBody(node, r)
  <2>1. \A c \in Over(h) : w[c] = r[c]
    BY <1>3, Zenon
  <2>2. node \in SchemaNodes(Over(h))
    BY <1>2, SchemaTreeIs
  <2> HIDE DEF w
  <2> QED
    BY <2>1, <2>2, NodeBodyAgree
<1>5. WriteTo(h, w)
  <2> HIDE DEF w
  <2>1. w = [node \in SchemaTree[h] |-> NodeBody(node, r)]
    BY DEF w
  <2> QED
    BY <1>4, <2>1, Zenon DEF WriteTo
<1> QED
  BY <1>2, <1>5

\* How every node is written: the equation of NodeJson.
LEMMA NodeJsonIs ==
  ASSUME NEW node \in AnyNode
  PROVE  NodeJson[node] = NodeBody(node, NodeJson)
<1>1. \E r : WriteTo(MaxNesting, r)
  BY NodeBodyExists, NestingAssumption
<1>2. NodeJson = CHOOSE r : WriteTo(MaxNesting, r)
  BY Zenon DEF NodeJson, WriteTo, NodeBody, AnyNode
<1>3. WriteTo(MaxNesting, NodeJson)
  BY <1>1, <1>2, Zenon
<1> QED
  BY <1>3, Zenon DEF WriteTo, AnyNode

-----------------------------------------------------------------------------
\* What is sorted once stays as it is.

\* Lists of one element or none, flattened side by side.
Alike(s, t, K, x, y) ==
  /\ IsList(s) /\ IsList(t) /\ Len(t) = Len(s)
  /\ \A i \in 1..Len(s) : \E k \in K : s[i] = x[k] /\ t[i] = y[k]

\* One after the other they stay alike.
LEMMA AlikeConcat ==
  ASSUME NEW K, NEW x, NEW y, NEW s, NEW t, Alike(s, t, K, x, y), NEW u, NEW v, Alike(u, v, K, x, y)
  PROVE  Alike(s \o u, t \o v, K, x, y)
<1> DEFINE a == s \o u
           b == t \o v
<1>1. /\ Len(s) \in Nat /\ Len(u) \in Nat /\ Len(t) = Len(s) /\ Len(v) = Len(u)
  BY ListLen DEF Alike
<1>2. /\ IsList(a) /\ IsList(b) /\ Len(a) = Len(s) + Len(u) /\ Len(b) = Len(s) + Len(u)
      /\ \A i \in 1..Len(s) : a[i] = s[i] /\ b[i] = t[i]
      /\ \A i \in 1..Len(u) : a[Len(s) + i] = u[i] /\ b[Len(s) + i] = v[i]
  BY <1>1, ListConcat DEF Alike
<1> HIDE DEF a, b
<1>3. ASSUME NEW i \in 1..Len(a)
      PROVE  \E k \in K : a[i] = x[k] /\ b[i] = y[k]
  <2>1. CASE i \in 1..Len(s)
    BY <1>2, <2>1 DEF Alike
  <2>2. CASE i \notin 1..Len(s)
    <3> DEFINE m == i - Len(s)
    <3>1. m \in 1..Len(u) /\ i = Len(s) + m
      BY <1>1, <1>2, <2>2
    <3>2. a[i] = u[m] /\ b[i] = v[m]
      BY <1>2, <3>1
    <3> HIDE DEF m
    <3> QED
      BY <3>1, <3>2 DEF Alike
  <2> QED
    BY <2>1, <2>2
<1>4. Alike(a, b, K, x, y)
  BY <1>2, <1>3 DEF Alike
<1> QED
  BY <1>4 DEF a, b

\* What is kept of two lists at the same places is alike.
LEMMA FlatAlike ==
  ASSUME NEW ss, NEW tt, IsList(ss), IsList(tt), Len(tt) = Len(ss),
         NEW kept, NEW x, NEW y, Chosen(ss, kept, x), Chosen(tt, kept, y)
  PROVE  Alike(FlattenSeq(ss), FlattenSeq(tt), kept, x, y)
<1>1. Len(ss) \in Nat /\ DOMAIN ss = 1..Len(ss) /\ DOMAIN tt = 1..Len(ss)
  BY ListLen
<1>2. Alike(<<>>, <<>>, kept, x, y)
  BY ListEmpty DEF Alike
<1>3. \A i \in 1..Len(ss) : Alike(ss[i], tt[i], kept, x, y)
  <2>1. SUFFICES ASSUME NEW i \in 1..Len(ss) PROVE Alike(ss[i], tt[i], kept, x, y)
    OBVIOUS
  <2>2. CASE i \in kept
    <3>1. ss[i] = <<x[i]>> /\ tt[i] = <<y[i]>>
      BY <1>1, <2>2 DEF Chosen
    <3>2. \A z : Len(<<z>>) = 1 /\ <<z>>[1] = z
      OBVIOUS
    <3> QED
      BY <2>2, <3>1, <3>2, ListOne DEF Alike
  <2>3. CASE i \notin kept
    <3>1. ss[i] = <<>> /\ tt[i] = <<>>
      BY <1>1, <2>3 DEF Chosen
    <3> QED
      BY <1>2, <3>1
  <2> QED
    BY <2>2, <2>3
<1>4. CASE ss = <<>>
  <2>1. Len(ss) = 0 /\ Len(tt) = 0
    BY <1>4
  <2>2. tt = <<>>
    BY <1>1, <2>1, ListLen, ListEmpty
  <2>3. FlattenSeq(ss) = <<>> /\ FlattenSeq(tt) = <<>>
    BY <1>4, <2>1, <2>2, Zenon DEF FlattenSeq
  <2> QED
    BY <1>2, <2>3
<1>5. CASE ss # <<>>
  <2>1. Len(ss) # 0 /\ tt # <<>>
    <3>1. Len(ss) # 0
      BY <1>5, EmptySeq, SeqEqual DEF IsList
    <3>2. Len(<<>>) = 0
      OBVIOUS
    <3> QED
      BY <3>1, <3>2
  <2>2. PICK f : Along(ss, Len(ss), f) /\ FlattenSeq(ss) = f[Len(ss)]
    BY <1>5, FlattenAlong
  <2>3. PICK g : Along(tt, Len(ss), g) /\ FlattenSeq(tt) = g[Len(ss)]
    BY <2>1, FlattenAlong
  <2> DEFINE Wanting == {i \in 1..Len(ss) : ~Alike(f[i], g[i], kept, x, y)}
  <2>4. Wanting = {}
    <3>1. SUFFICES ASSUME Wanting # {} PROVE FALSE
      OBVIOUS
    <3>2. PICK i \in Wanting : \A k \in Wanting : i <= k
      <4>1. Wanting \in SUBSET Nat
        BY <1>1
      <4> QED
        BY <3>1, <4>1, LeastNumber
    <3>3. i \in 1..Len(ss)
      OBVIOUS
    <3>4. CASE i = 1
      <4>1. f[i] = ss[i] /\ g[i] = tt[i]
        BY <2>2, <2>3, <3>3, <3>4, Zenon DEF Along
      <4> QED
        BY <1>3, <3>2, <3>3, <4>1
    <3>5. CASE i # 1
      <4>1. i - 1 \in 1..Len(ss) /\ ~(i <= i - 1)
        BY <1>1, <3>3, <3>5
      <4>2. Alike(f[i - 1], g[i - 1], kept, x, y)
        BY <3>2, <4>1
      <4>3. f[i] = f[i - 1] \o ss[i] /\ g[i] = g[i - 1] \o tt[i]
        BY <2>2, <2>3, <3>3, <3>5, Zenon DEF Along
      <4>4. Alike(ss[i], tt[i], kept, x, y)
        BY <1>3, <3>3
      <4>5. Alike(f[i], g[i], kept, x, y)
        BY <4>2, <4>3, <4>4, AlikeConcat
      <4> QED
        BY <3>2, <4>5
    <3> QED
      BY <3>4, <3>5
  <2>5. Len(ss) \in 1..Len(ss)
    BY <1>1, <2>1
  <2>6. Alike(f[Len(ss)], g[Len(ss)], kept, x, y)
    BY <2>4, <2>5
  <2> QED
    BY <2>2, <2>3, <2>6
<1> QED
  BY <1>4, <1>5

\* What sorting goes through: the entries of every name in order.
Sorting(e) == [k \in DOMAIN Order |-> IF Named(e, Order[k]) = {} THEN <<>> ELSE <<LastOf(e, Order[k])>>]
NamesOf(e) == {k \in DOMAIN Order : Named(e, Order[k]) # {}}
Lasts(e) == [k \in DOMAIN Order |-> LastOf(e, Order[k])]

\* It is a list of entries for some names, those there are entries of.
LEMMA SortingIs ==
  ASSUME NEW e
  PROVE  /\ SortUnique(e) = FlattenSeq(Sorting(e))
         /\ IsList(Sorting(e)) /\ Len(Sorting(e)) = Len(Order) /\ DOMAIN Sorting(e) = DOMAIN Order
         /\ Chosen(Sorting(e), NamesOf(e), Lasts(e))
<1>1. Len(Order) \in Nat /\ DOMAIN Order = 1..Len(Order)
  BY OrderAssumption
<1>2. SortUnique(e) = FlattenSeq(Sorting(e))
  BY Zenon DEF SortUnique, SortUniqueBy, Sorting
<1>3. IsList(Sorting(e)) /\ Len(Sorting(e)) = Len(Order) /\ DOMAIN Sorting(e) = DOMAIN Order
  <2> DEFINE z == Sorting(e)
  <2>1. z = [k \in 1..Len(Order) |-> z[k]]
    BY <1>1 DEF Sorting
  <2> HIDE DEF z
  <2>2. IsList(z) /\ Len(z) = Len(Order) /\ DOMAIN z = 1..Len(Order)
    BY <1>1, <2>1, ListMade
  <2> QED
    BY <1>1, <2>2 DEF z
<1>4. Chosen(Sorting(e), NamesOf(e), Lasts(e))
  BY DEF Chosen, Sorting, NamesOf, Lasts
<1> QED
  BY <1>2, <1>3, <1>4

\* The last entry of a name has that name, and is an entry.
LEMMA LastNamed ==
  ASSUME NEW e, IsList(e), NEW name, Named(e, name) # {}
  PROVE  /\ Max(Named(e, name)) \in 1..Len(e) /\ LastOf(e, name) = e[Max(Named(e, name))]
         /\ LastOf(e, name).name = name /\ LastOf(e, name) \in ToSet(e)
<1> DEFINE I == Named(e, name)
<1>1. Len(e) \in Nat /\ DOMAIN e = 1..Len(e)
  BY ListLen
<1>2. I \subseteq 1..Len(e) /\ I # {}
  BY <1>1 DEF Named
<1>3. Max(I) \in I
  <2> HIDE DEF I
  <2> QED
    BY <1>1, <1>2, LastPlace
<1>4. Max(I) \in 1..Len(e) /\ e[Max(I)].name = name
  BY <1>1, <1>3 DEF Named
<1>5. LastOf(e, name) = e[Max(I)]
  BY DEF LastOf
<1> HIDE DEF I
<1>6. e[Max(I)] \in ToSet(e)
  BY <1>1, <1>4 DEF ToSet
<1> QED
  BY <1>4, <1>5, <1>6 DEF I

\* Of what is sorted every entry is the last of its name.
LEMMA SortedLast ==
  ASSUME NEW e, IsList(e)
  PROVE  /\ IsList(SortUnique(e))
         /\ \A x \in ToSet(SortUnique(e)) : x = LastOf(e, x.name) /\ x \in ToSet(e)
<1>1. Holding(SortUnique(e), DOMAIN Order, NamesOf(e), Lasts(e))
  BY SortingIs, FlatSome
<1>2. ASSUME NEW z \in ToSet(SortUnique(e))
      PROVE  z = LastOf(e, z.name) /\ z \in ToSet(e)
  <2>1. PICK k \in DOMAIN Order : k \in NamesOf(e) /\ z = Lasts(e)[k]
    BY <1>1 DEF Holding
  <2>2. Named(e, Order[k]) # {} /\ z = LastOf(e, Order[k])
    BY <2>1 DEF NamesOf, Lasts
  <2> QED
    BY <2>2, LastNamed
<1> QED
  BY <1>1, <1>2 DEF Holding

\* A list with the names of a sorted one, and entries that go by the name, is sorted.
LEMMA SortedAgain ==
  ASSUME NEW e, IsList(e), NEW r, IsList(r), Len(r) = Len(SortUnique(e)),
         \A i \in 1..Len(r) : r[i].name = SortUnique(e)[i].name,
         \A i, k \in 1..Len(r) : r[i].name = r[k].name => r[i] = r[k]
  PROVE  SortUnique(r) = r
<1> DEFINE u == SortUnique(e)
<1>1. /\ IsList(u) /\ Len(u) \in Nat /\ DOMAIN u = 1..Len(u) /\ DOMAIN r = 1..Len(u)
      /\ \A i \in 1..Len(u) : u[i] \in ToSet(u)
  BY SortedLast, ListLen
<1>2. \A i \in 1..Len(u) : u[i] = LastOf(e, u[i].name) /\ u[i] \in ToSet(e)
  BY <1>1, SortedLast
<1>3. \A name : Named(r, name) = Named(u, name)
  BY <1>1 DEF Named
<1>4. NamesOf(r) = NamesOf(e)
  <2>1. ASSUME NEW k \in NamesOf(e) PROVE k \in NamesOf(r)
    <3>1. k \in DOMAIN Order /\ Named(e, Order[k]) # {}
      BY <2>1 DEF NamesOf
    <3>2. Lasts(e)[k] = LastOf(e, Order[k])
      BY <3>1 DEF Lasts
    <3>3. Holding(u, DOMAIN Order, NamesOf(e), Lasts(e))
      BY SortingIs, FlatSome
    <3>4. LastOf(e, Order[k]) \in ToSet(u) /\ LastOf(e, Order[k]).name = Order[k]
      BY <2>1, <3>1, <3>2, <3>3, LastNamed DEF Holding
    <3>5. PICK i \in 1..Len(u) : u[i] = LastOf(e, Order[k])
      <4> HIDE DEF u
      <4> QED
        BY <1>1, <3>4 DEF ToSet
    <3>6. i \in Named(u, Order[k])
      BY <1>1, <3>4, <3>5 DEF Named
    <3> QED
      BY <1>3, <3>1, <3>6 DEF NamesOf
  <2>2. ASSUME NEW k \in NamesOf(r) PROVE k \in NamesOf(e)
    <3>1. k \in DOMAIN Order /\ Named(u, Order[k]) # {}
      BY <1>3, <2>2 DEF NamesOf
    <3>2. PICK i \in DOMAIN u : u[i].name = Order[k]
      BY <3>1 DEF Named
    <3>3. PICK m \in DOMAIN e : e[m] = u[i]
      BY <1>1, <1>2, <3>2 DEF ToSet
    <3>4. m \in Named(e, Order[k])
      BY <3>2, <3>3 DEF Named
    <3> QED
      BY <3>1, <3>4 DEF NamesOf
  <2> QED
    BY <2>1, <2>2
<1>5. Alike(u, SortUnique(r), NamesOf(e), Lasts(e), Lasts(r))
  <2>1. Chosen(Sorting(r), NamesOf(e), Lasts(r))
    BY <1>4, SortingIs
  <2>2. Alike(FlattenSeq(Sorting(e)), FlattenSeq(Sorting(r)), NamesOf(e), Lasts(e), Lasts(r))
    BY <2>1, SortingIs, FlatAlike
  <2> QED
    BY <2>2, SortingIs
<1>6. ASSUME NEW i \in 1..Len(r)
      PROVE  SortUnique(r)[i] = r[i]
  <2>1. PICK k \in NamesOf(e) : u[i] = Lasts(e)[k] /\ SortUnique(r)[i] = Lasts(r)[k]
    BY <1>5 DEF Alike
  <2>2. /\ k \in DOMAIN Order /\ Named(e, Order[k]) # {} /\ Named(r, Order[k]) # {}
        /\ u[i] = LastOf(e, Order[k]) /\ SortUnique(r)[i] = LastOf(r, Order[k])
    BY <1>4, <2>1 DEF NamesOf, Lasts
  <2> DEFINE m == Max(Named(r, Order[k]))
  <2>3. m \in 1..Len(r) /\ LastOf(r, Order[k]) = r[m] /\ r[m].name = Order[k]
    BY <2>2, LastNamed
  <2>4. r[i].name = Order[k]
    BY <2>2, LastNamed
  <2> HIDE DEF m
  <2> QED
    BY <2>2, <2>3, <2>4
<1> HIDE DEF u
<1>7. IsList(SortUnique(r)) /\ Len(SortUnique(r)) = Len(r)
  BY <1>5 DEF Alike, u
<1> QED
  BY <1>6, <1>7, ListSame

\* Values that go by the names of a sorted list are settled.
LEMMA SortedSettles ==
  ASSUME NEW e, IsList(e), NEW s, IsNamed(s), Len(s) = Len(SortUnique(e)),
         \A i \in 1..Len(s) : s[i].name = SortUnique(e)[i].name,
         \A i, k \in 1..Len(s) : s[i].name = s[k].name => s[i] = s[k]
  PROVE  Settled(s)
<1> DEFINE r == Reread(s)
<1>1. Len(s) \in Nat /\ DOMAIN s = 1..Len(s) /\ s = [i \in 1..Len(s) |-> s[i]]
  BY ListLen DEF IsNamed
<1>2. IsList(r) /\ Len(r) = Len(s) /\ DOMAIN r = 1..Len(s)
  <2>1. r = [i \in 1..Len(s) |-> r[i]]
    BY DEF Reread
  <2> HIDE DEF r
  <2> QED
    BY <1>1, <2>1, ListMade
<1>3. \A i \in 1..Len(s) : r[i] = [name |-> s[i].name, result |-> Good(s[i].value)]
  BY DEF Reread
<1> HIDE DEF r
<1>11. \A i \in 1..Len(s) : r[i].name = s[i].name /\ r[i].result = Good(s[i].value)
  <2>1. SUFFICES ASSUME NEW i \in 1..Len(s) PROVE r[i].name = s[i].name /\ r[i].result = Good(s[i].value)
    OBVIOUS
  <2>2. r[i] = [name |-> s[i].name, result |-> Good(s[i].value)]
    BY <1>3
  <2> QED
    BY <2>2
<1>4. \A i \in 1..Len(r) : r[i].name = SortUnique(e)[i].name
  BY <1>2, <1>11
<1>5. \A i, k \in 1..Len(r) : r[i].name = r[k].name => r[i] = r[k]
  <2>1. SUFFICES ASSUME NEW i \in 1..Len(r), NEW k \in 1..Len(r), r[i].name = r[k].name PROVE r[i] = r[k]
    OBVIOUS
  <2>2. s[i] = s[k]
    BY <1>2, <1>3, <2>1
  <2> QED
    BY <1>2, <1>3, <2>2
<1>6. SortUnique(r) = r
  BY <1>2, <1>4, <1>5, SortedAgain
<1>7. \A y \in ToSet(r) : Usable(y.result)
  <2>1. \A i \in 1..Len(s) : Usable(r[i].result)
    BY <1>11, ResultsAre DEF Usable
  <2> QED
    BY <1>2, <2>1 DEF ToSet
<1>8. FirstProblem(r) = Good([i \in DOMAIN r |-> [name |-> r[i].name, value |-> r[i].result.value]])
  BY <1>2, <1>7, FirstProblemNone
<1>9. [i \in DOMAIN r |-> [name |-> r[i].name, value |-> r[i].result.value]] = s
  <2>1. \A i \in 1..Len(s) : [name |-> r[i].name, value |-> r[i].result.value] = s[i]
    <3>1. SUFFICES ASSUME NEW i \in 1..Len(s)
                   PROVE  [name |-> r[i].name, value |-> r[i].result.value] = s[i]
      OBVIOUS
    <3>2. r[i].name = s[i].name /\ r[i].result.value = s[i].value
      BY <1>11, ResultsAre
    <3>3. s[i] = [name |-> s[i].name, value |-> s[i].value]
      BY DEF IsNamed
    <3> QED
      BY <3>2, <3>3, Zenon
  <2> QED
    BY <1>1, <1>2, <2>1, Zenon
<1>10. NameMap(r) = Good(s)
  BY <1>6, <1>8, <1>9, Zenon DEF NameMap
<1> QED
  BY <1>10 DEF Settled, r

\* What name_map returns is settled, and made of the results.
LEMMA NameMapSettles ==
  ASSUME NEW results, IsList(results), Usable(NameMap(results)), NEW s, s = NameMap(results).value
  PROVE  /\ Settled(s)
         /\ NameMap(results) = Good(s)
         /\ \A i \in 1..Len(s) : \E y \in ToSet(results) :
              Usable(y.result) /\ s[i].name = y.name /\ s[i].value = y.result.value
<1> DEFINE u == SortUnique(results)
           wrong == {i \in DOMAIN u : ~Usable(u[i].result)}
<1>1. IsList(u) /\ Len(u) \in Nat /\ DOMAIN u = 1..Len(u) /\ \A i \in 1..Len(u) : u[i] \in ToSet(u)
  BY SortedLast, ListLen
<1>2. \A i \in 1..Len(u) : u[i] = LastOf(results, u[i].name) /\ u[i] \in ToSet(results)
  BY <1>1, SortedLast
<1>3. NameMap(results) = IF wrong # {} THEN u[Min(wrong)].result
                         ELSE Good([i \in DOMAIN u |-> [name |-> u[i].name, value |-> u[i].result.value]])
  BY Zenon DEF NameMap, FirstProblem
<1>4. wrong = {}
  <2>1. SUFFICES ASSUME wrong # {} PROVE FALSE
    OBVIOUS
  <2>2. wrong \in SUBSET Nat
    BY <1>1
  <2>3. Min(wrong) \in wrong
    <3> HIDE DEF wrong
    <3> QED
      BY <2>1, <2>2, FirstPlace
  <2> QED
    BY <1>3, <2>1, <2>3
<1>5. /\ NameMap(results) = Good(s)
      /\ s = [i \in 1..Len(u) |-> [name |-> u[i].name, value |-> u[i].result.value]]
  BY <1>1, <1>3, <1>4, ResultsAre
<1>6. \A i \in 1..Len(u) : Usable(u[i].result)
  BY <1>1, <1>4
<1> HIDE DEF u
<1>7. s = [i \in 1..Len(u) |-> s[i]] /\ \A i \in 1..Len(u) : s[i] = [name |-> u[i].name, value |-> u[i].result.value]
  BY <1>5
<1>8. IsList(s) /\ Len(s) = Len(u)
  BY <1>1, <1>7, ListMade
<1>13. \A i \in 1..Len(s) : s[i].name = u[i].name /\ s[i].value = u[i].result.value
  <2>1. SUFFICES ASSUME NEW i \in 1..Len(s) PROVE s[i].name = u[i].name /\ s[i].value = u[i].result.value
    OBVIOUS
  <2>2. s[i] = [name |-> u[i].name, value |-> u[i].result.value]
    BY <1>7, <1>8
  <2> QED
    BY <2>2
<1>9. IsNamed(s)
  <2>1. \A i \in 1..Len(s) : s[i] = [name |-> s[i].name, value |-> s[i].value]
    <3>1. SUFFICES ASSUME NEW i \in 1..Len(s) PROVE s[i] = [name |-> s[i].name, value |-> s[i].value]
      OBVIOUS
    <3>2. s[i] = [name |-> u[i].name, value |-> u[i].result.value]
      BY <1>7, <1>8
    <3> QED
      BY <3>2
  <2> QED
    BY <1>8, <2>1 DEF IsNamed
<1>10. \A i, k \in 1..Len(s) : s[i].name = s[k].name => s[i] = s[k]
  <2>1. SUFFICES ASSUME NEW i \in 1..Len(s), NEW k \in 1..Len(s), s[i].name = s[k].name PROVE s[i] = s[k]
    OBVIOUS
  <2>2. u[i].name = u[k].name
    BY <1>13, <2>1
  <2>3. u[i] = u[k]
    BY <1>2, <1>8, <2>2
  <2>4. /\ s[i] = [name |-> u[i].name, value |-> u[i].result.value]
        /\ s[k] = [name |-> u[k].name, value |-> u[k].result.value]
    BY <1>7, <1>8
  <2> QED
    BY <2>3, <2>4
<1>11. Settled(s)
  <2>1. \A i \in 1..Len(s) : s[i].name = SortUnique(results)[i].name
    BY <1>13 DEF u
  <2> QED
    BY <1>8, <1>9, <1>10, <2>1, SortedSettles DEF u
<1>12. \A i \in 1..Len(s) : \E y \in ToSet(results) :
         Usable(y.result) /\ s[i].name = y.name /\ s[i].value = y.result.value
  BY <1>2, <1>6, <1>8, <1>13
<1> QED
  BY <1>5, <1>11, <1>12

-----------------------------------------------------------------------------
\* Reading objects as they are written: every field once, in any order.

\* One field.
LEMMA WritesOne ==
  ASSUME NEW k, NEW w, NEW v, w[k] = v
  PROVE  Writes(Field(k, v), {k}, w)
<1> DEFINE x == [key |-> k, value |-> v]
           e == <<x>>
<1>1. IsList(e)
  BY ListOne
<1>2. Len(e) = 1 /\ e[1] = x
  OBVIOUS
<1>3. x.key = k /\ x = [key |-> k, value |-> w[k]]
  OBVIOUS
<1> HIDE DEF x, e
<1>4. 1..Len(e) = {1}
  BY <1>2
<1>5. Writes(e, {k}, w)
  <2>1. {e[i].key : i \in 1..Len(e)} = {k}
    BY <1>2, <1>3, <1>4
  <2>2. \A i \in 1..Len(e) : e[i] = [key |-> e[i].key, value |-> w[e[i].key]]
    BY <1>2, <1>3, <1>4
  <2>3. \A i, m \in 1..Len(e) : e[i].key = e[m].key => i = m
    BY <1>4
  <2> QED
    BY <1>1, <2>1, <2>2, <2>3 DEF Writes
<1> QED
  BY <1>5 DEF e, x, Field

\* Fields of other keys after them.
LEMMA WritesMore ==
  ASSUME NEW e, NEW K, NEW w, Writes(e, K, w), NEW f, NEW L, Writes(f, L, w), K \cap L = {}
  PROVE  Writes(e \o f, K \cup L, w)
<1> DEFINE g == e \o f
<1>1. IsList(e) /\ IsList(f) /\ Len(e) \in Nat /\ Len(f) \in Nat
  BY ListLen DEF Writes
<1>2. /\ IsList(g) /\ Len(g) = Len(e) + Len(f)
      /\ \A i \in 1..Len(e) : g[i] = e[i]
      /\ \A i \in 1..Len(f) : g[Len(e) + i] = f[i]
  BY <1>1, ListConcat
<1> HIDE DEF g
<1>3. \A i \in 1..Len(g) : \/ i \in 1..Len(e) /\ g[i] = e[i]
                           \/ /\ i - Len(e) \in 1..Len(f) /\ g[i] = f[i - Len(e)]
                              /\ i = Len(e) + (i - Len(e))
  <2>1. SUFFICES ASSUME NEW i \in 1..Len(g), i \notin 1..Len(e)
                 PROVE  /\ i - Len(e) \in 1..Len(f) /\ g[i] = f[i - Len(e)]
                        /\ i = Len(e) + (i - Len(e))
    BY <1>2
  <2>2. i - Len(e) \in 1..Len(f) /\ i = Len(e) + (i - Len(e))
    BY <1>1, <1>2, <2>1
  <2> QED
    BY <1>2, <2>2
<1>4. \A i \in 1..Len(e) : i \in 1..Len(g) /\ g[i].key = e[i].key
  BY <1>1, <1>2
<1>5. \A i \in 1..Len(f) : Len(e) + i \in 1..Len(g) /\ g[Len(e) + i].key = f[i].key
  BY <1>1, <1>2
<1>6. {e[i].key : i \in 1..Len(e)} = K /\ {f[i].key : i \in 1..Len(f)} = L
  BY DEF Writes
<1>7. {g[i].key : i \in 1..Len(g)} = K \cup L
  <2>1. \A i \in 1..Len(g) : g[i].key \in K \cup L
    BY <1>3, <1>6
  <2>2. \A k \in K : \E i \in 1..Len(g) : g[i].key = k
    BY <1>4, <1>6
  <2>3. \A k \in L : \E i \in 1..Len(g) : g[i].key = k
    BY <1>5, <1>6
  <2> QED
    BY <2>1, <2>2, <2>3
<1>8. \A i \in 1..Len(g) : g[i] = [key |-> g[i].key, value |-> w[g[i].key]]
  <2>1. SUFFICES ASSUME NEW i \in 1..Len(g) PROVE g[i] = [key |-> g[i].key, value |-> w[g[i].key]]
    OBVIOUS
  <2>2. CASE i \in 1..Len(e) /\ g[i] = e[i]
    BY <2>2 DEF Writes
  <2>3. CASE i - Len(e) \in 1..Len(f) /\ g[i] = f[i - Len(e)]
    BY <2>3 DEF Writes
  <2> QED
    BY <1>3, <2>2, <2>3
<1>9. \A i, k \in 1..Len(g) : g[i].key = g[k].key => i = k
  <2>1. SUFFICES ASSUME NEW i \in 1..Len(g), NEW k \in 1..Len(g), g[i].key = g[k].key PROVE i = k
    OBVIOUS
  <2>2. CASE i \in 1..Len(e) /\ g[i] = e[i]
    <3>1. g[i].key \in K
      BY <1>6, <2>2
    <3>2. k \in 1..Len(e) /\ g[k] = e[k]
      <4>1. CASE k - Len(e) \in 1..Len(f) /\ g[k] = f[k - Len(e)]
        <5>1. g[k].key \in L
          BY <1>6, <4>1
        <5> QED
          BY <2>1, <3>1, <5>1
      <4> QED
        BY <1>3, <4>1
    <3> QED
      BY <2>1, <2>2, <3>2 DEF Writes
  <2>3. CASE i - Len(e) \in 1..Len(f) /\ g[i] = f[i - Len(e)] /\ i = Len(e) + (i - Len(e))
    <3>1. g[i].key \in L
      BY <1>6, <2>3
    <3>2. k - Len(e) \in 1..Len(f) /\ g[k] = f[k - Len(e)] /\ k = Len(e) + (k - Len(e))
      <4>1. CASE k \in 1..Len(e) /\ g[k] = e[k]
        <5>1. g[k].key \in K
          BY <1>6, <4>1
        <5> QED
          BY <2>1, <3>1, <5>1
      <4> QED
        BY <1>3, <4>1
    <3>3. i - Len(e) = k - Len(e)
      BY <2>1, <2>3, <3>2 DEF Writes
    <3> QED
      BY <2>3, <3>2, <3>3
  <2> QED
    BY <1>3, <2>2, <2>3
<1>10. Writes(g, K \cup L, w)
  BY <1>2, <1>7, <1>8, <1>9 DEF Writes
<1> QED
  BY <1>10 DEF g

\* What an object is made of.
LEMMA ObjectIs ==
  ASSUME NEW e
  PROVE  Object(e).is = "object" /\ Object(e).entries = e /\ Object(e).items = <<>>
BY DEF Object, Json

\* The values of an object that nests no deeper than JSON may do not, either.
LEMMA WrittenInside ==
  ASSUME NEW e, NEW K, NEW w, Writes(e, K, w), Object(e) \in AnyJson, NEW k \in K
  PROVE  w[k] \in Children(Object(e)) /\ w[k] \in AnyJson
<1>1. PICK i \in 1..Len(e) : e[i].key = k
  BY DEF Writes
<1>2. e[i] = [key |-> k, value |-> w[k]]
  BY <1>1 DEF Writes
<1>3. Object(e).entries[i].value = w[k]
  BY <1>2, ObjectIs
<1>4. Len(Object(e).entries) = Len(e)
  BY ObjectIs
<1>5. w[k] \in Children(Object(e)) /\ Children(Object(e)) \subseteq AnyJson
  BY <1>1, <1>3, <1>4, EntryAt
<1> QED
  BY <1>5

\* The kinds of objects a schema is written with.
WrittenKinds == StoredSeedKinds \cup {"either"}

\* An object with fields that are known, with all that are required among them and
\* no problem in any, is finished with what they are read as.
LEMMA WrittenRead ==
  ASSUME NEW kind \in WrittenKinds, NEW e, NEW K, NEW w, Writes(e, K, w), Object(e) \in AnyJson,
         K \subseteq DOMAIN Seeds[kind].fields, Seeds[kind].required \subseteq K,
         NEW q \in Paths, NEW v,
         \A k \in K : Read[w[k]][Seeds[kind].fields[k]][q] = Good(v[k])
  PROVE  \E found : /\ Read[Object(e)][kind][q] = Finished(kind, found, q)
                    /\ DOMAIN found = K /\ \A k \in K : found[k] = Good(v[k])
<1> DEFINE j == Object(e)
<1>1. /\ j.is = "object" /\ j.entries = e /\ Len(j.entries) = Len(e) /\ Len(e) \in Nat
  BY ObjectIs, ListLen DEF Writes
<1>2. kind \in ReadKinds /\ kind \in DOMAIN Seeds /\ kind # "provider"
  BY StoredKindsRead, FormatSeeds DEF StoredKinds, WrittenKinds, ReadKinds
<1>3. Read[j][kind][q] = ReadFields(kind, j, q, Below(j))
  <2>1. CASE kind = "either"
    BY <2>1, FormatRead
  <2>2. CASE kind \in StoredSeedKinds
    <3>1. Read[j][kind][q] = ReadNode(kind, j, q, Below(j))
      BY <1>2, ReadIs DEF Below
    <3>2. \A path : ReadNode(kind, j, path, Below(j)) = ReadFields(kind, j, path, Below(j))
      BY <2>2 DEF ReadNode, StoredSeedKinds, Scalars, Seeds, MapSeeds
    <3> QED
      BY <3>1, <3>2
  <2> QED
    BY <2>1, <2>2 DEF WrittenKinds
<1>4. \A i \in 1..Len(e) : e[i].key \in K /\ e[i].value = w[e[i].key] /\ w[e[i].key] \in Children(j)
  <2>1. SUFFICES ASSUME NEW i \in 1..Len(e)
                 PROVE  e[i].key \in K /\ e[i].value = w[e[i].key] /\ w[e[i].key] \in Children(j)
    OBVIOUS
  <2>2. e[i].key \in K
    BY DEF Writes
  <2>3. e[i] = [key |-> e[i].key, value |-> w[e[i].key]]
    BY DEF Writes
  <2> QED
    BY <2>2, <2>3, WrittenInside
<1> HIDE DEF j
<1>5. Known(kind, j) = 1..Len(e)
  BY <1>1, <1>4 DEF Known
<1>6. \A i \in 1..Len(e) : FieldAt(kind, j, q, Below(j), i) = Good(v[e[i].key])
  <2>1. SUFFICES ASSUME NEW i \in 1..Len(e)
                 PROVE  FieldAt(kind, j, q, Below(j), i) = Good(v[e[i].key])
    OBVIOUS
  <2>2. Below(j)[w[e[i].key]] = Read[w[e[i].key]]
    BY <1>4, BelowIs
  <2>3. PathBelow(kind, e[i].key, q) = q
    BY <1>2 DEF PathBelow
  <2>4. FieldAt(kind, j, q, Below(j), i) = Read[w[e[i].key]][Seeds[kind].fields[e[i].key]][q]
    BY <1>1, <1>4, <2>2, <2>3 DEF FieldAt
  <2> QED
    BY <1>4, <2>4
<1>7. Sound(kind, j, q, Below(j))
  <2>1. \A i \in Known(kind, j) : ~Again(j, i)
    <3>1. SUFFICES ASSUME NEW i \in 1..Len(e), NEW m \in 1..(i - 1) PROVE e[m].key # e[i].key
      BY <1>1, <1>5 DEF Again
    <3>2. m \in 1..Len(e) /\ m # i
      BY <1>1
    <3> QED
      BY <3>2 DEF Writes
  <2>2. \A i \in Known(kind, j) : FieldAt(kind, j, q, Below(j), i).error = <<>>
    BY <1>5, <1>6, ResultsAre
  <2>3. \A key \in Seeds[kind].required : \E i \in Known(kind, j) : j.entries[i].key = key
    BY <1>1, <1>5 DEF Writes
  <2> QED
    BY <1>1, <2>1, <2>2, <2>3 DEF Sound
<1>8. j \in AnyJson
  BY DEF j
<1>9. PICK found : /\ IsFound(found, kind, j, q, Below(j))
                   /\ ReadFields(kind, j, q, Below(j)) = Finished(kind, found, q)
  BY <1>7, <1>8, FieldsRead
<1>10. DOMAIN found = K
  BY <1>1, <1>5, <1>9 DEF IsFound, Writes
<1>11. \A k \in K : found[k] = Good(v[k])
  <2>1. SUFFICES ASSUME NEW k \in K PROVE found[k] = Good(v[k])
    OBVIOUS
  <2>2. PICK i \in 1..Len(e) : e[i].key = k
    BY DEF Writes
  <2> QED
    BY <1>1, <1>5, <1>6, <1>9, <2>2 DEF IsFound
<1> QED
  BY <1>3, <1>9, <1>10, <1>11 DEF j

\* Scalars as they are written.
LEMMA ScalarsBack ==
  ASSUME NEW q \in Paths
  PROVE  /\ \A t : Text(t) \in AnyJson => Read[Text(t)]["text"][q] = Good(t)
         /\ \A m \in Modes : Text(m) \in AnyJson => Read[Text(m)]["mode"][q] = Good(m)
         /\ \A b \in BOOLEAN : Flag(b) \in AnyJson => Read[Flag(b)]["flag"][q] = Good(b)
         /\ \A n : Number(n) \in AnyJson => Read[Number(n)]["maybeCount"][q] = Good(<<n>>)
<1>1. \A kind \in Scalars, j \in AnyJson : Read[j][kind][q] = ReadScalar(kind, j)
  <2>1. SUFFICES ASSUME NEW kind \in Scalars, NEW j \in AnyJson PROVE Read[j][kind][q] = ReadScalar(kind, j)
    OBVIOUS
  <2>2. kind \in ReadKinds
    BY DEF ReadKinds
  <2> QED
    BY <2>2, ReadIs DEF ReadNode, Scalars, Seeds, MapSeeds
<1>2. {"text", "mode", "flag", "maybeCount"} \subseteq Scalars
  BY DEF Scalars
<1>3. \A t : ReadScalar("text", Text(t)) = Good(t)
  BY DEF ReadScalar, Text, Json
<1>4. \A m \in Modes : ReadScalar("mode", Text(m)) = Good(m)
  BY DEF ReadScalar, Text, Json
<1>5. \A b \in BOOLEAN : ReadScalar("flag", Flag(b)) = Good(b)
  <2>1. Flag(TRUE) = True /\ Flag(FALSE) = False
    BY DEF Flag
  <2>2. ReadScalar("flag", True) = Good(TRUE)
    <3>1. ReadScalar("flag", True) = Good(True.text = "true") /\ True.text = "true"
      BY DEF ReadScalar, True, Json
    <3>2. (True.text = "true") = TRUE
      BY <3>1
    <3> QED
      BY <3>1, <3>2, Zenon
  <2>3. ReadScalar("flag", False) = Good(FALSE)
    <3>1. ReadScalar("flag", False) = Good(False.text = "true") /\ False.text = "false"
      BY DEF ReadScalar, False, Json
    <3>2. (False.text = "true") = FALSE
      BY <3>1
    <3> QED
      BY <3>1, <3>2, Zenon
  <2> QED
    BY <2>1, <2>2, <2>3, Zenon
<1>6. \A n : ReadScalar("maybeCount", Number(n)) = Good(<<n>>)
  BY DEF ReadScalar, Number, Json
<1> QED
  BY <1>1, <1>2, <1>3, <1>4, <1>5, <1>6

\* A map from names as it is written.
Mapped(s, w) == [i \in DOMAIN s |-> [key |-> s[i].name, value |-> w[i]]]

\* A map of what is read back, in order and one of each name, is read back.
LEMMA MapBack ==
  ASSUME NEW kind \in StoredMapKinds, NEW s, Settled(s), NEW w, Object(Mapped(s, w)) \in AnyJson,
         NEW q \in Paths,
         \A i \in DOMAIN s : w[i] \in AnyJson => Read[w[i]][MapSeeds[kind]][q] = Good(s[i].value)
  PROVE  Read[Object(Mapped(s, w))][kind][q] = Good(s)
<1> DEFINE e == Mapped(s, w)
           j == Object(e)
           r == MapAt(kind, j, q, Below(j))
<1>1. Len(s) \in Nat /\ DOMAIN s = 1..Len(s) /\ NameMap(Reread(s)) = Good(s)
  BY ListLen DEF Settled, IsNamed
<1>2. IsList(e) /\ Len(e) = Len(s)
  <2>1. e = [i \in 1..Len(s) |-> e[i]]
    BY <1>1 DEF Mapped
  <2> HIDE DEF e
  <2> QED
    BY <1>1, <2>1, ListMade
<1>3. \A i \in 1..Len(s) : e[i].key = s[i].name /\ e[i].value = w[i]
  BY <1>1 DEF Mapped
<1>4. j.is = "object" /\ j.entries = e
  BY ObjectIs
<1> HIDE DEF e
<1>5. j \in AnyJson
  BY DEF e
<1> HIDE DEF j
<1>6. \A i \in 1..Len(s) : w[i] \in Children(j) /\ w[i] \in AnyJson
  BY <1>2, <1>3, <1>4, <1>5, EntryAt
<1>7. \A i \in 1..Len(s) :
        Below(j)[j.entries[i].value][MapSeeds[kind]][PathOfEntry(kind, j.entries[i].key, q)] = Good(s[i].value)
  <2>1. SUFFICES ASSUME NEW i \in 1..Len(s)
                 PROVE  Below(j)[j.entries[i].value][MapSeeds[kind]][PathOfEntry(kind, j.entries[i].key, q)]
                          = Good(s[i].value)
    OBVIOUS
  <2>2. PathOfEntry(kind, j.entries[i].key, q) = q
    BY DEF PathOfEntry, StoredMapKinds
  <2>3. Below(j)[w[i]] = Read[w[i]]
    BY <1>6, BelowIs
  <2> QED
    BY <1>1, <1>3, <1>4, <1>6, <2>2, <2>3
<1>8. SoundMap(kind, j, q, Below(j))
  BY <1>2, <1>4, <1>7, ResultsAre DEF SoundMap
<1>9. r = Reread(s)
  <2>1. r = [i \in 1..Len(s) |-> [name |-> j.entries[i].key,
              result |-> Below(j)[j.entries[i].value][MapSeeds[kind]][PathOfEntry(kind, j.entries[i].key, q)]]]
    BY <1>2, <1>4, Zenon DEF MapAt
  <2>2. \A i \in 1..Len(s) :
          [name |-> j.entries[i].key,
           result |-> Below(j)[j.entries[i].value][MapSeeds[kind]][PathOfEntry(kind, j.entries[i].key, q)]]
            = [name |-> s[i].name, result |-> Good(s[i].value)]
    <3>1. SUFFICES ASSUME NEW i \in 1..Len(s)
                   PROVE  [name |-> j.entries[i].key,
                           result |-> Below(j)[j.entries[i].value][MapSeeds[kind]][PathOfEntry(kind, j.entries[i].key, q)]]
                            = [name |-> s[i].name, result |-> Good(s[i].value)]
      OBVIOUS
    <3>2. j.entries[i].key = s[i].name
      BY <1>3, <1>4
    <3> QED
      BY <1>7, <3>2, Zenon
  <2> QED
    BY <2>1, <2>2, Zenon DEF Reread
<1>10. Read[j][kind][q] = ReadMap(kind, j, q, Below(j))
  <2>1. kind \in ReadKinds
    BY StoredKindsRead DEF StoredKinds
  <2>2. Read[j][kind][q] = ReadNode(kind, j, q, Below(j))
    BY <1>5, <2>1, ReadIs DEF Below
  <2>3. \A path : ReadNode(kind, j, path, Below(j)) = ReadMap(kind, j, path, Below(j))
    BY DEF ReadNode, StoredMapKinds, Scalars, Seeds, MapSeeds
  <2> QED
    BY <2>2, <2>3
<1>11. ReadMap(kind, j, q, Below(j)) = FinishedMap(kind, r)
  BY <1>5, <1>8, MapRead
<1>12. FinishedMap(kind, r) = NameMap(r)
  BY DEF FinishedMap, StoredMapKinds
<1> QED
  BY <1>1, <1>9, <1>10, <1>11, <1>12 DEF j, e

\* An attribute is read back if its type is.
LEMMA AttributeBack ==
  ASSUME NEW a, NEW T, a \in AttributesOver(T), ReadAs("storedType", a.type),
         AttributeJson(a, NodeJson) \in AnyJson, NEW q \in Paths
  PROVE  Read[AttributeJson(a, NodeJson)]["storedAttribute"][q] = Good(a)
<1> DEFINE w == [type |-> NodeJson[a.type], required |-> Flag(a.required), optional |-> Flag(a.optional),
                 computed |-> Flag(a.computed), sensitive |-> False]
           v == [type |-> a.type, required |-> a.required, optional |-> a.optional,
                 computed |-> a.computed, sensitive |-> FALSE]
           K == {"type", "required", "optional", "computed", "sensitive"}
           f1 == Field("type", NodeJson[a.type])
           f2 == Field("required", Flag(a.required))
           f3 == Field("optional", Flag(a.optional))
           f4 == Field("computed", Flag(a.computed))
           f5 == Field("sensitive", False)
           e == f1 \o f2 \o f3 \o f4 \o f5
<1>1. /\ w["type"] = NodeJson[a.type] /\ w["required"] = Flag(a.required)
      /\ w["optional"] = Flag(a.optional) /\ w["computed"] = Flag(a.computed) /\ w["sensitive"] = False
  OBVIOUS
<1>2. /\ v["type"] = a.type /\ v["required"] = a.required /\ v["optional"] = a.optional
      /\ v["computed"] = a.computed /\ v["sensitive"] = FALSE
  OBVIOUS
<1>3. /\ a = [type |-> a.type, required |-> a.required, optional |-> a.optional, computed |-> a.computed]
      /\ a.required \in BOOLEAN /\ a.optional \in BOOLEAN /\ a.computed \in BOOLEAN
  BY DEF AttributesOver
<1> HIDE DEF w, v
<1>4. /\ Writes(f1, {"type"}, w) /\ Writes(f2, {"required"}, w) /\ Writes(f3, {"optional"}, w)
      /\ Writes(f4, {"computed"}, w) /\ Writes(f5, {"sensitive"}, w)
  BY <1>1, WritesOne
<1> HIDE DEF f1, f2, f3, f4, f5
<1>5. Writes(f1 \o f2, {"type", "required"}, w)
  <2>1. {"type"} \cup {"required"} = {"type", "required"} /\ {"type"} \cap {"required"} = {}
    OBVIOUS
  <2>2. Writes(f1 \o f2, {"type"} \cup {"required"}, w)
    BY <1>4, <2>1, WritesMore
  <2> QED
    BY <2>1, <2>2
<1>6. Writes(f1 \o f2 \o f3, {"type", "required", "optional"}, w)
  <2>1. /\ {"type", "required"} \cup {"optional"} = {"type", "required", "optional"}
        /\ {"type", "required"} \cap {"optional"} = {}
    OBVIOUS
  <2>2. Writes(f1 \o f2 \o f3, {"type", "required"} \cup {"optional"}, w)
    BY <1>4, <1>5, <2>1, WritesMore
  <2> QED
    BY <2>1, <2>2
<1>7. Writes(f1 \o f2 \o f3 \o f4, {"type", "required", "optional", "computed"}, w)
  <2>1. /\ {"type", "required", "optional"} \cup {"computed"} = {"type", "required", "optional", "computed"}
        /\ {"type", "required", "optional"} \cap {"computed"} = {}
    OBVIOUS
  <2>2. Writes(f1 \o f2 \o f3 \o f4, {"type", "required", "optional"} \cup {"computed"}, w)
    BY <1>4, <1>6, <2>1, WritesMore
  <2> QED
    BY <2>1, <2>2
<1>8. Writes(e, K, w)
  <2>1. /\ {"type", "required", "optional", "computed"} \cup {"sensitive"} = K
        /\ {"type", "required", "optional", "computed"} \cap {"sensitive"} = {}
    OBVIOUS
  <2>2. Writes(f1 \o f2 \o f3 \o f4 \o f5, {"type", "required", "optional", "computed"} \cup {"sensitive"}, w)
    BY <1>4, <1>7, <2>1, WritesMore
  <2> QED
    BY <2>1, <2>2
<1>9. AttributeJson(a, NodeJson) = Object(e)
  BY Zenon DEF AttributeJson, f1, f2, f3, f4, f5
<1> HIDE DEF e
<1>10. \A k \in K : w[k] \in AnyJson
  BY <1>8, <1>9, WrittenInside
<1>11. /\ Seeds["storedAttribute"] = StoredAttributeSeed /\ "storedAttribute" \in WrittenKinds
       /\ K \subseteq DOMAIN StoredAttributeSeed.fields /\ StoredAttributeSeed.required = K
       /\ StoredAttributeSeed.fields["type"] = "storedType"
       /\ \A k \in K \ {"type"} : StoredAttributeSeed.fields[k] = "flag"
  BY DEF Seeds, WrittenKinds, StoredSeedKinds, StoredAttributeSeed, Seed
<1>12. \A k \in K : Read[w[k]][Seeds["storedAttribute"].fields[k]][q] = Good(v[k])
  <2>1. Read[w["type"]]["storedType"][q] = Good(v["type"])
    BY <1>1, <1>2, <1>10 DEF ReadAs
  <2>2. Read[w["required"]]["flag"][q] = Good(v["required"])
    BY <1>1, <1>2, <1>3, <1>10, ScalarsBack
  <2>3. Read[w["optional"]]["flag"][q] = Good(v["optional"])
    BY <1>1, <1>2, <1>3, <1>10, ScalarsBack
  <2>4. Read[w["computed"]]["flag"][q] = Good(v["computed"])
    BY <1>1, <1>2, <1>3, <1>10, ScalarsBack
  <2>5. Read[w["sensitive"]]["flag"][q] = Good(v["sensitive"])
    <3>1. Flag(FALSE) = False /\ FALSE \in BOOLEAN
      BY DEF Flag
    <3>2. w["sensitive"] \in AnyJson
      BY <1>10
    <3>3. Flag(FALSE) \in AnyJson
      BY <1>1, <3>1, <3>2, Zenon
    <3>4. Read[Flag(FALSE)]["flag"][q] = Good(FALSE)
      BY <3>1, <3>3, ScalarsBack
    <3> QED
      BY <1>1, <1>2, <3>1, <3>4, Zenon
  <2> QED
    BY <1>11, <2>1, <2>2, <2>3, <2>4, <2>5
<1>13. PICK found : /\ Read[Object(e)]["storedAttribute"][q] = Finished("storedAttribute", found, q)
                    /\ DOMAIN found = K /\ \A k \in K : found[k] = Good(v[k])
  <2>1. /\ Object(e) \in AnyJson /\ K \subseteq DOMAIN Seeds["storedAttribute"].fields
        /\ Seeds["storedAttribute"].required \subseteq K /\ "storedAttribute" \in WrittenKinds
    BY <1>9, <1>11
  <2> HIDE DEF K
  <2> QED
    BY <1>8, <1>12, <2>1, WrittenRead
<1>14. NormalizedAttribute(found["type"].value, found)
         = [type |-> a.type, required |-> a.required, optional |-> a.optional, computed |-> a.computed]
  <2>1. /\ found["type"].value = a.type /\ Optional(found, "required", FALSE) = a.required
        /\ Optional(found, "optional", FALSE) = a.optional /\ Optional(found, "computed", FALSE) = a.computed
    BY <1>2, <1>13, ResultsAre DEF Optional
  <2> QED
    BY <2>1, Zenon DEF NormalizedAttribute
<1> QED
  BY <1>3, <1>9, <1>13, <1>14, FinishedStored

\* The keys of a bound: none if there is none.
GivenKeys(key, option) == IF option = <<>> THEN {} ELSE {key}

\* A bound is written if there is one, and a bound is what is read.
LEMMA GivenBack ==
  ASSUME NEW k, NEW o \in Counts, NEW w, w[k] = Number(o[1]), NEW q \in Paths
  PROVE  /\ Writes(Given(k, o), GivenKeys(k, o), w)
         /\ o # <<>> /\ w[k] \in AnyJson => Read[w[k]]["maybeCount"][q] = Good(o)
<1>1. CASE o = <<>>
  <2>1. Writes(<<>>, {}, w)
    <3>1. Len(<<>>) = 0 /\ 1..0 = {}
      OBVIOUS
    <3> QED
      BY <3>1, ListEmpty DEF Writes
  <2>2. Given(k, o) = <<>> /\ GivenKeys(k, o) = {}
    BY <1>1 DEF Given, GivenKeys
  <2> QED
    BY <1>1, <2>1, <2>2
<1>2. CASE o # <<>>
  <2>1. Given(k, o) = Field(k, Number(o[1])) /\ GivenKeys(k, o) = {k}
    BY <1>2 DEF Given, GivenKeys
  <2>2. o = <<o[1]>>
    <3>1. o \in [1..1 -> Nat]
      BY <1>2 DEF Counts
    <3>2. IsList(o) /\ Len(o) = 1
      <4>1. o = [i \in 1..1 |-> o[i]]
        BY <3>1
      <4> QED
        BY <4>1, ListMade
    <3>3. Len(<<o[1]>>) = 1 /\ <<o[1]>>[1] = o[1] /\ 1..1 = {1}
      OBVIOUS
    <3>4. IsList(<<o[1]>>)
      BY ListOne
    <3> QED
      BY <3>2, <3>3, <3>4, ListSame
  <2>3. Writes(Field(k, Number(o[1])), {k}, w)
    BY WritesOne
  <2>4. w[k] \in AnyJson => Read[w[k]]["maybeCount"][q] = Good(<<o[1]>>)
    BY ScalarsBack
  <2> QED
    BY <2>1, <2>2, <2>3, <2>4
<1> QED
  BY <1>1, <1>2

\* A nested block is read back if its block is.
LEMMA NestedBlockBack ==
  ASSUME NEW b, NEW T, b \in NestedOver(T), ReadAs("storedBlock", b.block),
         NestedBlockJson(b, NodeJson) \in AnyJson, NEW q \in Paths
  PROVE  Read[NestedBlockJson(b, NodeJson)]["storedNestedBlock"][q] = Good(b)
<1> DEFINE w == [nesting_mode |-> Text(b.nesting_mode), min_items |-> Number(b.min_items[1]),
                 max_items |-> Number(b.max_items[1]), block |-> NodeJson[b.block]]
           v == [nesting_mode |-> b.nesting_mode, min_items |-> b.min_items, max_items |-> b.max_items,
                 block |-> b.block]
           Least == GivenKeys("min_items", b.min_items)
           Most == GivenKeys("max_items", b.max_items)
           K == {"nesting_mode"} \cup Least \cup Most \cup {"block"}
           f1 == Field("nesting_mode", Text(b.nesting_mode))
           f2 == Given("min_items", b.min_items)
           f3 == Given("max_items", b.max_items)
           f4 == Field("block", NodeJson[b.block])
           e == f1 \o f2 \o f3 \o f4
<1>1. /\ w["nesting_mode"] = Text(b.nesting_mode) /\ w["min_items"] = Number(b.min_items[1])
      /\ w["max_items"] = Number(b.max_items[1]) /\ w["block"] = NodeJson[b.block]
  OBVIOUS
<1>2. /\ v["nesting_mode"] = b.nesting_mode /\ v["min_items"] = b.min_items
      /\ v["max_items"] = b.max_items /\ v["block"] = b.block
  OBVIOUS
<1>3. /\ b = [nesting_mode |-> b.nesting_mode, min_items |-> b.min_items, max_items |-> b.max_items,
              block |-> b.block]
      /\ b.nesting_mode \in Modes /\ b.min_items \in Counts /\ b.max_items \in Counts
  BY DEF NestedOver
<1> HIDE DEF w, v
<1>4. /\ Writes(f1, {"nesting_mode"}, w) /\ Writes(f2, Least, w) /\ Writes(f3, Most, w)
      /\ Writes(f4, {"block"}, w)
  BY <1>1, <1>3, WritesOne, GivenBack
<1> HIDE DEF f1, f2, f3, f4
<1>5. /\ Least = IF b.min_items = <<>> THEN {} ELSE {"min_items"}
      /\ Most = IF b.max_items = <<>> THEN {} ELSE {"max_items"}
  BY DEF GivenKeys
<1> HIDE DEF Least, Most
<1>6. Writes(f1 \o f2, {"nesting_mode"} \cup Least, w)
  <2>1. {"nesting_mode"} \cap Least = {}
    BY <1>5
  <2> QED
    BY <1>4, <2>1, WritesMore
<1>7. Writes(f1 \o f2 \o f3, {"nesting_mode"} \cup Least \cup Most, w)
  <2>1. ({"nesting_mode"} \cup Least) \cap Most = {}
    BY <1>5
  <2> QED
    BY <1>4, <1>6, <2>1, WritesMore
<1>8. Writes(e, K, w)
  <2>1. ({"nesting_mode"} \cup Least \cup Most) \cap {"block"} = {}
    BY <1>5
  <2> QED
    BY <1>4, <1>7, <2>1, WritesMore
<1>9. NestedBlockJson(b, NodeJson) = Object(e)
  BY Zenon DEF NestedBlockJson, f1, f2, f3, f4
<1> HIDE DEF e
<1>10. \A k \in K : w[k] \in AnyJson
  BY <1>8, <1>9, WrittenInside
<1>11. /\ Seeds["storedNestedBlock"] = StoredNestedBlockSeed /\ "storedNestedBlock" \in WrittenKinds
       /\ {"nesting_mode", "min_items", "max_items", "block"} \subseteq DOMAIN StoredNestedBlockSeed.fields
       /\ StoredNestedBlockSeed.required = {"nesting_mode", "block"}
       /\ StoredNestedBlockSeed.fields["nesting_mode"] = "mode"
       /\ StoredNestedBlockSeed.fields["min_items"] = "maybeCount"
       /\ StoredNestedBlockSeed.fields["max_items"] = "maybeCount"
       /\ StoredNestedBlockSeed.fields["block"] = "storedBlock"
  BY DEF Seeds, WrittenKinds, StoredSeedKinds, StoredNestedBlockSeed, Seed
<1>12. \A k \in K : Read[w[k]][Seeds["storedNestedBlock"].fields[k]][q] = Good(v[k])
  <2>1. Read[w["nesting_mode"]]["mode"][q] = Good(v["nesting_mode"])
    BY <1>1, <1>2, <1>3, <1>10, ScalarsBack
  <2>2. Read[w["block"]]["storedBlock"][q] = Good(v["block"])
    BY <1>1, <1>2, <1>10 DEF ReadAs
  <2>3. ASSUME "min_items" \in K PROVE Read[w["min_items"]]["maybeCount"][q] = Good(v["min_items"])
    <3>1. b.min_items # <<>>
      BY <1>5, <2>3
    <3>2. w["min_items"] \in AnyJson
      BY <1>10, <2>3
    <3> HIDE DEF K
    <3>3. Read[w["min_items"]]["maybeCount"][q] = Good(b.min_items)
      BY <1>1, <1>3, <3>1, <3>2, GivenBack
    <3> QED
      BY <1>2, <3>3
  <2>4. ASSUME "max_items" \in K PROVE Read[w["max_items"]]["maybeCount"][q] = Good(v["max_items"])
    <3>1. b.max_items # <<>>
      BY <1>5, <2>4
    <3>2. w["max_items"] \in AnyJson
      BY <1>10, <2>4
    <3> HIDE DEF K
    <3>3. Read[w["max_items"]]["maybeCount"][q] = Good(b.max_items)
      BY <1>1, <1>3, <3>1, <3>2, GivenBack
    <3> QED
      BY <1>2, <3>3
  <2>5. \A k \in K : k \in {"nesting_mode", "min_items", "max_items", "block"}
    BY <1>5
  <2> HIDE DEF K
  <2> QED
    BY <1>11, <2>1, <2>2, <2>3, <2>4, <2>5
<1>13. PICK found : /\ Read[Object(e)]["storedNestedBlock"][q] = Finished("storedNestedBlock", found, q)
                    /\ DOMAIN found = K /\ \A k \in K : found[k] = Good(v[k])
  <2>1. /\ Object(e) \in AnyJson /\ K \subseteq DOMAIN Seeds["storedNestedBlock"].fields
        /\ Seeds["storedNestedBlock"].required \subseteq K /\ "storedNestedBlock" \in WrittenKinds
    BY <1>5, <1>9, <1>11
  <2> HIDE DEF K
  <2> QED
    BY <1>8, <1>12, <2>1, WrittenRead
<1>14. NestedBlock(found, found["nesting_mode"].value, found["block"].value) = b
  <2>1. found["nesting_mode"].value = b.nesting_mode /\ found["block"].value = b.block
    BY <1>2, <1>13, ResultsAre
  <2>2. Optional(found, "min_items", <<>>) = b.min_items
    BY <1>2, <1>5, <1>13, ResultsAre DEF Optional
  <2>3. Optional(found, "max_items", <<>>) = b.max_items
    BY <1>2, <1>5, <1>13, ResultsAre DEF Optional
  <2> QED
    BY <1>3, <2>1, <2>2, <2>3, Zenon DEF NestedBlock
<1> QED
  BY <1>9, <1>13, <1>14, FinishedStored

\* A resource is read back if its block is.
LEMMA ResourceBack ==
  ASSUME NEW b, ReadAs("storedBlock", b), ResourceJson(b) \in AnyJson, NEW q \in Paths
  PROVE  Read[ResourceJson(b)]["storedResource"][q] = Good(b)
<1> DEFINE w == [block |-> NodeJson[b]]
           v == [block |-> b]
           e == Field("block", NodeJson[b])
           K == {"block"}
<1>1. w["block"] = NodeJson[b] /\ v["block"] = b
  OBVIOUS
<1> HIDE DEF w, v
<1>2. Writes(e, K, w)
  BY <1>1, WritesOne
<1>3. ResourceJson(b) = Object(e)
  BY Zenon DEF ResourceJson
<1> HIDE DEF e
<1>4. /\ Seeds["storedResource"] = StoredResourceSeed /\ "storedResource" \in WrittenKinds
      /\ K \subseteq DOMAIN StoredResourceSeed.fields /\ StoredResourceSeed.required = K
      /\ StoredResourceSeed.fields["block"] = "storedBlock"
  BY DEF Seeds, WrittenKinds, StoredSeedKinds, StoredResourceSeed, Seed
<1>5. \A k \in K : Read[w[k]][Seeds["storedResource"].fields[k]][q] = Good(v[k])
  <2>1. w["block"] \in AnyJson
    BY <1>2, <1>3, WrittenInside
  <2> QED
    BY <1>1, <1>4, <2>1 DEF ReadAs
<1>6. PICK found : /\ Read[Object(e)]["storedResource"][q] = Finished("storedResource", found, q)
                   /\ DOMAIN found = K /\ \A k \in K : found[k] = Good(v[k])
  <2>1. /\ Object(e) \in AnyJson /\ K \subseteq DOMAIN Seeds["storedResource"].fields
        /\ Seeds["storedResource"].required \subseteq K /\ "storedResource" \in WrittenKinds
    BY <1>3, <1>4
  <2> HIDE DEF K
  <2> QED
    BY <1>2, <1>5, <2>1, WrittenRead
<1> QED
  BY <1>1, <1>3, <1>6, FinishedStored

\* Attributes are read back if their types are.
LEMMA AttributesBack ==
  ASSUME NEW T, \A t \in T : ReadAs("storedType", t), NEW s \in NamedIn(AttributesOver(T)), Settled(s),
         AttributesJson(s, NodeJson) \in AnyJson, NEW q \in Paths
  PROVE  Read[AttributesJson(s, NodeJson)]["storedAttributes"][q] = Good(s)
<1> DEFINE w == [i \in DOMAIN s |-> AttributeJson(s[i].value, NodeJson)]
<1>1. \A i \in DOMAIN s : s[i].value \in AttributesOver(T)
  BY NamedAt
<1>2. \A i \in DOMAIN s : ReadAs("storedType", s[i].value.type)
  BY <1>1 DEF AttributesOver
<1>3. \A i \in DOMAIN s : w[i] = AttributeJson(s[i].value, NodeJson)
  OBVIOUS
<1>4. AttributesJson(s, NodeJson) = Object(Mapped(s, w))
  <2>1. AttributesJson(s, NodeJson)
          = Object([i \in DOMAIN s |-> [key |-> s[i].name, value |-> AttributeJson(s[i].value, NodeJson)]])
    BY Zenon DEF AttributesJson, MapJson
  <2> HIDE DEF w
  <2> QED
    BY <1>3, <2>1, Zenon DEF Mapped
<1> HIDE DEF w
<1>5. MapSeeds["storedAttributes"] = "storedAttribute" /\ "storedAttributes" \in StoredMapKinds
  BY DEF MapSeeds, StoredMapKinds
<1>6. \A i \in DOMAIN s : w[i] \in AnyJson => Read[w[i]][MapSeeds["storedAttributes"]][q] = Good(s[i].value)
  <2>1. SUFFICES ASSUME NEW i \in DOMAIN s, w[i] \in AnyJson
                 PROVE  Read[w[i]]["storedAttribute"][q] = Good(s[i].value)
    BY <1>5
  <2>2. AttributeJson(s[i].value, NodeJson) \in AnyJson
    BY <1>3, <2>1
  <2>3. Read[AttributeJson(s[i].value, NodeJson)]["storedAttribute"][q] = Good(s[i].value)
    BY <1>1, <1>2, <2>2, AttributeBack
  <2> QED
    BY <1>3, <2>3
<1>7. Read[Object(Mapped(s, w))]["storedAttributes"][q] = Good(s)
  <2>1. Object(Mapped(s, w)) \in AnyJson
    BY <1>4
  <2> QED
    BY <1>5, <1>6, <2>1, MapBack
<1> QED
  BY <1>4, <1>7

\* Nested blocks as they are written.
NestedBlocksJson(s) == MapJson(s, LAMBDA b : NestedBlockJson(b, NodeJson))

\* Nested blocks are read back if their blocks are.
LEMMA NestedBlocksBack ==
  ASSUME NEW T, \A t \in T : ReadAs("storedBlock", t), NEW s \in NamedIn(NestedOver(T)), Settled(s),
         NestedBlocksJson(s) \in AnyJson, NEW q \in Paths
  PROVE  Read[NestedBlocksJson(s)]["storedBlocks"][q] = Good(s)
<1> DEFINE w == [i \in DOMAIN s |-> NestedBlockJson(s[i].value, NodeJson)]
<1>1. \A i \in DOMAIN s : s[i].value \in NestedOver(T)
  BY NamedAt
<1>2. \A i \in DOMAIN s : ReadAs("storedBlock", s[i].value.block)
  BY <1>1 DEF NestedOver
<1>3. \A i \in DOMAIN s : w[i] = NestedBlockJson(s[i].value, NodeJson)
  OBVIOUS
<1>4. NestedBlocksJson(s) = Object(Mapped(s, w))
  <2>1. NestedBlocksJson(s)
          = Object([i \in DOMAIN s |-> [key |-> s[i].name, value |-> NestedBlockJson(s[i].value, NodeJson)]])
    BY Zenon DEF NestedBlocksJson, MapJson
  <2> HIDE DEF w
  <2> QED
    BY <1>3, <2>1, Zenon DEF Mapped
<1> HIDE DEF w
<1>5. MapSeeds["storedBlocks"] = "storedNestedBlock" /\ "storedBlocks" \in StoredMapKinds
  BY DEF MapSeeds, StoredMapKinds
<1>6. \A i \in DOMAIN s : w[i] \in AnyJson => Read[w[i]][MapSeeds["storedBlocks"]][q] = Good(s[i].value)
  <2>1. SUFFICES ASSUME NEW i \in DOMAIN s, w[i] \in AnyJson
                 PROVE  Read[w[i]]["storedNestedBlock"][q] = Good(s[i].value)
    BY <1>5
  <2>2. NestedBlockJson(s[i].value, NodeJson) \in AnyJson
    BY <1>3, <2>1
  <2>3. Read[NestedBlockJson(s[i].value, NodeJson)]["storedNestedBlock"][q] = Good(s[i].value)
    BY <1>1, <1>2, <2>2, NestedBlockBack
  <2> QED
    BY <1>3, <2>3
<1>7. Read[Object(Mapped(s, w))]["storedBlocks"][q] = Good(s)
  <2>1. Object(Mapped(s, w)) \in AnyJson
    BY <1>4
  <2> QED
    BY <1>5, <1>6, <2>1, MapBack
<1> QED
  BY <1>4, <1>7

\* Resources are read back if their blocks are.
LEMMA ResourcesBack ==
  ASSUME NEW T, \A t \in T : ReadAs("storedBlock", t), NEW s \in NamedIn(T), Settled(s),
         MapJson(s, ResourceJson) \in AnyJson, NEW q \in Paths
  PROVE  Read[MapJson(s, ResourceJson)]["storedSchemas"][q] = Good(s)
<1> DEFINE w == [i \in DOMAIN s |-> ResourceJson(s[i].value)]
<1>1. \A i \in DOMAIN s : ReadAs("storedBlock", s[i].value)
  BY NamedAt
<1>2. \A i \in DOMAIN s : w[i] = ResourceJson(s[i].value)
  OBVIOUS
<1>3. MapJson(s, ResourceJson) = Object(Mapped(s, w))
  <2>1. MapJson(s, ResourceJson)
          = Object([i \in DOMAIN s |-> [key |-> s[i].name, value |-> ResourceJson(s[i].value)]])
    BY Zenon DEF MapJson
  <2> HIDE DEF w
  <2> QED
    BY <1>2, <2>1, Zenon DEF Mapped
<1> HIDE DEF w
<1>4. MapSeeds["storedSchemas"] = "storedResource" /\ "storedSchemas" \in StoredMapKinds
  BY DEF MapSeeds, StoredMapKinds
<1>5. \A i \in DOMAIN s : w[i] \in AnyJson => Read[w[i]][MapSeeds["storedSchemas"]][q] = Good(s[i].value)
  <2>1. SUFFICES ASSUME NEW i \in DOMAIN s, w[i] \in AnyJson
                 PROVE  Read[w[i]]["storedResource"][q] = Good(s[i].value)
    BY <1>4
  <2>2. ResourceJson(s[i].value) \in AnyJson
    BY <1>2, <2>1
  <2>3. Read[ResourceJson(s[i].value)]["storedResource"][q] = Good(s[i].value)
    BY <1>1, <2>2, ResourceBack
  <2> QED
    BY <1>2, <2>3
<1>6. Read[Object(Mapped(s, w))]["storedSchemas"][q] = Good(s)
  <2>1. Object(Mapped(s, w)) \in AnyJson
    BY <1>3
  <2> QED
    BY <1>4, <1>5, <2>1, MapBack
<1> QED
  BY <1>3, <1>6

\* A block is read back if its attributes and blocks are.
LEMMA BlockBack ==
  ASSUME NEW a, NEW b, Settled(a), Settled(b), NEW T, NEW U,
         \A t \in T : ReadAs("storedType", t), \A u \in U : ReadAs("storedBlock", u),
         a \in NamedIn(AttributesOver(T)), b \in NamedIn(NestedOver(U)),
         NEW block, block = [attributes |-> a, blocks |-> b],
         BlockJson(block, NodeJson) \in AnyJson, NEW q \in Paths
  PROVE  Read[BlockJson(block, NodeJson)]["storedBlock"][q] = Good(block)
<1> DEFINE w == [attributes |-> AttributesJson(a, NodeJson), blocks |-> NestedBlocksJson(b)]
           v == [attributes |-> a, blocks |-> b]
           f1 == Field("attributes", AttributesJson(a, NodeJson))
           f2 == Field("blocks", NestedBlocksJson(b))
           e == f1 \o f2
           K == {"attributes", "blocks"}
<1>1. /\ w["attributes"] = AttributesJson(a, NodeJson) /\ w["blocks"] = NestedBlocksJson(b)
      /\ v["attributes"] = a /\ v["blocks"] = b
  OBVIOUS
<1> HIDE DEF w, v
<1>2. Writes(f1, {"attributes"}, w) /\ Writes(f2, {"blocks"}, w)
  BY <1>1, WritesOne
<1>3. BlockJson(block, NodeJson) = Object(e)
  <2>1. block.attributes = a /\ block.blocks = b
    OBVIOUS
  <2> QED
    BY <2>1, Zenon DEF BlockJson, NestedBlocksJson, f1, f2
<1> HIDE DEF f1, f2
<1>4. Writes(e, K, w)
  <2>1. {"attributes"} \cup {"blocks"} = K /\ {"attributes"} \cap {"blocks"} = {}
    OBVIOUS
  <2>2. Writes(f1 \o f2, {"attributes"} \cup {"blocks"}, w)
    BY <1>2, <2>1, WritesMore
  <2> QED
    BY <2>1, <2>2
<1> HIDE DEF e
<1>5. w["attributes"] \in AnyJson /\ w["blocks"] \in AnyJson
  BY <1>3, <1>4, WrittenInside
<1>6. /\ Seeds["storedBlock"] = StoredBlockSeed /\ "storedBlock" \in WrittenKinds
      /\ K \subseteq DOMAIN StoredBlockSeed.fields /\ StoredBlockSeed.required = K
      /\ StoredBlockSeed.fields["attributes"] = "storedAttributes"
      /\ StoredBlockSeed.fields["blocks"] = "storedBlocks"
  BY DEF Seeds, WrittenKinds, StoredSeedKinds, StoredBlockSeed, Seed
<1>7. \A k \in K : Read[w[k]][Seeds["storedBlock"].fields[k]][q] = Good(v[k])
  <2>1. Read[w["attributes"]]["storedAttributes"][q] = Good(v["attributes"])
    <3>1. AttributesJson(a, NodeJson) \in AnyJson
      BY <1>1, <1>5
    <3>2. Read[AttributesJson(a, NodeJson)]["storedAttributes"][q] = Good(a)
      BY <3>1, AttributesBack
    <3> QED
      BY <1>1, <3>2
  <2>2. Read[w["blocks"]]["storedBlocks"][q] = Good(v["blocks"])
    <3>1. NestedBlocksJson(b) \in AnyJson
      BY <1>1, <1>5
    <3>2. Read[NestedBlocksJson(b)]["storedBlocks"][q] = Good(b)
      BY <3>1, NestedBlocksBack
    <3> QED
      BY <1>1, <3>2
  <2> QED
    BY <1>6, <2>1, <2>2
<1>8. PICK found : /\ Read[Object(e)]["storedBlock"][q] = Finished("storedBlock", found, q)
                   /\ DOMAIN found = K /\ \A k \in K : found[k] = Good(v[k])
  <2>1. /\ Object(e) \in AnyJson /\ K \subseteq DOMAIN Seeds["storedBlock"].fields
        /\ Seeds["storedBlock"].required \subseteq K /\ "storedBlock" \in WrittenKinds
    BY <1>3, <1>6
  <2> HIDE DEF K
  <2> QED
    BY <1>4, <1>7, <2>1, WrittenRead
<1>9. found["attributes"].value = a /\ found["blocks"].value = b
  BY <1>1, <1>8, ResultsAre
<1> QED
  BY <1>3, <1>8, <1>9, FinishedStored

\* A type as it is written has the form both passes take.
LEMMA WrittenForm ==
  ASSUME NEW k, NEW q
  PROVE  /\ k \in Primitives => StoredForm(Object(Field("kind", Text(k))), q) = <<k>>
         /\ \A x : k \notin Primitives =>
              StoredForm(Object(Field("kind", Text(k)) \o Field("value", x)), q) = <<k, x>>
<1> DEFINE Of(j, key) == {i \in DOMAIN j.entries : j.entries[i].key = key}
           KindOf(j) == j.entries[CHOOSE i \in Of(j, "kind") : TRUE].value
           ValueOf(j) == j.entries[CHOOSE i \in Of(j, "value") : TRUE].value
           Once(places) == \E i \in places : places = {i}
           Ordered(j) == \A i \in DOMAIN j.entries : j.entries[i].key = <<"kind", "value">>[i]
<1>1. \A j : StoredForm(j, q)
        = IF j.is # "object" \/ ~Once(Of(j, "kind")) THEN <<>>
          ELSE IF KindOf(j).is # "string" THEN <<>>
          ELSE IF q # Derived /\ ~(Len(j.entries) <= 2 /\ Ordered(j)) THEN <<>>
          ELSE IF Of(j, "value") = {} THEN IF KindOf(j).text \in Primitives THEN <<KindOf(j).text>> ELSE <<>>
          ELSE IF ~Once(Of(j, "value")) THEN <<>>
          ELSE IF KindOf(j).text \notin Primitives THEN <<KindOf(j).text, ValueOf(j)>>
          ELSE IF q = Derived /\ ValueOf(j).is = "null" THEN <<KindOf(j).text>> ELSE <<>>
  BY Zenon DEF StoredForm
<1>2. Text(k).is = "string" /\ Text(k).text = k
  BY DEF Text, Json
<1>3. \A m : (CHOOSE i \in {m} : TRUE) = m
  OBVIOUS
<1>4. <<"kind", "value">>[1] = "kind" /\ <<"kind", "value">>[2] = "value"
  OBVIOUS
<1> DEFINE x1 == [key |-> "kind", value |-> Text(k)]
<1>5. Field("kind", Text(k)) = <<x1>> /\ x1.key = "kind" /\ x1.value = Text(k)
  BY DEF Field
<1> HIDE DEF x1
<1>6. Len(<<x1>>) = 1 /\ <<x1>>[1] = x1 /\ IsList(<<x1>>) /\ 1..1 = {1} /\ DOMAIN <<x1>> = 1..1
  BY ListOne
<1>7. ASSUME k \in Primitives
      PROVE  StoredForm(Object(Field("kind", Text(k))), q) = <<k>>
  <2> DEFINE j == Object(<<x1>>)
  <2>1. j.is = "object" /\ j.entries = <<x1>>
    BY ObjectIs
  <2> HIDE DEF j
  <2>2. DOMAIN j.entries = {1} /\ Len(j.entries) = 1 /\ j.entries[1] = x1
    BY <1>6, <2>1
  <2>3. Of(j, "kind") = {1} /\ Of(j, "value") = {}
    BY <1>5, <2>2
  <2>4. KindOf(j) = Text(k)
    BY <1>3, <1>5, <2>2, <2>3
  <2>5. Once(Of(j, "kind")) /\ Ordered(j) /\ Len(j.entries) <= 2
    BY <1>4, <1>5, <2>2, <2>3
  <2> HIDE DEF Of, KindOf, ValueOf, Once, Ordered
  <2>6. StoredForm(j, q) = <<k>>
    BY <1>1, <1>2, <1>7, <2>1, <2>3, <2>4, <2>5
  <2> QED
    BY <1>5, <2>6 DEF j
<1>8. ASSUME NEW x, k \notin Primitives
      PROVE  StoredForm(Object(Field("kind", Text(k)) \o Field("value", x)), q) = <<k, x>>
  <2> DEFINE x2 == [key |-> "value", value |-> x]
             e == <<x1>> \o <<x2>>
             j == Object(e)
  <2>1. Field("value", x) = <<x2>> /\ x2.key = "value" /\ x2.value = x
    BY DEF Field
  <2> HIDE DEF x2
  <2>2. Len(<<x2>>) = 1 /\ <<x2>>[1] = x2 /\ IsList(<<x2>>)
    BY ListOne
  <2>3. IsList(e) /\ Len(e) = 2 /\ e[1] = x1 /\ e[2] = x2
    <3>1. /\ IsList(e) /\ Len(e) = Len(<<x1>>) + Len(<<x2>>)
          /\ \A i \in 1..Len(<<x1>>) : e[i] = <<x1>>[i]
          /\ \A i \in 1..Len(<<x2>>) : e[Len(<<x1>>) + i] = <<x2>>[i]
      BY <1>6, <2>2, ListConcat
    <3>2. 1 \in 1..1 /\ 1 + 1 = 2
      OBVIOUS
    <3> HIDE DEF e
    <3>3. Len(e) = 2 /\ e[1] = <<x1>>[1] /\ e[1 + 1] = <<x2>>[1]
      BY <1>6, <2>2, <3>1, <3>2
    <3> QED
      BY <1>6, <2>2, <3>1, <3>3
  <2>4. DOMAIN e = {1, 2}
    <3>1. DOMAIN e = 1..2
      BY <2>3, ListLen
    <3> QED
      BY <3>1
  <2>5. j.is = "object" /\ j.entries = e
    BY ObjectIs
  <2> HIDE DEF j, e
  <2>6. Of(j, "kind") = {1} /\ Of(j, "value") = {2}
    BY <1>5, <2>1, <2>3, <2>4, <2>5
  <2>7. KindOf(j) = Text(k) /\ ValueOf(j) = x
    BY <1>3, <1>5, <2>1, <2>3, <2>5, <2>6
  <2>8. Once(Of(j, "kind")) /\ Once(Of(j, "value")) /\ Ordered(j) /\ Len(j.entries) <= 2
    <3>1. j.entries[1].key = "kind" /\ j.entries[2].key = "value" /\ DOMAIN j.entries = {1, 2}
      BY <1>5, <2>1, <2>3, <2>4, <2>5
    <3>2. Ordered(j)
      BY <1>4, <3>1
    <3>3. Once({1}) /\ Once({2})
      OBVIOUS
    <3>4. Len(j.entries) <= 2
      <4>1. Len(j.entries) = 2
        BY <2>3, <2>5, Zenon
      <4>2. 2 <= 2
        OBVIOUS
      <4> QED
        BY <4>1, <4>2, Zenon
    <3> HIDE DEF Of, Once, Ordered
    <3> QED
      BY <2>6, <3>2, <3>3, <3>4
  <2>9. Of(j, "value") # {}
    BY <2>6
  <2> HIDE DEF Of, KindOf, ValueOf, Once, Ordered
  <2>10. StoredForm(j, q) = <<k, x>>
    BY <1>1, <1>2, <1>8, <2>5, <2>7, <2>8, <2>9
  <2> QED
    BY <1>5, <2>1, <2>10 DEF j, e
<1> QED
  BY <1>7, <1>8

\* What both passes read of one.
LEMMA StoredTypeRead ==
  ASSUME NEW j \in AnyJson, NEW q \in Paths
  PROVE  /\ Read[j]["storedType"][q] = ReadStoredType(j, q, Below(j))
         /\ Read[j]["storedTypes"][q] = ReadStoredTypes(j, q, Below(j))
<1>1. "storedType" \in ReadKinds /\ "storedTypes" \in ReadKinds
  BY DEF ReadKinds, TypeKinds
<1>2. \A path : /\ ReadNode("storedType", j, path, Below(j)) = ReadStoredType(j, path, Below(j))
                /\ ReadNode("storedTypes", j, path, Below(j)) = ReadStoredTypes(j, path, Below(j))
  BY DEF ReadNode, Scalars, Seeds, MapSeeds
<1> QED
  BY <1>1, <1>2, ReadIs DEF Below

\* A type is read back if the types in it are.
LEMMA TypeBack ==
  ASSUME NEW T, \A t \in T : ReadAs("storedType", t), NEW type \in TypesOver(T),
         type.kind = "object" => Settled(type.fields),
         TypeJson(type, NodeJson) \in AnyJson, NEW q \in Paths
  PROVE  Read[TypeJson(type, NodeJson)]["storedType"][q] = Good(type)
<1> DEFINE j == TypeJson(type, NodeJson)
           k == type.kind
           f == StoredForm(j, q)
           inside(kind) == Below(j)[f[2]][kind][q]
<1>1. j \in AnyJson
  OBVIOUS
<1>2. Read[j]["storedType"][q]
        = IF f = <<>> THEN Bad("invalid_type")
          ELSE IF Len(f) = 1 THEN Good(Type(f[1], <<>>, <<>>))
          ELSE IF f[1] \in Collections
            THEN Then(inside("storedType"), LAMBDA item : Type(f[1], <<item>>, <<>>))
          ELSE IF f[1] = "object"
            THEN Then(inside("storedAttributes"), LAMBDA fields : Type("object", <<>>, fields))
          ELSE IF f[1] = "tuple" THEN inside("storedTypes")
          ELSE Bad("unknown_variant")
  <2>1. Read[j]["storedType"][q] = ReadStoredType(j, q, Below(j))
    BY <1>1, StoredTypeRead
  <2> QED
    BY <2>1, Zenon DEF ReadStoredType
<1>3. /\ k \in Primitives \/ k \in Collections \/ k = "object" \/ k = "tuple"
      /\ k \in Primitives => k \notin Collections /\ k # "object" /\ k # "tuple"
      /\ k \in Collections => k \notin Primitives /\ k # "object" /\ k # "tuple"
      /\ k \in {"object", "tuple"} => k \notin Primitives /\ k \notin Collections
  BY DEF TypesOver, Primitives, Collections
<1>4. /\ type = [kind |-> k, items |-> type.items, fields |-> type.fields]
      /\ k \in Primitives => type.items = <<>> /\ type.fields = <<>>
      /\ k \in Collections => type.items \in [1..1 -> T] /\ type.fields = <<>>
      /\ k = "object" => type.items = <<>> /\ type.fields \in NamedIn(AttributesOver(T))
      /\ k = "tuple" => type.items \in Seq(T) /\ type.fields = <<>>
  BY DEF TypesOver, Primitives, Collections
<1>5. type = Type(k, type.items, type.fields)
  BY <1>4, Zenon DEF Type
<1>6. CASE k \in Primitives
  <2>1. j = Object(Field("kind", Text(k)))
    <3>1. Parameter(type, NodeJson) = <<>>
      BY <1>3, <1>6 DEF Parameter
    <3>2. Field("kind", Text(k)) \o <<>> = Field("kind", Text(k))
      <4>1. IsList(Field("kind", Text(k))) /\ IsList(<<>>) /\ Len(<<>>) = 0
        BY ListOne, ListEmpty DEF Field
      <4>2. Len(Field("kind", Text(k))) \in Nat
        BY <4>1, ListLen
      <4> DEFINE g == Field("kind", Text(k))
                 h == g \o <<>>
      <4>3. /\ IsList(h) /\ Len(h) = Len(g) + Len(<<>>) /\ \A i \in 1..Len(g) : h[i] = g[i]
        BY <4>1, ListConcat
      <4> HIDE DEF g, h
      <4>4. IsList(g) /\ Len(g) \in Nat /\ Len(h) = Len(g)
        BY <4>1, <4>2, <4>3 DEF g
      <4>5. h = g
        BY <4>3, <4>4, ListSame
      <4> QED
        BY <4>5 DEF g, h
    <3> QED
      BY <3>1, <3>2, Zenon DEF TypeJson
  <2>2. f = <<k>>
    BY <1>6, <2>1, WrittenForm
  <2>3. f # <<>> /\ Len(f) = 1 /\ f[1] = k
    BY <2>2
  <2> HIDE DEF f
  <2> QED
    BY <1>2, <1>4, <1>5, <1>6, <2>3
<1>7. CASE k \notin Primitives
  <2>1. PICK x : j = Object(Field("kind", Text(k)) \o Field("value", x)) /\ Parameter(type, NodeJson) = Field("value", x)
    <3>1. \E x : Parameter(type, NodeJson) = Field("value", x)
      BY <1>3, <1>7 DEF Parameter
    <3> QED
      BY <3>1, Zenon DEF TypeJson
  <2>2. f = <<k, x>>
    BY <1>7, <2>1, WrittenForm
  <2>3. f # <<>> /\ Len(f) # 1 /\ f[1] = k /\ f[2] = x
    BY <2>2
  <2> HIDE DEF f
  <2>4. x \in Children(j) /\ x \in AnyJson
    <3>1. x \in Children(j)
      BY <1>1, <2>3, StoredForms DEF f
    <3> QED
      BY <1>1, <3>1, JsonNode
  <2>5. \A kind : inside(kind) = Read[x][kind][q]
    BY <2>3, <2>4, BelowIs
  <2>6. \A y : Field("value", y) = Field("value", x) => y = x
    <3>1. SUFFICES ASSUME NEW y, Field("value", y) = Field("value", x) PROVE y = x
      OBVIOUS
    <3>2. \A z : Field("value", z)[1].value = z
      BY DEF Field
    <3> QED
      BY <3>1, <3>2
  <2> HIDE DEF inside, j
  <2>7. CASE k \in Collections
    <3>1. x = NodeJson[type.items[1]]
      <4>1. Parameter(type, NodeJson) = Field("value", NodeJson[type.items[1]])
        BY <1>3, <2>7 DEF Parameter
      <4> QED
        BY <2>1, <2>6, <4>1
    <3>2. type.items[1] \in T
      BY <1>4, <2>7
    <3>3. Read[x]["storedType"][q] = Good(type.items[1])
      BY <2>4, <3>1, <3>2 DEF ReadAs
    <3>4. Read[j]["storedType"][q] = Then(inside("storedType"), LAMBDA item : Type(f[1], <<item>>, <<>>))
      BY <1>2, <1>3, <2>3, <2>7, Zenon
    <3>5. Usable(inside("storedType")) /\ inside("storedType").value = type.items[1]
      BY <2>5, <3>3, ResultsAre DEF Usable
    <3>6. Read[j]["storedType"][q] = Good(Type(k, <<type.items[1]>>, <<>>))
      BY <2>3, <3>4, <3>5, Zenon DEF Then
    <3>7. <<type.items[1]>> = type.items
      <4> DEFINE o == type.items
      <4>1. o \in [1..1 -> T]
        BY <1>4, <2>7
      <4> HIDE DEF o
      <4>2. IsList(o) /\ Len(o) = 1
        <5>1. o = [i \in 1..1 |-> o[i]]
          BY <4>1
        <5> QED
          BY <5>1, ListMade
      <4>3. Len(<<o[1]>>) = 1 /\ <<o[1]>>[1] = o[1] /\ 1..1 = {1} /\ IsList(<<o[1]>>)
        BY ListOne
      <4>4. <<o[1]>> = o
        BY <4>2, <4>3, ListSame
      <4> QED
        BY <4>4 DEF o
    <3> QED
      BY <1>4, <1>5, <2>7, <3>6, <3>7 DEF j
  <2>8. CASE k = "object"
    <3>1. x = AttributesJson(type.fields, NodeJson)
      <4>1. Parameter(type, NodeJson) = Field("value", AttributesJson(type.fields, NodeJson))
        BY <1>3, <2>8 DEF Parameter
      <4> QED
        BY <2>1, <2>6, <4>1
    <3>2. Read[x]["storedAttributes"][q] = Good(type.fields)
      <4>1. type.fields \in NamedIn(AttributesOver(T)) /\ Settled(type.fields)
        BY <1>4, <2>8
      <4> QED
        BY <2>4, <3>1, <4>1, AttributesBack
    <3>3. Read[j]["storedType"][q]
            = Then(inside("storedAttributes"), LAMBDA fields : Type("object", <<>>, fields))
      <4>1. f[1] = "object" /\ f[1] \notin Collections
        BY <1>3, <2>3, <2>8
      <4> QED
        BY <1>2, <2>3, <4>1, Zenon
    <3>4. Usable(inside("storedAttributes")) /\ inside("storedAttributes").value = type.fields
      BY <2>5, <3>2, ResultsAre DEF Usable
    <3>5. Read[j]["storedType"][q] = Good(Type("object", <<>>, type.fields))
      BY <3>3, <3>4, Zenon DEF Then
    <3> QED
      BY <1>4, <1>5, <2>8, <3>5 DEF j
  <2>9. CASE k = "tuple"
    <3> DEFINE items == [i \in DOMAIN type.items |-> NodeJson[type.items[i]]]
               results == [i \in DOMAIN x.items |-> Below(x)[x.items[i]]["storedType"][q]]
               failing == {i \in DOMAIN results : results[i].error # <<>>}
    <3>1. x = Array(items)
      <4>1. Parameter(type, NodeJson) = Field("value", Array(items))
        BY <1>3, <2>9 DEF Parameter
      <4> QED
        BY <2>1, <2>6, <4>1
    <3>2. x.is = "array" /\ x.items = items
      BY <3>1 DEF Array, Json
    <3>3. type.items \in Seq(T) /\ Len(type.items) \in Nat /\ DOMAIN type.items = 1..Len(type.items)
      BY <1>4, <2>9
    <3>4. \A i \in DOMAIN type.items : /\ items[i] \in Children(x) /\ items[i] \in AnyJson
                                       /\ items[i] = NodeJson[type.items[i]] /\ type.items[i] \in T
      <4>1. DOMAIN items = DOMAIN type.items
        OBVIOUS
      <4>2. \A i \in DOMAIN type.items : type.items[i] \in T /\ items[i] = NodeJson[type.items[i]]
        BY <3>3
      <4>3. DOMAIN x.items = 1..Len(x.items) /\ \A i \in DOMAIN x.items : x.items[i] \in Children(x) /\ x.items[i] \in AnyJson
        BY <2>4, EntryAt
      <4> HIDE DEF items
      <4> QED
        BY <3>2, <4>1, <4>2, <4>3
    <3>5. DOMAIN results = DOMAIN type.items
      BY <3>2
    <3>6. \A i \in DOMAIN type.items : results[i] = Good(type.items[i])
      <4>1. SUFFICES ASSUME NEW i \in DOMAIN type.items PROVE results[i] = Good(type.items[i])
        OBVIOUS
      <4>2. results[i] = Below(x)[items[i]]["storedType"][q]
        BY <3>2
      <4>3. Below(x)[items[i]] = Read[items[i]]
        BY <3>4, BelowIs
      <4>4. ReadAs("storedType", type.items[i])
        BY <3>4
      <4>5. Read[items[i]]["storedType"][q] = Good(type.items[i])
        BY <3>4, <4>4, Zenon DEF ReadAs
      <4> QED
        BY <4>2, <4>3, <4>5
    <3>7. Read[x]["storedTypes"][q]
            = IF x.is # "array" THEN Bad("invalid_type")
              ELSE IF failing # {} THEN results[Min(failing)]
              ELSE Good(AsTuple([i \in DOMAIN results |-> results[i].value]))
      <4>1. Read[x]["storedTypes"][q] = ReadStoredTypes(x, q, Below(x))
        BY <2>4, StoredTypeRead
      <4> QED
        BY <4>1, Zenon DEF ReadStoredTypes
    <3> HIDE DEF items, results
    <3>8. failing = {}
      BY <3>5, <3>6, ResultsAre
    <3>9. [i \in DOMAIN results |-> results[i].value] = type.items
      <4>1. \A i \in DOMAIN type.items : results[i].value = type.items[i]
        BY <3>6, ResultsAre
      <4>2. type.items = [i \in DOMAIN type.items |-> type.items[i]]
        BY <3>3
      <4> QED
        BY <3>5, <4>1, <4>2, Zenon
    <3> HIDE DEF failing
    <3>10. Read[x]["storedTypes"][q] = Good(AsTuple(type.items))
      BY <3>2, <3>7, <3>8, <3>9
    <3>11. Read[j]["storedType"][q] = inside("storedTypes")
      <4>1. f[1] = "tuple" /\ f[1] \notin Collections /\ f[1] # "object"
        BY <1>3, <2>3, <2>9
      <4> QED
        BY <1>2, <2>3, <4>1, Zenon
    <3>12. AsTuple(type.items) = type
      BY <1>4, <1>5, <2>9 DEF AsTuple
    <3> QED
      BY <2>5, <3>10, <3>11, <3>12 DEF j
  <2> QED
    BY <1>3, <1>7, <2>7, <2>8, <2>9
<1> QED
  BY <1>6, <1>7

-----------------------------------------------------------------------------
\* What is read of the raw format is read back.

\* More is inside a node, and read back, the deeper it may nest.
LEMMA InnerGrows ==
  ASSUME NEW kind, NEW h \in 0..MaxNesting
  PROVE  /\ Inner(kind, h) \subseteq Over(h) /\ Inner(kind, h) \subseteq Fitting(kind, h)
         /\ \A v \in Inner(kind, h) : ReadAs(kind, v)
         /\ h # 0 => /\ h - 1 \in 0..MaxNesting /\ Inner(kind, h) = Fitting(kind, h - 1)
                     /\ Inner(kind, h - 1) \subseteq Inner(kind, h)
                     /\ Fitting(kind, h - 1) \subseteq Fitting(kind, h)
<1>1. Over(h) \subseteq SchemaTree[h]
  BY SchemaGrows
<1>2. h # 0 => /\ h - 1 \in 0..MaxNesting /\ SchemaTree[h - 1] = Over(h)
               /\ Over(h - 1) \subseteq Over(h) /\ SchemaTree[h - 1] \subseteq SchemaTree[h]
  BY SchemaUp
<1> QED
  BY <1>1, <1>2 DEF Inner, Fitting

\* A type of types that are read back is one that is.
LEMMA TypeFits ==
  ASSUME NEW h \in 0..MaxNesting, NEW type \in TypesOver(Inner("storedType", h)),
         type.kind = "object" => Settled(type.fields)
  PROVE  type \in Fitting("storedType", h)
<1>1. type \in SchemaTree[h] /\ type \in AnyNode
  <2>1. type \in SchemaNodes(Inner("storedType", h))
    BY DEF SchemaNodes
  <2>2. type \in SchemaNodes(Over(h))
    BY <2>1, InnerGrows, NodesGrow
  <2> QED
    BY <2>2, SchemaTreeIs, SchemaInAny
<1>2. NodeJson[type] = TypeJson(type, NodeJson)
  <2>1. "kind" \in DOMAIN type
    BY DEF TypesOver
  <2> QED
    BY <1>1, <2>1, NodeJsonIs DEF NodeBody
<1>3. \A t \in Inner("storedType", h) : ReadAs("storedType", t)
  BY InnerGrows
<1>4. ASSUME NodeJson[type] \in AnyJson, NEW q \in Paths
      PROVE  Read[NodeJson[type]]["storedType"][q] = Good(type)
  <2>1. TypeJson(type, NodeJson) \in AnyJson
    BY <1>2, <1>4
  <2>2. Read[TypeJson(type, NodeJson)]["storedType"][q] = Good(type)
    BY <1>3, <2>1, TypeBack
  <2> QED
    BY <1>2, <2>2
<1> QED
  BY <1>1, <1>4 DEF Fitting, ReadAs

\* So is a block, of types and blocks that are.
LEMMA BlockFits ==
  ASSUME NEW h \in 0..MaxNesting,
         NEW a \in NamedIn(AttributesOver(Inner("storedType", h))), Settled(a),
         NEW b \in NamedIn(NestedOver(Inner("storedBlock", h))), Settled(b)
  PROVE  [attributes |-> a, blocks |-> b] \in Fitting("storedBlock", h)
<1> DEFINE block == [attributes |-> a, blocks |-> b]
<1>1. block \in SchemaTree[h] /\ block \in AnyNode
  <2>1. /\ AttributesOver(Inner("storedType", h)) \subseteq AttributesOver(Over(h))
        /\ NestedOver(Inner("storedBlock", h)) \subseteq NestedOver(Over(h))
    BY InnerGrows DEF AttributesOver, NestedOver
  <2>2. ASSUME NEW X, NEW Y, X \subseteq Y PROVE NamedIn(X) \subseteq NamedIn(Y)
    <3>1. [name : STRING, value : X] \subseteq [name : STRING, value : Y]
      BY <2>2
    <3> QED
      BY <3>1, SeqMonotonic DEF NamedIn
  <2>3. a \in NamedIn(AttributesOver(Over(h))) /\ b \in NamedIn(NestedOver(Over(h)))
    BY <2>1, <2>2
  <2>4. block \in BlocksOver(Over(h))
    BY <2>3 DEF BlocksOver
  <2>5. block \in SchemaNodes(Over(h))
    BY <2>4 DEF SchemaNodes
  <2> QED
    BY <2>5, SchemaTreeIs, SchemaInAny
<1>2. NodeJson[block] = BlockJson(block, NodeJson)
  <2>1. "kind" \notin DOMAIN block
    OBVIOUS
  <2> HIDE DEF block
  <2> QED
    BY <1>1, <2>1, NodeJsonIs DEF NodeBody
<1>3. /\ \A t \in Inner("storedType", h) : ReadAs("storedType", t)
      /\ \A t \in Inner("storedBlock", h) : ReadAs("storedBlock", t)
  BY InnerGrows
<1>4. block = [attributes |-> a, blocks |-> b]
  OBVIOUS
<1> HIDE DEF block
<1>5. ASSUME NodeJson[block] \in AnyJson, NEW q \in Paths
      PROVE  Read[NodeJson[block]]["storedBlock"][q] = Good(block)
  <2>1. BlockJson(block, NodeJson) \in AnyJson
    BY <1>2, <1>5
  <2>2. Read[BlockJson(block, NodeJson)]["storedBlock"][q] = Good(block)
    BY <1>3, <1>4, <2>1, BlockBack
  <2> QED
    BY <1>2, <2>2
<1>6. block \in Fitting("storedBlock", h)
  BY <1>1, <1>5 DEF Fitting, ReadAs
<1> QED
  BY <1>4, <1>6

\* The map made of named results is settled, and one of their values.
LEMMA NameMapFits ==
  ASSUME NEW s, NEW X, NamedResults(s, X), Usable(NameMap(s))
  PROVE  \E t \in NamedIn(X) : NameMap(s) = Good(t) /\ Settled(t)
<1> DEFINE t == NameMap(s).value
<1>1. /\ Settled(t) /\ NameMap(s) = Good(t)
      /\ \A i \in 1..Len(t) : \E y \in ToSet(s) :
           Usable(y.result) /\ t[i].name = y.name /\ t[i].value = y.result.value
  BY NameMapSettles DEF NamedResults
<1> HIDE DEF t
<1>2. IsList(t) /\ \A i \in 1..Len(t) : t[i] = [name |-> t[i].name, value |-> t[i].value]
  BY <1>1 DEF Settled, IsNamed
<1>3. \A i \in 1..Len(t) : t[i].name \in STRING /\ t[i].value \in X
  BY <1>1 DEF NamedResults
<1>4. ToSet(t) \subseteq [name : STRING, value : X]
  <2>1. SUFFICES ASSUME NEW x \in ToSet(t) PROVE x \in [name : STRING, value : X]
    OBVIOUS
  <2>2. PICK i \in 1..Len(t) : x = t[i]
    BY <1>2, ListLen
  <2>3. t[i] = [name |-> t[i].name, value |-> t[i].value]
    BY <1>2
  <2> QED
    BY <1>3, <2>2, <2>3
<1>5. t \in NamedIn(X)
  BY <1>2, <1>4, ListIn DEF NamedIn
<1> QED
  BY <1>1, <1>5

\* The fields of an object fit, if what is inside it does.
LEMMA FieldFits ==
  ASSUME NEW j, NEW h, AllFit(j, h), NEW kind \in RawSeeds, NEW path \in Paths, NEW found,
         RawFields(found, kind, j, path), NEW key \in DOMAIN found, Usable(found[key])
  PROVE  h # 0 /\ Fits(Seeds[kind].fields[key], found[key], h - 1)
<1>1. /\ At(j, key) \in Children(j) /\ key \in DOMAIN Seeds[kind].fields
      /\ found[key] = Read[At(j, key)][Seeds[kind].fields[key]][PathBelow(kind, key, path)]
  BY DEF RawFields
<1>2. Seeds[kind].fields[key] \in RawKinds /\ PathBelow(kind, key, path) \in Paths
  BY <1>1, RawSeedKinds, PathsGrow
<1>3. h # 0 /\ Fit(At(j, key), h - 1)
  BY <1>1 DEF AllFit
<1> QED
  BY <1>1, <1>2, <1>3 DEF Fit

\* The maps in it are read whatever the problems in them.
LEMMA FieldRead ==
  ASSUME NEW j, NEW kind, NEW path, NEW found, RawFields(found, kind, j, path), NEW key \in DOMAIN found,
         Seeds[kind].fields[key] \in CarriedKinds
  PROVE  Usable(found[key])
<1>1. /\ found[key] = Read[At(j, key)][Seeds[kind].fields[key]][PathBelow(kind, key, path)]
      /\ found[key].error = <<>>
      /\ Meant(At(j, key), Seeds[kind].fields[key], PathBelow(kind, key, path))
  BY DEF RawFields
<1> QED
  BY <1>1 DEF Meant, Usable

\* Nothing is named, or all of it is of more.
LEMMA NamedResultsGrow ==
  ASSUME NEW X, NEW Y, X \subseteq Y
  PROVE  NamedResults(<<>>, X) /\ \A s : NamedResults(s, X) => NamedResults(s, Y)
BY ListEmpty DEF NamedResults

\* Schemas that fit, fit where they may nest deeper; none fit anywhere.
LEMMA SchemasFitMore ==
  ASSUME NEW h, NEW k, Fitting("storedBlock", h) \subseteq Fitting("storedBlock", k)
  PROVE  SchemasFit(<<>>, h) /\ \A s : SchemasFit(s, h) => SchemasFit(s, k)
<1>1. \A s : SchemasFit(s, h) => SchemasFit(s, k)
  BY NamedResultsGrow DEF SchemasFit
<1>2. <<>> = SortUnique(<<>>) /\ IsList(<<>>)
  BY ListEmpty, SortUniqueHolds
<1>3. \A X : NamedResults(<<>>, X)
  BY NamedResultsGrow
<1> QED
  BY <1>1, <1>2, <1>3 DEF SchemasFit

\* The attributes of an object, or its blocks.
LEMMA EntriesFit ==
  ASSUME NEW j, NEW h \in 0..MaxNesting, AllFit(j, h), NEW kind \in {"block", "nestedType"}, NEW path \in Paths,
         NEW found, RawFields(found, kind, j, path), NEW key \in DOMAIN Seeds[kind].fields,
         NEW part \in {"attributes", "blocks"}, Seeds[kind].fields[key] = part
  PROVE  LET s == Optional(found, key, <<>>) IN
         /\ part = "attributes" => NamedResults(s, AttributesOver(Inner("storedType", h)))
         /\ part = "blocks" => NamedResults(s, NestedOver(Inner("storedBlock", h)))
         /\ part = "attributes" /\ h # 0 => NamedResults(s, AttributesOver(Inner("storedType", h - 1)))
<1> DEFINE s == Optional(found, key, <<>>)
<1>1. CASE key \notin DOMAIN found
  <2>1. s = <<>>
    BY <1>1 DEF Optional
  <2> HIDE DEF s
  <2>2. \A X : NamedResults(<<>>, X)
    BY NamedResultsGrow
  <2> QED
    BY <2>1, <2>2 DEF s
<1>2. CASE key \in DOMAIN found
  <2>1. s = found[key].value
    BY <1>2 DEF Optional
  <2>2. Usable(found[key])
    BY <1>2, FieldRead DEF CarriedKinds
  <2>3. kind \in RawSeeds
    BY DEF RawSeeds
  <2>4. h # 0 /\ Fits(part, found[key], h - 1)
    BY <1>2, <2>2, <2>3, FieldFits
  <2>5. /\ part = "attributes" => NamedResults(s, AttributesOver(Inner("storedType", h - 1)))
        /\ part = "blocks" => NamedResults(s, NestedOver(Inner("storedBlock", h - 1)))
    BY <2>1, <2>4 DEF Fits
  <2> HIDE DEF s
  <2>6. AttributesOver(Inner("storedType", h - 1)) \subseteq AttributesOver(Inner("storedType", h))
    <3>1. Inner("storedType", h - 1) \subseteq Inner("storedType", h)
      BY <2>4, InnerGrows
    <3> QED
      BY <3>1 DEF AttributesOver
  <2>7. NestedOver(Inner("storedBlock", h - 1)) \subseteq NestedOver(Inner("storedBlock", h))
    <3>1. Inner("storedBlock", h - 1) \subseteq Inner("storedBlock", h)
      BY <2>4, InnerGrows
    <3> QED
      BY <3>1 DEF NestedOver
  <2>8. /\ part = "attributes" => NamedResults(s, AttributesOver(Inner("storedType", h)))
        /\ part = "blocks" => NamedResults(s, NestedOver(Inner("storedBlock", h)))
    BY <2>5, <2>6, <2>7, NamedResultsGrow
  <2> QED
    BY <2>5, <2>8 DEF s
<1> QED
  BY <1>1, <1>2

\* A schema fits.
LEMMA SchemaFits ==
  ASSUME NEW j, NEW h \in 0..MaxNesting, AllFit(j, h), NEW path \in Paths,
         NEW found, RawFields(found, "schema", j, path), Usable(Finished("schema", found, path))
  PROVE  Fits("schema", Finished("schema", found, path), h)
<1> DEFINE r == found["block"]
<1>1. Finished("schema", found, path) = r
  BY FinishedRaw
<1>2. Seeds["schema"] = SchemaSeed /\ "schema" \in RawSeeds
  BY DEF Seeds, RawSeeds
<1>3. "block" \in SchemaSeed.required /\ SchemaSeed.fields["block"] = "block"
  BY DEF SchemaSeed, Seed
<1>4. "block" \in DOMAIN found
  BY <1>2, <1>3 DEF RawFields
<1>5. h # 0 /\ Fits("block", r, h - 1)
  BY <1>1, <1>2, <1>3, <1>4, FieldFits
<1>6. r.value \in Fitting("storedBlock", h)
  BY <1>5, InnerGrows DEF Fits
<1> HIDE DEF r
<1> QED
  BY <1>1, <1>6 DEF Fits

\* A block fits.
LEMMA RawBlockFits ==
  ASSUME NEW j, NEW h \in 0..MaxNesting, AllFit(j, h), NEW path \in Paths,
         NEW found, RawFields(found, "block", j, path), Usable(Finished("block", found, path))
  PROVE  Fits("block", Finished("block", found, path), h)
<1> DEFINE s == Optional(found, "attributes", <<>>)
           t == Optional(found, "block_types", <<>>)
           a == NameMap(s)
           b == NameMap(t)
           r == Finished("block", found, path)
           whole(x, y) == [attributes |-> x, blocks |-> y]
<1>1. r = IF ~Usable(a) THEN a ELSE IF Usable(b) THEN Good(whole(a.value, b.value)) ELSE b
  <2>1. r = NormalizedBlock(s, t)
    BY FinishedRaw
  <2> HIDE DEF r
  <2> QED
    BY <2>1, Zenon DEF NormalizedBlock, Then
<1>2. /\ Seeds["block"] = BlockSeed /\ {"attributes", "block_types"} \subseteq DOMAIN BlockSeed.fields
      /\ BlockSeed.fields["attributes"] = "attributes" /\ BlockSeed.fields["block_types"] = "blocks"
  BY DEF Seeds, BlockSeed, Seed
<1>3. NamedResults(s, AttributesOver(Inner("storedType", h)))
  BY <1>2, EntriesFit
<1>4. NamedResults(t, NestedOver(Inner("storedBlock", h)))
  BY <1>2, EntriesFit
<1> HIDE DEF s, t
<1>5. Usable(a) /\ Usable(b) /\ r = Good(whole(a.value, b.value))
  <2> HIDE DEF a, b, whole
  <2> QED
    BY <1>1, Zenon
<1>6. PICK x \in NamedIn(AttributesOver(Inner("storedType", h))) : a = Good(x) /\ Settled(x)
  BY <1>3, <1>5, NameMapFits
<1>7. PICK y \in NamedIn(NestedOver(Inner("storedBlock", h))) : b = Good(y) /\ Settled(y)
  BY <1>4, <1>5, NameMapFits
<1>8. a.value = x /\ b.value = y
  BY <1>6, <1>7, ResultsAre
<1>9. r.value = [attributes |-> x, blocks |-> y]
  <2> HIDE DEF a, b, r
  <2>1. r = Good(whole(x, y))
    BY <1>5, <1>8, Zenon
  <2> HIDE DEF whole
  <2>2. r.value = whole(x, y)
    BY <2>1, ResultsAre
  <2> QED
    BY <2>2 DEF whole
<1>10. [attributes |-> x, blocks |-> y] \in Fitting("storedBlock", h)
  BY <1>6, <1>7, BlockFits
<1> HIDE DEF r
<1>11. r.value \in Fitting("storedBlock", h)
  BY <1>9, <1>10
<1>12. Fits("block", r, h)
  BY <1>11 DEF Fits
<1> QED
  BY <1>12 DEF r

\* An object of attributes fits one level above their types.
LEMMA ObjectFits ==
  ASSUME NEW h \in 0..MaxNesting, NEW s \in NamedIn(AttributesOver(Inner("storedType", h))), Settled(s)
  PROVE  Type("object", <<>>, s) \in Fitting("storedType", h)
<1> DEFINE t == Type("object", <<>>, s)
<1>1. t = [kind |-> "object", items |-> <<>>, fields |-> s]
  BY Zenon DEF Type
<1>2. t \in TypesOver(Inner("storedType", h)) /\ t.fields = s
  <2> HIDE DEF t
  <2> QED
    BY <1>1 DEF TypesOver
<1> HIDE DEF t
<1>3. t \in Fitting("storedType", h)
  BY <1>2, TypeFits
<1> QED
  BY <1>3 DEF t

\* A collection fits one level above its items.
LEMMA CollectionFits ==
  ASSUME NEW h \in 0..MaxNesting, NEW kind \in Collections, NEW item \in Inner("storedType", h)
  PROVE  Type(kind, <<item>>, <<>>) \in Fitting("storedType", h)
<1> DEFINE t == Type(kind, <<item>>, <<>>)
           o == <<item>>
<1>1. t = [kind |-> kind, items |-> o, fields |-> <<>>]
  BY Zenon DEF Type
<1>2. o \in [1..1 -> Inner("storedType", h)]
  <2>1. DOMAIN o = 1..1 /\ o[1] = item
    OBVIOUS
  <2>2. o = [i \in 1..1 |-> item] /\ 1..1 = {1}
    OBVIOUS
  <2> HIDE DEF o
  <2> QED
    BY <2>2
<1> HIDE DEF o
<1>3. t \in TypesOver(Inner("storedType", h)) /\ t.kind # "object"
  <2> HIDE DEF t
  <2> QED
    BY <1>1, <1>2 DEF TypesOver, Collections
<1> HIDE DEF t
<1>4. t \in Fitting("storedType", h)
  BY <1>3, TypeFits
<1> QED
  BY <1>4 DEF t, o

\* A nested type fits.
LEMMA NestedTypeFits ==
  ASSUME NEW j, NEW h \in 0..MaxNesting, AllFit(j, h), NEW path \in Paths,
         NEW found, RawFields(found, "nestedType", j, path), Usable(Finished("nestedType", found, path))
  PROVE  Finished("nestedType", found, path).value \in Fitting("storedType", h)
<1> DEFINE s == Optional(found, "attributes", <<>>)
           mode == found["nesting_mode"].value
           a == NameMap(s)
           m == NestingMode(mode, path)
           r == Finished("nestedType", found, path)
           object == Type("object", <<>>, a.value)
           whole(x) == InMode(x, object)
<1>1. r = IF ~Usable(a) THEN a ELSE IF Usable(m) THEN Good(whole(m.value)) ELSE m
  <2>1. r = NestedType(mode, s, path)
    BY FinishedRaw
  <2> HIDE DEF r
  <2> QED
    BY <2>1, Zenon DEF NestedType, Then
<1>2. /\ Seeds["nestedType"] = NestedTypeSeed /\ "nestedType" \in RawSeeds
      /\ "attributes" \in DOMAIN NestedTypeSeed.fields /\ NestedTypeSeed.fields["attributes"] = "attributes"
      /\ "nesting_mode" \in NestedTypeSeed.required /\ NestedTypeSeed.fields["nesting_mode"] = "text"
  BY DEF Seeds, NestedTypeSeed, Seed, RawSeeds
<1>3. h # 0
  <2>1. "nesting_mode" \in DOMAIN found
    BY <1>2 DEF RawFields
  <2>2. Usable(found["nesting_mode"])
    BY <1>2, <2>1, FieldRead DEF CarriedKinds, Scalars
  <2> QED
    BY <1>2, <2>1, <2>2, FieldFits
<1>4. NamedResults(s, AttributesOver(Inner("storedType", h - 1)))
  BY <1>2, <1>3, EntriesFit
<1> HIDE DEF s, mode
<1>5. Usable(a) /\ Usable(m) /\ r = Good(whole(m.value))
  <2> HIDE DEF a, m, whole
  <2> QED
    BY <1>1, Zenon
<1>6. mode \in Modes /\ m.value = mode
  <2>1. CASE mode \in Modes
    <3>1. m = Good(mode)
      BY <2>1, Zenon DEF NestingMode
    <3> QED
      BY <2>1, <3>1, ResultsAre
  <2>2. CASE mode \notin Modes
    <3>1. m = Wrong(path, "nesting_mode")
      BY <2>2, Zenon DEF NestingMode
    <3> HIDE DEF m
    <3> QED
      BY <1>5, <3>1, ResultsAre DEF Usable
  <2> QED
    BY <2>1, <2>2
<1>7. PICK x \in NamedIn(AttributesOver(Inner("storedType", h - 1))) : a = Good(x) /\ Settled(x)
  BY <1>4, <1>5, NameMapFits
<1>8. object \in Inner("storedType", h) /\ object \in Fitting("storedType", h)
  <2>1. h - 1 \in 0..MaxNesting /\ Inner("storedType", h) = Fitting("storedType", h - 1)
        /\ Inner("storedType", h) \subseteq Fitting("storedType", h)
    BY <1>3, InnerGrows
  <2>2. Type("object", <<>>, x) \in Fitting("storedType", h - 1)
    BY <1>7, <2>1, ObjectFits
  <2>3. a.value = x
    BY <1>7, ResultsAre
  <2> QED
    BY <2>1, <2>2, <2>3
<1>9. r.value = InMode(mode, object)
  <2> HIDE DEF r, a, m, object
  <2>1. r = Good(InMode(mode, object))
    BY <1>5, <1>6, Zenon
  <2> QED
    BY <2>1, ResultsAre
<1> HIDE DEF object, r
<1>10. InMode(mode, object) \in Fitting("storedType", h)
  <2>1. CASE mode \in {"single", "group"}
    BY <1>8, <2>1 DEF InMode
  <2>2. CASE mode \notin {"single", "group"}
    <3>1. mode \in Collections
      BY <1>6, <2>2 DEF Modes, Collections
    <3>2. InMode(mode, object) = Type(mode, <<object>>, <<>>)
      BY <2>2, Zenon DEF InMode
    <3> QED
      BY <1>8, <3>1, <3>2, CollectionFits
  <2> QED
    BY <2>1, <2>2
<1>11. r.value \in Fitting("storedType", h)
  BY <1>9, <1>10
<1> QED
  BY <1>11 DEF r

\* What may be left out has a default that fits as well.
LEMMA OptionalFits ==
  ASSUME NEW j, NEW h, AllFit(j, h), NEW kind \in RawSeeds, NEW path \in Paths, NEW found,
         RawFields(found, kind, j, path), NEW key \in DOMAIN Seeds[kind].fields
  PROVE  /\ Seeds[kind].fields[key] = "flag" => Optional(found, key, FALSE) \in BOOLEAN
         /\ Seeds[kind].fields[key] = "maybeCount" => Optional(found, key, <<>>) \in Counts
<1>1. CASE key \notin DOMAIN found
  <2>1. Optional(found, key, FALSE) = FALSE /\ Optional(found, key, <<>>) = <<>>
    BY <1>1, Zenon DEF Optional
  <2>2. FALSE \in BOOLEAN /\ <<>> \in Counts
    BY DEF Counts
  <2> QED
    BY <2>1, <2>2, Zenon
<1>2. CASE key \in DOMAIN found
  <2>1. Optional(found, key, FALSE) = found[key].value /\ Optional(found, key, <<>>) = found[key].value
    BY <1>2, Zenon DEF Optional
  <2>2. ASSUME Seeds[kind].fields[key] \in {"flag", "maybeCount"}
        PROVE  Fits(Seeds[kind].fields[key], found[key], h - 1)
    <3>1. Usable(found[key])
      BY <1>2, <2>2, FieldRead DEF CarriedKinds, Scalars
    <3> QED
      BY <1>2, <3>1, FieldFits
  <2>3. ASSUME Seeds[kind].fields[key] = "flag" PROVE found[key].value \in BOOLEAN
    BY <2>2, <2>3 DEF Fits
  <2>4. ASSUME Seeds[kind].fields[key] = "maybeCount" PROVE found[key].value \in Counts
    BY <2>2, <2>4 DEF Fits
  <2> QED
    BY <2>1, <2>3, <2>4, Zenon
<1> QED
  BY <1>1, <1>2

\* A nested block fits.
LEMMA NestedBlockFits ==
  ASSUME NEW j, NEW h \in 0..MaxNesting, AllFit(j, h), NEW path \in Paths,
         NEW found, RawFields(found, "nestedBlock", j, path), Usable(Finished("nestedBlock", found, path))
  PROVE  Finished("nestedBlock", found, path).value \in NestedOver(Inner("storedBlock", h))
<1> DEFINE mode == found["nesting_mode"].value
           m == NestingMode(mode, path)
           b == found["block"]
           r == Finished("nestedBlock", found, path)
           least == Optional(found, "min_items", <<>>)
           most == Optional(found, "max_items", <<>>)
           whole(x, y) == NestedBlock(found, x, y)
<1>1. r = IF ~Usable(m) THEN m ELSE IF Usable(b) THEN Good(whole(m.value, b.value)) ELSE b
  <2>1. r = FinishedNestedBlock(found, path)
    BY FinishedRaw
  <2> HIDE DEF r
  <2> QED
    BY <2>1, Zenon DEF FinishedNestedBlock, Then
<1>2. /\ Seeds["nestedBlock"] = NestedBlockSeed /\ "nestedBlock" \in RawSeeds
      /\ {"min_items", "max_items"} \subseteq DOMAIN NestedBlockSeed.fields
      /\ NestedBlockSeed.fields["min_items"] = "maybeCount" /\ NestedBlockSeed.fields["max_items"] = "maybeCount"
      /\ "block" \in NestedBlockSeed.required /\ NestedBlockSeed.fields["block"] = "block"
  BY DEF Seeds, NestedBlockSeed, Seed, RawSeeds
<1>3. least \in Counts /\ most \in Counts
  BY <1>2, OptionalFits
<1>4. Usable(m) /\ Usable(b) /\ r = Good(whole(m.value, b.value))
  <2> HIDE DEF m, b, whole
  <2> QED
    BY <1>1, Zenon
<1>5. b.value \in Inner("storedBlock", h)
  <2>1. "block" \in DOMAIN found
    BY <1>2 DEF RawFields
  <2>2. h # 0 /\ Fits("block", b, h - 1)
    BY <1>2, <1>4, <2>1, FieldFits
  <2> HIDE DEF b
  <2>3. b.value \in Fitting("storedBlock", h - 1)
    BY <2>2 DEF Fits
  <2> QED
    BY <2>2, <2>3, InnerGrows
<1> HIDE DEF mode
<1>6. mode \in Modes /\ m.value = mode
  <2>1. CASE mode \in Modes
    <3>1. m = Good(mode)
      BY <2>1, Zenon DEF NestingMode
    <3> QED
      BY <2>1, <3>1, ResultsAre
  <2>2. CASE mode \notin Modes
    <3>1. m = Wrong(path, "nesting_mode")
      BY <2>2, Zenon DEF NestingMode
    <3> HIDE DEF m
    <3> QED
      BY <1>4, <3>1, ResultsAre DEF Usable
  <2> QED
    BY <2>1, <2>2
<1>7. whole(mode, b.value) = [nesting_mode |-> mode, min_items |-> least, max_items |-> most, block |-> b.value]
  BY Zenon DEF NestedBlock
<1>8. r.value = whole(mode, b.value)
  <2> HIDE DEF r, b, m, whole
  <2>1. r = Good(whole(mode, b.value))
    BY <1>4, <1>6, Zenon
  <2> QED
    BY <2>1, ResultsAre
<1> HIDE DEF r, b, m, whole, least, most
<1>9. r.value \in NestedOver(Inner("storedBlock", h))
  BY <1>3, <1>5, <1>6, <1>7, <1>8 DEF NestedOver
<1> QED
  BY <1>9 DEF r

\* An attribute fits.
LEMMA AttributeFits ==
  ASSUME NEW j, NEW h \in 0..MaxNesting, AllFit(j, h), NEW path \in Paths,
         NEW found, RawFields(found, "attribute", j, path), Usable(Finished("attribute", found, path))
  PROVE  Finished("attribute", found, path).value \in AttributesOver(Inner("storedType", h))
<1> DEFINE type == IF GivenIn(found, "type") THEN found["type"]
                   ELSE IF GivenIn(found, "nested_type") THEN found["nested_type"]
                   ELSE Wrong(path, "missing_type")
           r == Finished("attribute", found, path)
           whole(t) == NormalizedAttribute(t[1], found)
           required == Optional(found, "required", FALSE)
           optional == Optional(found, "optional", FALSE)
           computed == Optional(found, "computed", FALSE)
<1>1. r = IF Usable(type) THEN Good(whole(type.value)) ELSE type
  <2>1. r = FinishedAttribute(found, path)
    BY FinishedRaw
  <2> HIDE DEF r
  <2> QED
    BY <2>1, Zenon DEF FinishedAttribute, Then, GivenIn
<1>2. /\ Seeds["attribute"] = AttributeSeed /\ "attribute" \in RawSeeds
      /\ {"required", "optional", "computed"} \subseteq DOMAIN AttributeSeed.fields
      /\ AttributeSeed.fields["required"] = "flag" /\ AttributeSeed.fields["optional"] = "flag"
      /\ AttributeSeed.fields["computed"] = "flag"
      /\ AttributeSeed.fields["type"] = "maybeType" /\ AttributeSeed.fields["nested_type"] = "maybeNestedType"
  BY DEF Seeds, AttributeSeed, Seed, RawSeeds
<1>3. required \in BOOLEAN /\ optional \in BOOLEAN /\ computed \in BOOLEAN
  BY <1>2, OptionalFits
<1>4. Usable(type) /\ r = Good(whole(type.value))
  <2> HIDE DEF type, whole
  <2> QED
    BY <1>1, Zenon
<1>5. \E key \in {"type", "nested_type"} : GivenIn(found, key) /\ type = found[key]
  <2>1. ~Usable(Wrong(path, "missing_type"))
    BY ResultsAre DEF Usable
  <2>2. type # Wrong(path, "missing_type")
    <3> HIDE DEF type
    <3> QED
      BY <1>4, <2>1
  <2> QED
    BY <2>2
<1>6. PICK key \in {"type", "nested_type"} : GivenIn(found, key) /\ type = found[key]
  BY <1>5
<1> HIDE DEF type
<1>7. h # 0 /\ Fits(AttributeSeed.fields[key], found[key], h - 1)
  BY <1>2, <1>4, <1>6, FieldFits DEF GivenIn
<1>8. PICK t \in Fitting("storedType", h - 1) : type = Good(<<t>>)
  BY <1>2, <1>6, <1>7 DEF Fits, GivenIn
<1>9. t \in Inner("storedType", h)
  BY <1>7, InnerGrows
<1>10. type.value[1] = t
  <2>1. type.value = <<t>>
    BY <1>8, ResultsAre
  <2> QED
    BY <2>1
<1>11. r.value = [type |-> t, required |-> required, optional |-> optional, computed |-> computed]
  <2>1. whole(type.value) = [type |-> t, required |-> required, optional |-> optional, computed |-> computed]
    BY <1>10, Zenon DEF NormalizedAttribute
  <2> HIDE DEF r, whole, required, optional, computed
  <2> QED
    BY <1>4, <2>1, ResultsAre
<1> HIDE DEF r, required, optional, computed
<1>12. r.value \in AttributesOver(Inner("storedType", h))
  BY <1>3, <1>9, <1>11 DEF AttributesOver
<1> QED
  BY <1>12 DEF r

\* A provider fits.
LEMMA RawProviderFits ==
  ASSUME NEW j, NEW h \in 0..MaxNesting, AllFit(j, h), NEW path \in Paths,
         NEW found, RawFields(found, "provider", j, path)
  PROVE  ProviderFits(Finished("provider", found, path).value, h)
<1> DEFINE config == found["provider"]
           resources == Optional(found, "resource_schemas", <<>>)
           data == Optional(found, "data_source_schemas", <<>>)
           value == [config |-> config, resources |-> resources, data_sources |-> data]
           r == Finished("provider", found, path)
<1>1. r.value = value
  <2>1. r = FinishedProvider(found)
    BY FinishedRaw
  <2>2. FinishedProvider(found) = Good(value)
    BY Zenon DEF FinishedProvider
  <2> HIDE DEF r, value
  <2> QED
    BY <2>1, <2>2, ResultsAre
<1>2. /\ Seeds["provider"] = ProviderSeed /\ "provider" \in RawSeeds
      /\ "provider" \in ProviderSeed.required /\ ProviderSeed.fields["provider"] = "schema"
      /\ ProviderSeed.fields["resource_schemas"] = "schemas"
      /\ ProviderSeed.fields["data_source_schemas"] = "schemas"
  BY DEF Seeds, ProviderSeed, Seed, RawSeeds
<1>3. Usable(config) => config.value \in Fitting("storedBlock", h)
  <2>1. SUFFICES ASSUME Usable(config) PROVE config.value \in Fitting("storedBlock", h)
    OBVIOUS
  <2>2. "provider" \in DOMAIN found
    BY <1>2 DEF RawFields
  <2>3. h # 0 /\ Fits("schema", config, h - 1)
    BY <1>2, <2>1, <2>2, FieldFits
  <2> HIDE DEF config
  <2>4. config.value \in Fitting("storedBlock", h - 1)
    BY <2>3 DEF Fits
  <2> QED
    BY <2>3, <2>4, InnerGrows
<1>4. ASSUME NEW key \in {"resource_schemas", "data_source_schemas"}
      PROVE  SchemasFit(Optional(found, key, <<>>), h)
  <2>1. CASE key \notin DOMAIN found
    <3>1. Optional(found, key, <<>>) = <<>>
      BY <2>1, Zenon DEF Optional
    <3>2. SchemasFit(<<>>, h)
      BY SchemasFitMore
    <3> QED
      BY <3>1, <3>2
  <2>2. CASE key \in DOMAIN found
    <3>1. Optional(found, key, <<>>) = found[key].value
      BY <2>2, Zenon DEF Optional
    <3>2. Seeds["provider"].fields[key] = "schemas"
      BY <1>2
    <3>3. Usable(found[key])
      BY <2>2, <3>2, FieldRead DEF CarriedKinds
    <3>4. h # 0 /\ Fits("schemas", found[key], h - 1)
      BY <1>2, <2>2, <3>2, <3>3, FieldFits
    <3>5. SchemasFit(found[key].value, h - 1)
      BY <3>4 DEF Fits
    <3>6. Fitting("storedBlock", h - 1) \subseteq Fitting("storedBlock", h)
      BY <3>4, InnerGrows
    <3> QED
      BY <3>1, <3>5, <3>6, SchemasFitMore
  <2> QED
    BY <2>1, <2>2
<1>5. value.config = config /\ value.resources = resources /\ value.data_sources = data
  OBVIOUS
<1>6. SchemasFit(resources, h) /\ SchemasFit(data, h)
  BY <1>4
<1> HIDE DEF value, config, resources, data
<1>7. ProviderFits(value, h)
  BY <1>3, <1>5, <1>6 DEF ProviderFits
<1> QED
  BY <1>1, <1>7

\* What fits fits where more may be inside.
LEMMA InsideFits ==
  ASSUME NEW h \in 0..MaxNesting, h # 0
  PROVE  /\ AttributesOver(Inner("storedType", h - 1)) \subseteq AttributesOver(Inner("storedType", h))
         /\ NestedOver(Inner("storedBlock", h - 1)) \subseteq NestedOver(Inner("storedBlock", h))
         /\ Fitting("storedType", h - 1) = Inner("storedType", h)
         /\ Fitting("storedType", h - 1) \subseteq Fitting("storedType", h)
         /\ Fitting("storedBlock", h - 1) \subseteq Fitting("storedBlock", h)
         /\ \A value : ProviderFits(value, h - 1) => ProviderFits(value, h)
<1>1. /\ Inner("storedType", h - 1) \subseteq Inner("storedType", h)
      /\ Fitting("storedType", h - 1) = Inner("storedType", h)
      /\ Fitting("storedType", h - 1) \subseteq Fitting("storedType", h)
  BY InnerGrows
<1>2. /\ Inner("storedBlock", h - 1) \subseteq Inner("storedBlock", h)
      /\ Fitting("storedBlock", h - 1) \subseteq Fitting("storedBlock", h)
  BY InnerGrows
<1>3. AttributesOver(Inner("storedType", h - 1)) \subseteq AttributesOver(Inner("storedType", h))
  BY <1>1 DEF AttributesOver
<1>4. NestedOver(Inner("storedBlock", h - 1)) \subseteq NestedOver(Inner("storedBlock", h))
  BY <1>2 DEF NestedOver
<1>5. \A s : SchemasFit(s, h - 1) => SchemasFit(s, h)
  BY <1>2, SchemasFitMore
<1>6. \A value : ProviderFits(value, h - 1) => ProviderFits(value, h)
  BY <1>2, <1>5 DEF ProviderFits
<1> QED
  BY <1>1, <1>2, <1>3, <1>4, <1>6

\* The maps fit, if what is inside them does.
LEMMA MapsFit ==
  ASSUME NEW j \in AnyJson, NEW h \in 0..MaxNesting, AllFit(j, h), NEW kind \in RawMaps, NEW path \in Paths,
         Usable(Read[j][kind][path])
  PROVE  Fits(kind, Read[j][kind][path], h)
<1> DEFINE r == Read[j][kind][path]
           sub == MapSeeds[kind]
<1>1. \A c \in Children(j) : Held(c)
  BY ReadingTells, EntryAt
<1>2. WellFormed[j][kind]
  BY <1>1, RawMapRead DEF Usable
<1>3. PICK s : RawEntries(s, kind, j, path) /\ r = FinishedMap(kind, s)
  BY <1>1, <1>2, RawMapRead DEF ReadsMap
<1>4. IsList(s) /\ \A y \in ToSet(s) : /\ h # 0 /\ y.name \in STRING
                                       /\ Usable(y.result) => Fits(sub, y.result, h - 1)
                                       /\ sub = "provider" => Usable(y.result)
  <2>1. IsList(s)
    BY <1>3 DEF RawEntries, NamedAs
  <2>2. SUFFICES ASSUME NEW y \in ToSet(s)
                 PROVE  /\ h # 0 /\ y.name \in STRING
                        /\ Usable(y.result) => Fits(sub, y.result, h - 1)
                        /\ sub = "provider" => Usable(y.result)
    BY <2>1
  <2>3. PICK i \in DOMAIN s : y = s[i]
    BY DEF ToSet
  <2> DEFINE c == j.entries[i].value
             q == PathOfEntry(kind, j.entries[i].key, path)
  <2>4. i \in 1..Len(j.entries) /\ c \in Children(j) /\ j.entries[i].key \in STRING
    BY <1>3, <2>3, EntryAt DEF RawEntries, NamedAs
  <2>5. q \in Paths /\ sub \in RawKinds
    <3>1. q \in Paths
      BY <2>4, PathsGrow
    <3>2. sub \in RawKinds
      BY DEF RawMaps, MapSeeds, RawKinds, NodeKinds
    <3> QED
      BY <3>1, <3>2
  <2>6. /\ y.name = j.entries[i].key /\ y.result = Read[c][sub][q]
        /\ y.result.error = <<>> /\ WellFormed[c][sub]
    BY <1>3, <2>3 DEF RawEntries, NamedAs
  <2>7. h # 0 /\ Fit(c, h - 1)
    BY <2>4 DEF AllFit
  <2> HIDE DEF c, q, sub
  <2>8. Usable(y.result) => Fits(sub, y.result, h - 1)
    BY <2>5, <2>6, <2>7 DEF Fit
  <2>9. HoldsOf(c, sub, q)
    <3>1. Held(c)
      BY <1>1, <2>4 DEF c
    <3> QED
      BY <2>5, <3>1, ChildHeld
  <2>10. sub = "provider" => Usable(y.result)
    BY <2>6, <2>9 DEF HoldsOf, Meant, CarriedKinds, Usable
  <2> QED
    BY <2>4, <2>6, <2>7, <2>8, <2>10
<1> SUFFICES Fits(kind, r, h)
  OBVIOUS
<1>5. CASE kind = "attributes"
  <2>1. r.value = s /\ sub = "attribute"
    BY <1>3, <1>5, FinishedMaps, ResultsAre DEF MapSeeds
  <2>2. NamedResults(s, AttributesOver(Inner("storedType", h)))
    <3>1. \A y \in ToSet(s) : Usable(y.result) => y.result.value \in AttributesOver(Inner("storedType", h - 1))
      BY <1>4, <2>1 DEF Fits
    <3> QED
      BY <1>4, <3>1, InsideFits DEF NamedResults
  <2> HIDE DEF r
  <2> QED
    BY <1>5, <2>1, <2>2 DEF Fits
<1>6. CASE kind = "blocks"
  <2>1. r.value = s /\ sub = "nestedBlock"
    BY <1>3, <1>6, FinishedMaps, ResultsAre DEF MapSeeds
  <2>2. NamedResults(s, NestedOver(Inner("storedBlock", h)))
    <3>1. \A y \in ToSet(s) : Usable(y.result) => y.result.value \in NestedOver(Inner("storedBlock", h - 1))
      BY <1>4, <2>1 DEF Fits
    <3> QED
      BY <1>4, <3>1, InsideFits DEF NamedResults
  <2> HIDE DEF r
  <2> QED
    BY <1>6, <2>1, <2>2 DEF Fits
<1>7. CASE kind = "schemas"
  <2>1. r.value = SortUnique(s) /\ sub = "schema"
    BY <1>3, <1>7, FinishedMaps, ResultsAre DEF MapSeeds
  <2>2. IsList(SortUnique(s)) /\ ToSet(SortUnique(s)) \subseteq ToSet(s)
    BY <1>4, SortUniqueHolds
  <2>3. SchemasFit(SortUnique(s), h)
    <3>1. \A y \in ToSet(s) : Usable(y.result) => y.result.value \in Fitting("storedBlock", h - 1)
      BY <1>4, <2>1 DEF Fits
    <3> QED
      BY <1>4, <2>2, <3>1, InsideFits DEF NamedResults, SchemasFit
  <2> HIDE DEF r
  <2> QED
    BY <1>7, <2>1, <2>3 DEF Fits
<1>8. CASE kind = "providers"
  <2>1. r.value = SortUniqueBy(Matching, s) /\ sub = "provider"
    BY <1>3, <1>8, FinishedMaps, ResultsAre DEF MapSeeds
  <2>2. IsList(SortUniqueBy(Matching, s)) /\ ToSet(SortUniqueBy(Matching, s)) \subseteq ToSet(s)
    BY <1>4, OrderAssumption, ListOf, SortedHolds
  <2>3. \A y \in ToSet(s) : Usable(y.result) /\ ProviderFits(y.result.value, h)
    <3>1. \A y \in ToSet(s) : Usable(y.result) /\ ProviderFits(y.result.value, h - 1) /\ h # 0
      BY <1>4, <2>1 DEF Fits
    <3> QED
      BY <3>1, InsideFits
  <2> HIDE DEF r
  <2> QED
    BY <1>8, <2>1, <2>2, <2>3 DEF Fits
<1> QED
  BY <1>5, <1>6, <1>7, <1>8 DEF RawMaps

\* The objects fit, if what is inside them does.
LEMMA SeedsFit ==
  ASSUME NEW j \in AnyJson, NEW h \in 0..MaxNesting, AllFit(j, h), NEW kind \in RawSeeds, NEW path \in Paths,
         Usable(Read[j][kind][path])
  PROVE  Fits(kind, Read[j][kind][path], h)
<1> DEFINE r == Read[j][kind][path]
<1>1. \A c \in Children(j) : Held(c)
  BY ReadingTells, EntryAt
<1>2. /\ r = ReadFields(kind, j, path, Below(j))
      /\ WellFormed[j][kind] <=> HasFields(Seeds[kind], j, FormedBelow(j))
  BY RawNodes
<1>3. HasFields(Seeds[kind], j, FormedBelow(j))
  BY <1>1, <1>2, RawFieldsRead DEF Usable
<1>4. PICK found : RawFields(found, kind, j, path) /\ r = Finished(kind, found, path)
  BY <1>1, <1>2, <1>3, RawFieldsRead DEF ReadsFields
<1>5. Usable(Finished(kind, found, path))
  BY <1>4
<1> SUFFICES Fits(kind, r, h)
  OBVIOUS
<1> HIDE DEF r
<1>6. CASE kind = "document"
  BY <1>6 DEF Fits
<1>7. CASE kind = "provider"
  BY <1>4, <1>7, RawProviderFits DEF Fits
<1>8. CASE kind = "schema"
  BY <1>4, <1>5, <1>8, SchemaFits
<1>9. CASE kind = "block"
  BY <1>4, <1>5, <1>9, RawBlockFits
<1>10. CASE kind = "attribute"
  BY <1>4, <1>5, <1>10, AttributeFits DEF Fits
<1>11. CASE kind = "nestedType"
  BY <1>4, <1>5, <1>11, NestedTypeFits DEF Fits
<1>12. CASE kind = "nestedBlock"
  BY <1>4, <1>5, <1>12, NestedBlockFits DEF Fits
<1> QED
  BY <1>6, <1>7, <1>8, <1>9, <1>10, <1>11, <1>12 DEF RawSeeds

\* Scalars fit.
LEMMA ScalarsFit ==
  ASSUME NEW j \in AnyJson, NEW h, NEW kind \in {"text", "flag", "maybeText", "maybeCount"}, NEW path \in Paths,
         Usable(Read[j][kind][path])
  PROVE  Fits(kind, Read[j][kind][path], h)
<1> DEFINE r == ReadScalar(kind, j)
<1>1. Read[j][kind][path] = r
  BY RawNodes
<1>2. Bad("invalid_type").error # <<>>
  BY ResultsAre
<1>3. j.number \in Nat
  BY JsonNode DEF IsJson
<1>4. CASE kind = "flag"
  <2>1. r = Good(j.text = "true") \/ r = Bad("invalid_type")
    BY <1>4 DEF ReadScalar
  <2> DEFINE b == j.text = "true"
  <2>2. b \in BOOLEAN
    OBVIOUS
  <2> HIDE DEF r
  <2>3. r = Good(b)
    BY <1>1, <1>2, <2>1 DEF Usable
  <2> HIDE DEF b
  <2>4. r.value = b
    BY <2>3, ResultsAre
  <2>5. r.value \in BOOLEAN
    BY <2>2, <2>4
  <2> QED
    BY <1>1, <1>4, <2>5 DEF Fits
<1>5. CASE kind = "maybeCount"
  <2>1. r = Good(<<>>) \/ r = Good(<<j.number>>) \/ r = Bad("invalid_type")
    BY <1>5 DEF ReadScalar
  <2> HIDE DEF r
  <2>2. r = Good(<<>>) \/ r = Good(<<j.number>>)
    BY <1>1, <1>2, <2>1 DEF Usable
  <2>3. r.value = <<>> \/ r.value = <<j.number>>
    BY <2>2, ResultsAre
  <2>4. <<>> \in Counts /\ <<j.number>> \in Counts
    <3> DEFINE o == <<j.number>>
    <3>1. o = [i \in 1..1 |-> j.number]
      <4>1. DOMAIN o = 1..1 /\ o[1] = j.number
        OBVIOUS
      <4>2. o = [i \in 1..1 |-> j.number] /\ 1..1 = {1}
        OBVIOUS
      <4> QED
        BY <4>2
    <3> HIDE DEF o
    <3>2. o \in [1..1 -> Nat]
      BY <1>3, <3>1
    <3> QED
      BY <3>2 DEF o, Counts
  <2>5. r.value \in Counts
    BY <2>3, <2>4
  <2> QED
    BY <1>1, <1>5, <2>5 DEF Fits
<1>6. CASE kind \in {"text", "maybeText"}
  BY <1>6 DEF Fits
<1> QED
  BY <1>4, <1>5, <1>6

\* Results without a problem are the values of all of them.
LEMMA FirstProblemValues ==
  ASSUME NEW u, IsList(u), Usable(FirstProblem(u)), NEW s, s = FirstProblem(u).value
  PROVE  /\ FirstProblem(u) = Good(s) /\ IsNamed(s) /\ Len(s) = Len(u)
         /\ \A i \in 1..Len(s) : /\ Usable(u[i].result)
                                 /\ s[i].name = u[i].name /\ s[i].value = u[i].result.value
<1> DEFINE wrong == {i \in DOMAIN u : ~Usable(u[i].result)}
<1>1. Len(u) \in Nat /\ DOMAIN u = 1..Len(u)
  BY ListLen
<1>2. FirstProblem(u) = IF wrong # {} THEN u[Min(wrong)].result
                        ELSE Good([i \in DOMAIN u |-> [name |-> u[i].name, value |-> u[i].result.value]])
  BY Zenon DEF FirstProblem
<1>3. wrong = {}
  <2>1. SUFFICES ASSUME wrong # {} PROVE FALSE
    OBVIOUS
  <2>2. wrong \in SUBSET Nat
    BY <1>1
  <2>3. Min(wrong) \in wrong
    <3> HIDE DEF wrong
    <3> QED
      BY <2>1, <2>2, FirstPlace
  <2> QED
    BY <1>2, <2>1, <2>3
<1>4. /\ FirstProblem(u) = Good(s)
      /\ s = [i \in 1..Len(u) |-> [name |-> u[i].name, value |-> u[i].result.value]]
  BY <1>1, <1>2, <1>3, ResultsAre
<1>5. \A i \in 1..Len(u) : Usable(u[i].result)
  BY <1>1, <1>3
<1>6. s = [i \in 1..Len(u) |-> s[i]] /\ \A i \in 1..Len(u) : s[i] = [name |-> u[i].name, value |-> u[i].result.value]
  BY <1>4
<1>7. IsList(s) /\ Len(s) = Len(u)
  BY <1>1, <1>6, ListMade
<1>8. ASSUME NEW i \in 1..Len(s)
      PROVE  /\ s[i].name = u[i].name /\ s[i].value = u[i].result.value
             /\ s[i] = [name |-> s[i].name, value |-> s[i].value]
  <2>1. s[i] = [name |-> u[i].name, value |-> u[i].result.value]
    BY <1>6, <1>7
  <2> QED
    BY <2>1
<1> QED
  BY <1>4, <1>5, <1>7, <1>8 DEF IsNamed

\* Merging repeated keys leaves some of the entries.
LEMMA MergedHolds ==
  ASSUME NEW s, IsList(s)
  PROVE  IsList(MergeRepeated(s)) /\ ToSet(MergeRepeated(s)) \subseteq ToSet(s)
<1> DEFINE K == {i \in DOMAIN s : ~\E j \in 1..(i - 1) : s[j].name = s[i].name}
           x == [i \in DOMAIN s |-> LastOf(s, s[i].name)]
           ss == [i \in DOMAIN s |-> IF \E j \in 1..(i - 1) : s[j].name = s[i].name THEN <<>>
                                     ELSE <<LastOf(s, s[i].name)>>]
<1>1. Len(s) \in Nat /\ DOMAIN s = 1..Len(s)
  BY ListLen
<1>2. IsList(ss) /\ DOMAIN ss = DOMAIN s
  <2>1. ss = [i \in 1..Len(s) |-> ss[i]] /\ DOMAIN ss = DOMAIN s
    BY <1>1
  <2> HIDE DEF ss
  <2> QED
    BY <1>1, <2>1, ListMade
<1>3. Chosen(ss, K, x)
  BY DEF Chosen
<1>4. Holding(FlattenSeq(ss), DOMAIN ss, K, x)
  <2> HIDE DEF ss, x, K
  <2> QED
    BY <1>2, <1>3, FlatSome
<1>5. \A i \in DOMAIN s : x[i] \in ToSet(s)
  <2>1. SUFFICES ASSUME NEW i \in DOMAIN s PROVE LastOf(s, s[i].name) \in ToSet(s)
    OBVIOUS
  <2>2. Named(s, s[i].name) # {}
    BY DEF Named
  <2> QED
    BY <2>2, LastNamed
<1>6. MergeRepeated(s) = FlattenSeq(ss)
  BY Zenon DEF MergeRepeated
<1> HIDE DEF ss, x, K
<1> QED
  BY <1>2, <1>4, <1>5, <1>6 DEF Holding

\* What is built has no problem.
LEMMA NoWrong ==
  \A path, what : ~Usable(Wrong(path, what))
BY ResultsAre DEF Usable

\* A type fits, if what is inside it does.
LEMMA TypesFit ==
  ASSUME NEW j \in AnyJson, NEW h \in 0..MaxNesting, AllFit(j, h), NEW path \in Paths,
         Usable(ReadType(j, path, Below(j)))
  PROVE  ReadType(j, path, Below(j)).value \in Fitting("storedType", h)
<1> DEFINE r == ReadType(j, path, Below(j))
           constructor == j.items[1].text
           of(kind) == Below(j)[j.items[2]][kind][path]
           more == j.is # "string" /\ j.is = "array" /\ j.items # <<>> /\ j.items[1].is = "string" /\ Len(j.items) # 1
           whole(item) == Type(constructor, <<item>>, <<>>)
           built == IF constructor \in Collections
                      THEN IF Usable(of("type")) THEN Good(whole(of("type").value)) ELSE of("type")
                    ELSE IF constructor = "object" THEN of("objectType")
                    ELSE IF constructor = "tuple" THEN of("tupleType")
                    ELSE Wrong(path, "unknown_constructor")
<1>1. r = IF j.is = "string"
            THEN IF j.text \in Primitives THEN Good(Type(j.text, <<>>, <<>>))
                 ELSE Wrong(path, "unknown_primitive")
          ELSE IF j.is # "array" THEN Wrong(path, "expected_array")
          ELSE IF j.items = <<>> THEN Wrong(path, "missing_constructor")
          ELSE IF j.items[1].is # "string" THEN Wrong(path, "missing_constructor")
          ELSE IF Len(j.items) = 1 THEN Wrong(path, "missing_constructor_parameter")
          ELSE built
  BY Zenon DEF ReadType, Then
<1>2. Usable(r)
  OBVIOUS
<1> SUFFICES r.value \in Fitting("storedType", h)
  OBVIOUS
<1> HIDE DEF r
<1>3. \/ j.is = "string" /\ j.text \in Primitives /\ r = Good(Type(j.text, <<>>, <<>>))
      \/ more /\ r = built
  <2> HIDE DEF built
  <2> QED
    BY <1>1, <1>2, NoWrong
<1>4. ASSUME j.text \in Primitives, r = Good(Type(j.text, <<>>, <<>>))
      PROVE  r.value \in Fitting("storedType", h)
  <2> DEFINE t == Type(j.text, <<>>, <<>>)
  <2>1. t = [kind |-> j.text, items |-> <<>>, fields |-> <<>>]
    BY Zenon DEF Type
  <2>2. r.value = t
    BY <1>4, ResultsAre
  <2> HIDE DEF t
  <2>3. t \in TypesOver(Inner("storedType", h)) /\ t.kind # "object"
    BY <1>4, <2>1 DEF TypesOver, Primitives
  <2>4. t \in Fitting("storedType", h)
    BY <2>3, TypeFits
  <2> QED
    BY <2>2, <2>4
<1>5. ASSUME more, r = built
      PROVE  r.value \in Fitting("storedType", h)
  <2> DEFINE c == j.items[2]
  <2>1. c \in Children(j)
    <3> DEFINE n == Len(j.items)
    <3>1. n \in Nat /\ n # 0
      <4>1. IsList(j.items)
        BY JsonNode DEF IsJson
      <4>2. \E x : x \in ToSet(j.items)
        BY <1>5, <4>1, ListEmpty
      <4>3. \E i \in 1..Len(j.items) : TRUE
        BY <4>1, <4>2, ListLen
      <4> QED
        BY <4>3, EntryAt
    <3>2. n # 1
      BY <1>5
    <3> HIDE DEF n
    <3>3. 2 \in 1..n
      BY <3>1, <3>2
    <3> QED
      BY <3>3, EntryAt DEF n
  <2>2. Below(j)[c] = Read[c]
    BY <2>1, BelowIs
  <2>3. h # 0 /\ Fit(c, h - 1)
    BY <2>1 DEF AllFit
  <2>4. \A kind : of(kind) = Read[c][kind][path]
    BY <2>2
  <2>5. ASSUME NEW kind \in TypeLike, Usable(of(kind))
        PROVE  of(kind).value \in Fitting("storedType", h - 1)
    <3>1. kind \in RawKinds
      BY DEF TypeLike, RawKinds, NodeKinds
    <3>2. Usable(Read[c][kind][path])
      BY <2>4, <2>5
    <3>3. Fits(kind, Read[c][kind][path], h - 1)
      BY <2>3, <3>1, <3>2 DEF Fit
    <3>4. Read[c][kind][path].value \in Fitting("storedType", h - 1)
      BY <3>3 DEF Fits, TypeLike
    <3> QED
      BY <2>4, <3>4
  <2> HIDE DEF of, c, more, whole, constructor
  <2>6. CASE constructor \in Collections
    <3>1. r = IF Usable(of("type")) THEN Good(whole(of("type").value)) ELSE of("type")
      BY <1>5, <2>6, Zenon
    <3>2. Usable(of("type")) /\ r = Good(whole(of("type").value))
      BY <1>2, <3>1
    <3>3. of("type").value \in Inner("storedType", h)
      BY <2>3, <2>5, <3>2, InsideFits DEF TypeLike
    <3>4. r.value = Type(constructor, <<of("type").value>>, <<>>)
      BY <3>2, ResultsAre DEF whole
    <3> DEFINE item == of("type").value
    <3> HIDE DEF item
    <3>5. Type(constructor, <<item>>, <<>>) \in Fitting("storedType", h)
      BY <2>6, <3>3, CollectionFits DEF item
    <3> QED
      BY <3>4, <3>5 DEF item
  <2>7. CASE constructor \notin Collections
    <3>1. r = of("objectType") \/ r = of("tupleType") \/ r = Wrong(path, "unknown_constructor")
      BY <1>5, <2>7, Zenon
    <3>2. r = of("objectType") \/ r = of("tupleType")
      BY <1>2, <3>1, NoWrong
    <3>3. r.value \in Fitting("storedType", h - 1)
      BY <1>2, <2>5, <3>2 DEF TypeLike
    <3> QED
      BY <2>3, <3>3, InsideFits
  <2> QED
    BY <2>6, <2>7
<1> HIDE DEF built, more
<1> QED
  BY <1>3, <1>4, <1>5

\* The fields of an object type, sorted as attributes that are required, are settled.
LEMMA SortedFieldsFit ==
  ASSUME NEW h \in 0..MaxNesting, NEW v, IsNamed(v),
         \A i \in 1..Len(v) : v[i].name \in STRING /\ v[i].value \in Inner("storedType", h)
  PROVE  AsObject(v) \in Fitting("storedType", h)
<1> DEFINE e == [i \in DOMAIN v |-> [v[i] EXCEPT !.value = Required(@)]]
           s == SortUnique(e)
           X == AttributesOver(Inner("storedType", h))
<1>1. Len(v) \in Nat /\ DOMAIN v = 1..Len(v)
  BY ListLen DEF IsNamed
<1>2. IsList(e) /\ Len(e) = Len(v) /\ DOMAIN e = 1..Len(v)
  <2>1. e = [i \in 1..Len(v) |-> e[i]]
    BY <1>1
  <2> HIDE DEF e
  <2> QED
    BY <1>1, <2>1, ListMade
<1>3. \A i \in 1..Len(v) : /\ e[i] \in [name : STRING, value : X]
                           /\ e[i] = [name |-> e[i].name, value |-> e[i].value]
  <2>1. SUFFICES ASSUME NEW i \in 1..Len(v)
                 PROVE  /\ e[i] \in [name : STRING, value : X]
                        /\ e[i] = [name |-> e[i].name, value |-> e[i].value]
    OBVIOUS
  <2> DEFINE a == Required(v[i].value)
  <2>2. a \in X
    BY DEF Required, AttributesOver
  <2>3. e[i] = [v[i] EXCEPT !.value = a]
    BY <1>1, Zenon
  <2>4. v[i] = [name |-> v[i].name, value |-> v[i].value]
    BY DEF IsNamed
  <2> HIDE DEF a, e, X
  <2>5. e[i] = [name |-> v[i].name, value |-> a]
    BY <2>3, <2>4
  <2> QED
    BY <2>2, <2>5
<1> HIDE DEF e, X
<1>4. IsList(s) /\ \A x \in ToSet(s) : x = LastOf(e, x.name) /\ x \in ToSet(e)
  BY <1>2, SortedLast
<1>5. \A x \in ToSet(e) : x \in [name : STRING, value : X] /\ x = [name |-> x.name, value |-> x.value]
  BY <1>2, <1>3, ListLen
<1>6. s \in NamedIn(X)
  <2>1. ToSet(s) \subseteq [name : STRING, value : X]
    BY <1>4, <1>5
  <2> HIDE DEF s
  <2> QED
    BY <1>4, <2>1, ListIn DEF NamedIn
<1>7. Len(s) \in Nat /\ \A i \in 1..Len(s) : s[i] \in ToSet(s)
  <2> HIDE DEF s
  <2> QED
    BY <1>4, ListLen
<1>8. IsNamed(s)
  <2> HIDE DEF s
  <2> QED
    BY <1>4, <1>5, <1>7 DEF IsNamed
<1>9. \A i, k \in 1..Len(s) : s[i].name = s[k].name => s[i] = s[k]
  <2> HIDE DEF s
  <2>1. SUFFICES ASSUME NEW i \in 1..Len(s), NEW k \in 1..Len(s), s[i].name = s[k].name PROVE s[i] = s[k]
    OBVIOUS
  <2>2. s[i] = LastOf(e, s[i].name) /\ s[k] = LastOf(e, s[k].name)
    BY <1>4, <1>7
  <2> QED
    BY <2>1, <2>2, Zenon
<1>10. Settled(s)
  BY <1>2, <1>8, <1>9, SortedSettles
<1>11. AsObject(v) = Type("object", <<>>, s)
  BY Zenon DEF AsObject, e
<1> HIDE DEF s
<1>12. Type("object", <<>>, s) \in Fitting("storedType", h)
  BY <1>6, <1>10, ObjectFits DEF X
<1> QED
  BY <1>11, <1>12

\* An object type fits, if what is inside it does.
LEMMA ObjectTypesFit ==
  ASSUME NEW j \in AnyJson, NEW h \in 0..MaxNesting, AllFit(j, h), NEW path \in Paths,
         Usable(Read[j]["objectType"][path])
  PROVE  Read[j]["objectType"][path].value \in Fitting("storedType", h)
<1> DEFINE E == j.entries
           N == Len(E)
           x == [i \in 1..N |-> [name |-> E[i].key, result |-> Below(j)[E[i].value]["type"][Append(path, Key(E[i].key))]]]
           ss == [i \in DOMAIN E |-> IF TRUE THEN <<[name |-> E[i].key,
                                                     result |-> Below(j)[E[i].value]["type"][Append(path, Key(E[i].key))]]>>
                                     ELSE <<>>]
           s == FlattenSeq(ss)
           r == Read[j]["objectType"][path]
           first == FirstProblem(MergeRepeated(s))
<1>1. N \in Nat /\ DOMAIN E = 1..N
  BY EntryAt
<1>2. r = IF j.is # "object" THEN Wrong(path, "expected_object")
          ELSE IF Usable(first) THEN Good(AsObject(first.value)) ELSE first
  <2>1. r = ReadObjectType(j, path, Below(j))
    BY TypeNodes
  <2> HIDE DEF r
  <2> QED
    BY <2>1, Zenon DEF ReadObjectType, ObjectType, Then, Entries
<1>3. Usable(r)
  OBVIOUS
<1> SUFFICES r.value \in Fitting("storedType", h)
  OBVIOUS
<1>4. s = [i \in 1..N |-> x[i]]
  <2>1. IsList(ss) /\ DOMAIN ss = 1..N
    <3>1. ss = [i \in 1..N |-> ss[i]]
      BY <1>1
    <3> HIDE DEF ss, N
    <3> QED
      BY <1>1, <3>1, ListMade
  <2>2. \A i \in DOMAIN ss : ss[i] = <<x[i]>>
    BY <1>1
  <2> HIDE DEF ss, x, N
  <2>3. FlattenSeq(ss) = [i \in DOMAIN ss |-> x[i]]
    BY <2>1, <2>2, FlatOnes
  <2> QED
    BY <2>1, <2>3
<1>5. ASSUME NEW i \in 1..N
      PROVE  /\ x[i].name \in STRING
             /\ Usable(x[i].result) => x[i].result.value \in Inner("storedType", h)
  <2> DEFINE c == E[i].value
             q == Append(path, Key(E[i].key))
             y == Below(j)[c]["type"][q]
  <2>1. c \in Children(j) /\ E[i].key \in STRING /\ q \in Paths
    BY <1>1, EntryAt, PathsGrow
  <2>2. Below(j)[c] = Read[c]
    BY <2>1, BelowIs
  <2>3. h # 0 /\ Fit(c, h - 1)
    BY <2>1 DEF AllFit
  <2>4. x[i].name = E[i].key /\ x[i].result = y
    <3>1. x[i] = [name |-> E[i].key, result |-> y]
      BY Zenon
    <3> HIDE DEF x, y
    <3> QED
      BY <3>1
  <2> HIDE DEF x, c, q
  <2>5. ASSUME Usable(y) PROVE y.value \in Inner("storedType", h)
    <3>1. "type" \in RawKinds /\ y = Read[c]["type"][q]
      BY <2>2 DEF RawKinds, NodeKinds
    <3>2. Fits("type", y, h - 1)
      BY <2>1, <2>3, <2>5, <3>1 DEF Fit
    <3> HIDE DEF y
    <3>3. y.value \in Fitting("storedType", h - 1)
      BY <3>2 DEF Fits
    <3> QED
      BY <2>3, <3>3, InsideFits
  <2> HIDE DEF y
  <2> QED
    BY <2>1, <2>4, <2>5
<1> HIDE DEF ss, s, x, r
<1>6. IsList(s) /\ \A y \in ToSet(s) : \E i \in 1..N : y = x[i]
  <2>1. \A i \in 1..N : s[i] = x[i]
    BY <1>4
  <2>2. s = [i \in 1..N |-> s[i]]
    BY <1>4, <2>1, Zenon
  <2> HIDE DEF N
  <2>3. IsList(s) /\ Len(s) = N
    BY <1>1, <2>2, ListMade
  <2> QED
    BY <2>1, <2>3, ListLen
<1>7. Usable(first) /\ r = Good(AsObject(first.value))
  <2> HIDE DEF first
  <2> QED
    BY <1>2, <1>3, NoWrong
<1> DEFINE m == MergeRepeated(s)
           v == first.value
<1>8. IsList(m) /\ \A y \in ToSet(m) : \E i \in 1..N : y = x[i]
  BY <1>6, MergedHolds
<1>9. /\ IsNamed(v) /\ Len(v) = Len(m)
      /\ \A i \in 1..Len(v) : /\ Usable(m[i].result)
                              /\ v[i].name = m[i].name /\ v[i].value = m[i].result.value
  <2> HIDE DEF m
  <2> QED
    BY <1>7, <1>8, FirstProblemValues DEF m
<1> HIDE DEF m, v, first
<1>10. \A i \in 1..Len(v) : v[i].name \in STRING /\ v[i].value \in Inner("storedType", h)
  <2>1. SUFFICES ASSUME NEW i \in 1..Len(v) PROVE v[i].name \in STRING /\ v[i].value \in Inner("storedType", h)
    OBVIOUS
  <2>2. m[i] \in ToSet(m)
    BY <1>8, <1>9, ListLen
  <2>3. PICK k \in 1..N : m[i] = x[k]
    BY <1>8, <2>2
  <2> QED
    BY <1>5, <1>9, <2>3
<1>11. AsObject(v) \in Fitting("storedType", h)
  BY <1>9, <1>10, SortedFieldsFit
<1>12. r.value = AsObject(v)
  BY <1>7, ResultsAre DEF v
<1> QED
  BY <1>11, <1>12

\* A tuple type fits, if what is inside it does.
LEMMA TupleTypesFit ==
  ASSUME NEW j \in AnyJson, NEW h \in 0..MaxNesting, AllFit(j, h), NEW path \in Paths,
         Usable(Read[j]["tupleType"][path])
  PROVE  Read[j]["tupleType"][path].value \in Fitting("storedType", h)
<1> DEFINE N == Len(j.items)
           results == [i \in DOMAIN j.items |-> Below(j)[j.items[i]]["type"][Append(path, Place(i))]]
           wrong == {i \in DOMAIN results : ~Usable(results[i])}
           r == Read[j]["tupleType"][path]
           items == [i \in DOMAIN results |-> results[i].value]
           whole == AsTuple(items)
<1>1. N \in Nat /\ DOMAIN j.items = 1..N /\ DOMAIN results = 1..N
  BY EntryAt
<1>2. r = IF j.is # "array" THEN Wrong(path, "expected_tuple")
          ELSE IF wrong # {} THEN results[Min(wrong)] ELSE Good(whole)
  <2>1. r = ReadTupleType(j, path, Below(j))
    BY TypeNodes
  <2> HIDE DEF r
  <2> QED
    BY <2>1, Zenon DEF ReadTupleType
<1>3. Usable(r)
  OBVIOUS
<1> SUFFICES r.value \in Fitting("storedType", h)
  OBVIOUS
<1>4. ASSUME NEW i \in 1..N, Usable(results[i])
      PROVE  results[i].value \in Inner("storedType", h)
  <2> DEFINE c == j.items[i]
             q == Append(path, Place(i))
             y == results[i]
  <2>1. c \in Children(j) /\ q \in Paths
    BY <1>1, EntryAt, PathsGrow
  <2>2. Below(j)[c] = Read[c]
    BY <2>1, BelowIs
  <2>3. h # 0 /\ Fit(c, h - 1)
    BY <2>1 DEF AllFit
  <2>4. y = Read[c]["type"][q]
    <3>1. y = Below(j)[c]["type"][q]
      <4> HIDE DEF N
      <4> QED
        BY <1>1, Zenon
    <3> HIDE DEF y
    <3> QED
      BY <2>2, <3>1
  <2>5. "type" \in RawKinds /\ Usable(y)
    BY <1>4 DEF RawKinds, NodeKinds
  <2> HIDE DEF c, q, y
  <2>6. Fits("type", y, h - 1)
    BY <2>1, <2>3, <2>4, <2>5 DEF Fit
  <2>7. y.value \in Fitting("storedType", h - 1)
    BY <2>6 DEF Fits
  <2>8. y.value \in Inner("storedType", h)
    BY <2>3, <2>7, InsideFits
  <2> QED
    BY <2>8 DEF y
<1>5. wrong # {} => ~Usable(results[Min(wrong)])
  <2>1. wrong \in SUBSET Nat
    BY <1>1
  <2> HIDE DEF wrong
  <2>2. wrong # {} => Min(wrong) \in wrong
    BY <2>1, FirstPlace
  <2> QED
    BY <2>2 DEF wrong
<1>6. wrong = {} /\ r = Good(whole)
  <2> HIDE DEF r, wrong, results, whole
  <2> QED
    BY <1>2, <1>3, <1>5, NoWrong
<1>7. items \in Seq(Inner("storedType", h))
  <2>1. \A i \in 1..N : Usable(results[i])
    BY <1>1, <1>6
  <2>2. \A i \in 1..N : results[i].value \in Inner("storedType", h)
    BY <1>4, <2>1
  <2> HIDE DEF results, N
  <2>3. items \in [1..N -> Inner("storedType", h)]
    BY <1>1, <2>2
  <2> HIDE DEF items
  <2> QED
    BY <1>1, <2>3, SeqDef
<1> DEFINE t == Type("tuple", items, <<>>)
<1>8. t = [kind |-> "tuple", items |-> items, fields |-> <<>>]
  BY Zenon DEF Type
<1>9. r.value = t
  BY <1>6, ResultsAre DEF AsTuple
<1> HIDE DEF items, r, t
<1>10. t \in TypesOver(Inner("storedType", h)) /\ t.kind # "object"
  BY <1>7, <1>8 DEF TypesOver
<1>11. t \in Fitting("storedType", h)
  BY <1>10, TypeFits
<1> QED
  BY <1>9, <1>11

\* What may be null is, or is there.
LEMMA SomeFits ==
  ASSUME NEW X, NEW r, Usable(Then(r, Some)), Usable(r) => r.value \in X
  PROVE  \E t \in X : Then(r, Some) = Good(<<t>>)
<1> DEFINE whole == Then(r, Some)
<1>1. whole = IF Usable(r) THEN Good(<<r.value>>) ELSE r
  BY Zenon DEF Then, Some
<1>2. Usable(whole)
  OBVIOUS
<1> SUFFICES \E t \in X : whole = Good(<<t>>)
  OBVIOUS
<1> HIDE DEF whole
<1>3. Usable(r) /\ whole = Good(<<r.value>>)
  BY <1>1, <1>2
<1> QED
  BY <1>3

\* So does what may be null.
LEMMA MaybesFit ==
  ASSUME NEW j \in AnyJson, NEW h \in 0..MaxNesting, AllFit(j, h),
         NEW kind \in {"maybeType", "maybeNestedType"}, NEW path \in Paths, Usable(Read[j][kind][path])
  PROVE  Fits(kind, Read[j][kind][path], h)
<1> DEFINE r == Read[j][kind][path]
           type == ReadType(j, path, Below(j))
           nested == ReadFields("nestedType", j, path, Below(j))
<1>1. /\ Read[j]["maybeType"][path] = IF j.is = "null" THEN Good(<<>>) ELSE Then(type, Some)
      /\ Read[j]["maybeNestedType"][path] = IF j.is = "null" THEN Good(<<>>) ELSE Then(nested, Some)
  BY TypeNodes
<1>2. Usable(type) => type.value \in Fitting("storedType", h)
  BY TypesFit
<1>3. Usable(nested) => nested.value \in Fitting("storedType", h)
  <2>1. Read[j]["nestedType"][path] = nested /\ "nestedType" \in RawSeeds
    BY RawNodes DEF RawSeeds
  <2>2. ASSUME Usable(nested) PROVE Fits("nestedType", nested, h)
    BY <2>1, <2>2, SeedsFit
  <2> HIDE DEF nested
  <2> QED
    BY <2>2 DEF Fits
<1> SUFFICES Fits(kind, r, h)
  OBVIOUS
<1>4. Usable(r)
  OBVIOUS
<1> HIDE DEF type, nested
<1>5. r = Good(<<>>) \/ \E t \in Fitting("storedType", h) : r = Good(<<t>>)
  <2>1. CASE j.is = "null"
    BY <1>1, <2>1
  <2>2. CASE j.is # "null" /\ kind = "maybeType"
    <3>1. r = Then(type, Some)
      BY <1>1, <2>2
    <3> DEFINE X == Fitting("storedType", h)
    <3> HIDE DEF r, X
    <3>2. Usable(Then(type, Some)) /\ (Usable(type) => type.value \in X)
      BY <1>2, <1>4, <3>1 DEF X
    <3>3. \E t \in X : Then(type, Some) = Good(<<t>>)
      BY <3>2, SomeFits
    <3> QED
      BY <3>1, <3>3 DEF X
  <2>3. CASE j.is # "null" /\ kind = "maybeNestedType"
    <3>1. r = Then(nested, Some)
      BY <1>1, <2>3
    <3> DEFINE X == Fitting("storedType", h)
    <3> HIDE DEF r, X
    <3>2. Usable(Then(nested, Some)) /\ (Usable(nested) => nested.value \in X)
      BY <1>3, <1>4, <3>1 DEF X
    <3>3. \E t \in X : Then(nested, Some) = Good(<<t>>)
      BY <3>2, SomeFits
    <3> QED
      BY <3>1, <3>3 DEF X
  <2> QED
    BY <2>1, <2>2, <2>3
<1> HIDE DEF r
<1> QED
  BY <1>5 DEF Fits

\* Types fit, if what is inside them does.
LEMMA TypeLikesFit ==
  ASSUME NEW j \in AnyJson, NEW h \in 0..MaxNesting, AllFit(j, h), NEW kind \in TypeLike, NEW path \in Paths,
         Usable(Read[j][kind][path])
  PROVE  Fits(kind, Read[j][kind][path], h)
<1> DEFINE r == Read[j][kind][path]
<1>1. Read[j]["type"][path] = ReadType(j, path, Below(j))
  BY TypeNodes
<1>2. r.value \in Fitting("storedType", h)
  <2>1. CASE kind = "type"
    BY <1>1, <2>1, TypesFit
  <2>2. CASE kind = "objectType"
    BY <2>2, ObjectTypesFit
  <2>3. CASE kind = "tupleType"
    BY <2>3, TupleTypesFit
  <2> QED
    BY <2>1, <2>2, <2>3 DEF TypeLike
<1> SUFFICES Fits(kind, r, h)
  OBVIOUS
<1> HIDE DEF r
<1> QED
  BY <1>2 DEF Fits, TypeLike

\* Of JSON that nests h deep, what is read fits h.
LEMMA RawFits ==
  ASSUME NEW h \in 0..MaxNesting, NEW j \in JsonTree[h]
  PROVE  Fit(j, h)
<1> DEFINE S == {i \in AnyJson : \A n \in 0..MaxNesting : i \in JsonTree[n] => Fit(i, n)}
<1>1. ASSUME NEW i \in AnyJson, Children(i) \subseteq S
      PROVE  i \in S
  <2>1. SUFFICES ASSUME NEW n \in 0..MaxNesting, i \in JsonTree[n] PROVE Fit(i, n)
    OBVIOUS
  <2>2. AllFit(i, n)
    <3>1. SUFFICES ASSUME NEW c \in Children(i) PROVE n # 0 /\ Fit(c, n - 1)
      BY DEF AllFit
    <3>2. n # 0 /\ c \in JsonTree[n - 1]
      BY <2>1, TreeNode
    <3>3. n - 1 \in 0..MaxNesting
      BY <3>2, NestingAssumption
    <3> QED
      BY <1>1, <3>2, <3>3
  <2>3. ASSUME NEW kind \in RawKinds, NEW path \in Paths, Usable(Read[i][kind][path])
        PROVE  Fits(kind, Read[i][kind][path], n)
    <3>1. CASE kind \in RawSeeds
      BY <2>2, <2>3, <3>1, SeedsFit
    <3>2. CASE kind \in RawMaps
      BY <2>2, <2>3, <3>2, MapsFit
    <3>3. CASE kind \in TypeLike
      BY <2>2, <2>3, <3>3, TypeLikesFit
    <3>4. CASE kind \in {"text", "flag", "maybeText", "maybeCount"}
      BY <2>3, <3>4, ScalarsFit
    <3>5. CASE kind \in {"maybeType", "maybeNestedType"}
      BY <2>2, <2>3, <3>5, MaybesFit
    <3> QED
      BY <3>1, <3>2, <3>3, <3>4, <3>5, RawKindsSplit
  <2> QED
    BY <2>3 DEF Fit
<1> HIDE DEF S
<1>2. AnyJson \subseteq S
  BY <1>1, JsonInduction
<1>3. j \in AnyJson
  BY TreeInAny
<1> QED
  BY <1>2, <1>3 DEF S

\* Schemas without a problem are a settled map of blocks.
LEMMA SchemasSettle ==
  ASSUME NEW h, NEW s, SchemasFit(s, h), Usable(FirstProblem(s)), NEW v, v = FirstProblem(s).value
  PROVE  v \in NamedIn(Fitting("storedBlock", h)) /\ Settled(v)
<1> DEFINE X == Fitting("storedBlock", h)
<1>1. IsList(s) /\ \A y \in ToSet(s) : y.name \in STRING /\ (Usable(y.result) => y.result.value \in X)
  BY DEF SchemasFit, NamedResults
<1>2. PICK e : IsList(e) /\ s = SortUnique(e)
  BY DEF SchemasFit
<1>3. /\ IsNamed(v) /\ Len(v) = Len(s)
      /\ \A i \in 1..Len(v) : Usable(s[i].result) /\ v[i].name = s[i].name /\ v[i].value = s[i].result.value
  BY <1>1, FirstProblemValues
<1>4. \A x \in ToSet(s) : x = LastOf(e, x.name)
  BY <1>2, SortedLast
<1>5. \A i \in 1..Len(v) : s[i] \in ToSet(s)
  BY <1>1, <1>3, ListLen
<1> HIDE DEF X
<1>6. \A i \in 1..Len(v) : v[i] = [name |-> v[i].name, value |-> v[i].value]
  BY <1>3 DEF IsNamed
<1>7. \A i, k \in 1..Len(v) : v[i].name = v[k].name => v[i] = v[k]
  <2>1. SUFFICES ASSUME NEW i \in 1..Len(v), NEW k \in 1..Len(v), v[i].name = v[k].name PROVE v[i] = v[k]
    OBVIOUS
  <2>2. s[i].name = s[k].name
    BY <1>3, <2>1
  <2>3. s[i] = LastOf(e, s[i].name) /\ s[k] = LastOf(e, s[k].name)
    BY <1>4, <1>5
  <2>4. s[i] = s[k]
    BY <2>2, <2>3, Zenon
  <2>5. v[i].value = v[k].value
    BY <1>3, <2>4
  <2> QED
    BY <1>6, <2>1, <2>5, Zenon
<1>8. Settled(v)
  BY <1>2, <1>3, <1>7, SortedSettles
<1>9. v \in NamedIn(X)
  <2>1. ToSet(v) \subseteq [name : STRING, value : X]
    <3>1. SUFFICES ASSUME NEW x \in ToSet(v) PROVE x \in [name : STRING, value : X]
      OBVIOUS
    <3>2. PICK i \in 1..Len(v) : x = v[i]
      BY <1>3, ListLen DEF IsNamed
    <3>3. v[i].name \in STRING /\ v[i].value \in X
      BY <1>1, <1>3, <1>5
    <3>4. v[i] = [name |-> v[i].name, value |-> v[i].value]
      BY <1>6
    <3> QED
      BY <3>2, <3>3, <3>4
  <2> QED
    BY <1>3, <2>1, ListIn DEF NamedIn, IsNamed
<1> QED
  BY <1>8, <1>9 DEF X

\* Normalizing a document settles the schema.
LEMMA NormalizedSettles ==
  ASSUME NEW raw, IsList(raw.providers),
         \A y \in ToSet(raw.providers) : ProviderFits(y.result.value, MaxNesting),
         Usable(NormalizedDocument(raw)), NEW v, v = NormalizedDocument(raw).value
  PROVE  SettledSchema(v) /\ NormalizedDocument(raw) = Good(v)
<1> DEFINE value == raw.providers[1].result.value
           config == value.config
           resources == FirstProblem(value.resources)
           data == FirstProblem(value.data_sources)
           whole(d) == [source |-> Request.source, version |-> Request.version,
                        provider_config |-> config.value, resources |-> resources.value, data_sources |-> d]
           r == NormalizedDocument(raw)
<1>1. r = IF raw.format_version \notin Supported THEN Wrong(<<>>, "unsupported_format")
          ELSE IF raw.providers = <<>> THEN Wrong(<<>>, "missing_provider")
          ELSE IF ~Usable(config) THEN config
          ELSE IF ~Usable(resources) THEN resources
          ELSE IF Usable(data) THEN Good(whole(data.value)) ELSE data
  BY Zenon DEF NormalizedDocument, Then
<1>2. Usable(r) /\ v = r.value
  OBVIOUS
<1>3. /\ raw.providers # <<>> /\ Usable(config) /\ Usable(resources) /\ Usable(data)
      /\ r = Good(whole(data.value))
  <2> HIDE DEF r, config, resources, data, whole
  <2> QED
    BY <1>1, <1>2, NoWrong
<1>4. ProviderFits(value, MaxNesting)
  <2>1. \E x : x \in ToSet(raw.providers)
    BY <1>3, ListEmpty
  <2>2. 1 \in 1..Len(raw.providers)
    BY <2>1, ListLen
  <2>3. raw.providers[1] \in ToSet(raw.providers)
    BY <2>2, ListLen
  <2> QED
    BY <2>3
<1> HIDE DEF value
<1>5. config.value \in Fitting("storedBlock", MaxNesting)
  BY <1>3, <1>4 DEF ProviderFits
<1>6. SettledBlocks(resources.value)
  <2>1. SchemasFit(value.resources, MaxNesting)
    BY <1>4 DEF ProviderFits
  <2> QED
    BY <1>3, <2>1, SchemasSettle DEF SettledBlocks
<1>7. SettledBlocks(data.value)
  <2>1. SchemasFit(value.data_sources, MaxNesting)
    BY <1>4 DEF ProviderFits
  <2> QED
    BY <1>3, <2>1, SchemasSettle DEF SettledBlocks
<1>8. v = whole(data.value)
  <2> HIDE DEF r, whole, data
  <2> QED
    BY <1>2, <1>3, ResultsAre
<1>9. /\ v.provider_config = config.value /\ v.resources = resources.value /\ v.data_sources = data.value
      /\ v = [source |-> Request.source, version |-> Request.version, provider_config |-> v.provider_config,
              resources |-> v.resources, data_sources |-> v.data_sources]
  <2> HIDE DEF r, config, resources, data
  <2> QED
    BY <1>8
<1>10. r = Good(v)
  BY <1>3, <1>8
<1> HIDE DEF config, resources, data, whole
<1> QED
  BY <1>5, <1>6, <1>7, <1>9, <1>10 DEF SettledSchema, r

\* So does normalize_schema, whatever the JSON.
LEMMA SchemaSettles ==
  ASSUME NEW j \in AnyJson, Usable(NormalizeSchema(j)), NEW v, v = NormalizeSchema(j).value
  PROVE  SettledSchema(v) /\ NormalizeSchema(j) = Good(v)
<1> DEFINE document == Read[j]["document"][<<>>]
           raw == document.value.raw[1]
           P == At(j, "provider_schemas")
           r == Read[P]["providers"][<<>>]
<1>1. NormalizeSchema(j) = IF document.error # <<>> THEN document ELSE NormalizedDocument(raw)
  BY Zenon DEF NormalizeSchema
<1>2. document.error = <<>>
  BY <1>1 DEF Usable
<1>3. WellFormed[j]["document"]
  <2>1. "document" \in RawKinds
    BY DEF RawKinds
  <2>2. HoldsOf(j, "document", <<>>)
    BY <2>1, PathsAre, ReadingTells, ChildHeld
  <2> QED
    BY <1>2, <2>2 DEF HoldsOf
<1>4. P \in AnyJson /\ WellFormed[P]["providers"] /\ raw.providers = r.value
  BY <1>3, DocumentTells DEF DocumentTold
<1>5. Usable(r)
  <2>1. "providers" \in RawKinds /\ "providers" \in CarriedKinds
    BY DEF RawKinds, CarriedKinds
  <2>2. HoldsOf(P, "providers", <<>>)
    BY <1>4, <2>1, PathsAre, ReadingTells, ChildHeld
  <2> QED
    BY <1>4, <2>1, <2>2 DEF HoldsOf, Meant, Usable
<1>6. Fits("providers", r, MaxNesting)
  <2>1. "providers" \in RawKinds /\ MaxNesting \in 0..MaxNesting
    BY NestingAssumption DEF RawKinds
  <2>2. P \in JsonTree[MaxNesting]
    BY <1>4 DEF AnyJson
  <2>3. Fit(P, MaxNesting)
    BY <2>1, <2>2, RawFits
  <2> QED
    BY <1>5, <2>1, <2>3, PathsAre DEF Fit
<1> HIDE DEF r
<1>7. IsList(raw.providers) /\ \A y \in ToSet(raw.providers) : ProviderFits(y.result.value, MaxNesting)
  BY <1>4, <1>6 DEF Fits
<1>8. NormalizeSchema(j) = NormalizedDocument(raw)
  BY <1>1, <1>2
<1> HIDE DEF raw
<1> QED
  BY <1>7, <1>8, NormalizedSettles

\* A settled schema as it is written is read as a document with just its fields.
LEMMA DocumentBack ==
  ASSUME NEW v, SettledSchema(v), CanonicalJson(v) \in AnyJson
  PROVE  \E found : /\ Read[CanonicalJson(v)]["either"][<<>>] = FinishedDocument(found)
                    /\ DOMAIN found = DerivedSeed.required
                    /\ \A k \in DOMAIN found : found[k] = Good(v[k])
<1> DEFINE w == [source |-> Text(v.source), version |-> Text(v.version),
                 provider_config |-> NodeJson[v.provider_config],
                 resources |-> MapJson(v.resources, ResourceJson),
                 data_sources |-> MapJson(v.data_sources, ResourceJson)]
           f1 == Field("source", Text(v.source))
           f2 == Field("version", Text(v.version))
           f3 == Field("provider_config", NodeJson[v.provider_config])
           f4 == Field("resources", MapJson(v.resources, ResourceJson))
           f5 == Field("data_sources", MapJson(v.data_sources, ResourceJson))
           e == f1 \o f2 \o f3 \o f4 \o f5
           K == {"source", "version", "provider_config", "resources", "data_sources"}
           r1 == MapJson(v.resources, ResourceJson)
           r2 == MapJson(v.data_sources, ResourceJson)
<1>1. /\ w["source"] = Text(v.source) /\ w["version"] = Text(v.version)
      /\ w["provider_config"] = NodeJson[v.provider_config]
      /\ w["resources"] = r1 /\ w["data_sources"] = r2
  <2> HIDE DEF r1, r2
  <2>1. w = [source |-> Text(v.source), version |-> Text(v.version),
             provider_config |-> NodeJson[v.provider_config], resources |-> r1, data_sources |-> r2]
    BY Zenon DEF r1, r2
  <2> HIDE DEF w
  <2> QED
    BY <2>1
<1>2. /\ v["source"] = v.source /\ v["version"] = v.version /\ v["provider_config"] = v.provider_config
      /\ v["resources"] = v.resources /\ v["data_sources"] = v.data_sources
  OBVIOUS
<1>3. CanonicalJson(v) = Object(e)
  BY Zenon DEF CanonicalJson
<1> HIDE DEF w
<1>4. /\ Writes(f1, {"source"}, w) /\ Writes(f2, {"version"}, w) /\ Writes(f3, {"provider_config"}, w)
      /\ Writes(f4, {"resources"}, w) /\ Writes(f5, {"data_sources"}, w)
  <2>1. f4 = Field("resources", r1) /\ f5 = Field("data_sources", r2)
    OBVIOUS
  <2> HIDE DEF f4, f5, r1, r2
  <2> QED
    BY <1>1, <2>1, WritesOne
<1> HIDE DEF f1, f2, f3, f4, f5
<1>5. Writes(f1 \o f2, {"source", "version"}, w)
  <2>1. {"source"} \cup {"version"} = {"source", "version"} /\ {"source"} \cap {"version"} = {}
    OBVIOUS
  <2>2. Writes(f1 \o f2, {"source"} \cup {"version"}, w)
    BY <1>4, <2>1, WritesMore
  <2> QED
    BY <2>1, <2>2
<1>6. Writes(f1 \o f2 \o f3, {"source", "version", "provider_config"}, w)
  <2>1. /\ {"source", "version"} \cup {"provider_config"} = {"source", "version", "provider_config"}
        /\ {"source", "version"} \cap {"provider_config"} = {}
    OBVIOUS
  <2>2. Writes(f1 \o f2 \o f3, {"source", "version"} \cup {"provider_config"}, w)
    BY <1>4, <1>5, <2>1, WritesMore
  <2> QED
    BY <2>1, <2>2
<1>7. Writes(f1 \o f2 \o f3 \o f4, {"source", "version", "provider_config", "resources"}, w)
  <2>1. /\ {"source", "version", "provider_config"} \cup {"resources"}
             = {"source", "version", "provider_config", "resources"}
        /\ {"source", "version", "provider_config"} \cap {"resources"} = {}
    OBVIOUS
  <2>2. Writes(f1 \o f2 \o f3 \o f4, {"source", "version", "provider_config"} \cup {"resources"}, w)
    BY <1>4, <1>6, <2>1, WritesMore
  <2> QED
    BY <2>1, <2>2
<1>8. Writes(e, K, w)
  <2>1. /\ {"source", "version", "provider_config", "resources"} \cup {"data_sources"} = K
        /\ {"source", "version", "provider_config", "resources"} \cap {"data_sources"} = {}
    OBVIOUS
  <2>2. Writes(f1 \o f2 \o f3 \o f4 \o f5,
               {"source", "version", "provider_config", "resources"} \cup {"data_sources"}, w)
    BY <1>4, <1>7, <2>1, WritesMore
  <2> QED
    BY <2>1, <2>2
<1> HIDE DEF e
<1>9. Object(e) \in AnyJson /\ \A k \in K : w[k] \in AnyJson
  BY <1>3, <1>8, WrittenInside
<1>10. /\ "either" \in WrittenKinds /\ Seeds["either"] = EitherSeed
       /\ K \subseteq DOMAIN EitherSeed.fields /\ EitherSeed.required = {}
       /\ EitherSeed.fields["source"] = "text" /\ EitherSeed.fields["version"] = "text"
       /\ EitherSeed.fields["provider_config"] = "storedBlock"
       /\ EitherSeed.fields["resources"] = "storedSchemas"
       /\ EitherSeed.fields["data_sources"] = "storedSchemas"
  BY DEF WrittenKinds, Seeds, EitherSeed, Seed
<1>11. <<>> \in Paths
  BY PathsAre
<1>12. \A k \in K : Read[w[k]][Seeds["either"].fields[k]][<<>>] = Good(v[k])
  <2>1. Read[w["source"]]["text"][<<>>] = Good(v["source"])
    BY <1>1, <1>2, <1>9, <1>11, ScalarsBack
  <2>2. Read[w["version"]]["text"][<<>>] = Good(v["version"])
    BY <1>1, <1>2, <1>9, <1>11, ScalarsBack
  <2>3. Read[w["provider_config"]]["storedBlock"][<<>>] = Good(v["provider_config"])
    <3>1. ReadAs("storedBlock", v.provider_config)
      BY DEF SettledSchema, Fitting
    <3> QED
      BY <1>1, <1>2, <1>9, <1>11, <3>1 DEF ReadAs
  <2> DEFINE T == Fitting("storedBlock", MaxNesting)
  <2>4. \A t \in T : ReadAs("storedBlock", t)
    BY DEF Fitting
  <2>5. /\ v.resources \in NamedIn(T) /\ Settled(v.resources)
        /\ v.data_sources \in NamedIn(T) /\ Settled(v.data_sources)
    BY DEF SettledSchema, SettledBlocks
  <2> HIDE DEF T
  <2>6. Read[w["resources"]]["storedSchemas"][<<>>] = Good(v["resources"])
    <3>1. MapJson(v.resources, ResourceJson) \in AnyJson
      BY <1>1, <1>9
    <3>2. Read[MapJson(v.resources, ResourceJson)]["storedSchemas"][<<>>] = Good(v.resources)
      BY <1>11, <2>4, <2>5, <3>1, ResourcesBack
    <3> QED
      BY <1>1, <1>2, <3>2
  <2>7. Read[w["data_sources"]]["storedSchemas"][<<>>] = Good(v["data_sources"])
    <3>1. MapJson(v.data_sources, ResourceJson) \in AnyJson
      BY <1>1, <1>9
    <3>2. Read[MapJson(v.data_sources, ResourceJson)]["storedSchemas"][<<>>] = Good(v.data_sources)
      BY <1>11, <2>4, <2>5, <3>1, ResourcesBack
    <3> QED
      BY <1>1, <1>2, <3>2
  <2> QED
    BY <1>10, <2>1, <2>2, <2>3, <2>6, <2>7
<1>13. PICK found : /\ Read[Object(e)]["either"][<<>>] = Finished("either", found, <<>>)
                    /\ DOMAIN found = K /\ \A k \in K : found[k] = Good(v[k])
  <2>1. /\ K \subseteq DOMAIN Seeds["either"].fields /\ Seeds["either"].required \subseteq K
    BY <1>10
  <2> HIDE DEF K
  <2> QED
    BY <1>8, <1>9, <1>10, <1>11, <1>12, <2>1, WrittenRead
<1>14. Finished("either", found, <<>>) = FinishedDocument(found)
  BY DEF Finished
<1>15. DerivedSeed.required = K
  BY DEF DerivedSeed, Seed
<1> QED
  BY <1>3, <1>13, <1>14, <1>15

\* A settled schema as it is written is read back as it was.
THEOREM WrittenIsReadBack ==
  ASSUME NEW v, SettledSchema(v), CanonicalJson(v) \in AnyJson
  PROVE  ReadSchemaFile(CanonicalJson(v)) = SchemaFile("normalized", Good(v))
<1> DEFINE j == CanonicalJson(v)
           both == Read[j]["either"][<<>>]
<1>1. PICK found : /\ both = FinishedDocument(found)
                   /\ DOMAIN found = DerivedSeed.required
                   /\ \A k \in DOMAIN found : found[k] = Good(v[k])
  BY DocumentBack
<1>2. DerivedSeed.required = {"source", "version", "provider_config", "resources", "data_sources"}
  BY DEF DerivedSeed, Seed
<1>3. ~(DocumentSeed.required \subseteq DOMAIN found)
  BY <1>1, <1>2 DEF DocumentSeed, Seed
<1>4. StoredSchema(found) = v
  <2>1. /\ found["source"].value = v.source /\ found["version"].value = v.version
        /\ found["provider_config"].value = v.provider_config
        /\ found["resources"].value = v.resources /\ found["data_sources"].value = v.data_sources
    BY <1>1, <1>2, ResultsAre
  <2>2. StoredSchema(found)
          = [source |-> v.source, version |-> v.version, provider_config |-> v.provider_config,
             resources |-> v.resources, data_sources |-> v.data_sources]
    BY <2>1, Zenon DEF StoredSchema
  <2>3. v.source = Request.source /\ v.version = Request.version
    <3>1. v = [source |-> Request.source, version |-> Request.version, provider_config |-> v.provider_config,
               resources |-> v.resources, data_sources |-> v.data_sources]
      BY DEF SettledSchema
    <3> QED
      BY <3>1
  <2>4. v = [source |-> v.source, version |-> v.version, provider_config |-> v.provider_config,
             resources |-> v.resources, data_sources |-> v.data_sources]
    BY <2>3 DEF SettledSchema
  <2> QED
    BY <2>2, <2>4, Zenon
<1>5. both = Good([raw |-> <<>>, normalized |-> <<v>>])
  <2>1. FinishedDocument(found) = Good([raw |-> <<>>, normalized |-> <<StoredSchema(found)>>])
    BY <1>1, <1>3, Zenon DEF FinishedDocument
  <2> QED
    BY <1>1, <1>4, <2>1, Zenon
<1>6. both.error = <<>> /\ both.value.normalized # <<>> /\ both.value.normalized[1] = v
  <2> HIDE DEF both
  <2>1. both.error = <<>> /\ both.value = [raw |-> <<>>, normalized |-> <<v>>]
    BY <1>5, ResultsAre
  <2>2. both.value.normalized = <<v>>
    BY <2>1
  <2> QED
    BY <2>1, <2>2, ListOne
<1>7. ReadSchemaFile(j) = IF both.error # <<>> THEN ReadTwice(j)
                          ELSE IF both.value.normalized # <<>> THEN SchemaFile("normalized", Good(both.value.normalized[1]))
                          ELSE IF both.value.raw # <<>> THEN SchemaFile("raw", NormalizedDocument(both.value.raw[1]))
                          ELSE ReadTwice(j)
  BY Zenon DEF ReadSchemaFile
<1> HIDE DEF both
<1>8. ReadSchemaFile(j) = SchemaFile("normalized", Good(v))
  BY <1>6, <1>7
<1> QED
  BY <1>8

-----------------------------------------------------------------------------
\* The reader: compacting keeps the tokens, however a text comes in chunks.

-----------------------------------------------------------------------------
\* What a prefix with one byte more is, and what is left of a text.
LEMMA PrefixGrows ==
  ASSUME NEW t \in ByteText, NEW n \in Nat, n < Len(t)
  PROVE  /\ Len(t) \in Nat /\ n + 1 \in 1..Len(t) /\ t[n + 1] \in Bytes
         /\ SubSeq(t, 1, n) \in ByteText
         /\ SubSeq(t, 1, n + 1) = Append(SubSeq(t, 1, n), t[n + 1])
<1>1. Len(t) \in Nat /\ \A i \in 1..Len(t) : t[i] \in Bytes
  BY DEF ByteText
<1>2. n + 1 \in 1..Len(t)
  BY <1>1
<1>3. SubSeq(t, 1, n) \in ByteText /\ SubSeq(t, 1, n + 1) = Append(SubSeq(t, 1, n), t[n + 1])
  BY <1>1, <1>2 DEF ByteText
<1> QED
  BY <1>1, <1>2, <1>3

-----------------------------------------------------------------------------
\* The states of pushing the first n bytes of a chunk.
Pushes(run, first, chunk, n) ==
  /\ DOMAIN run = 0..n /\ run[0] = first
  /\ \A i \in 1..n : run[i] = Push(run[i - 1], chunk[i])

\* Pushing a chunk ends where some run of single pushes ends.
LEMMA PushAllRuns ==
  ASSUME NEW first, NEW chunk \in ByteText
  PROVE  \E run : Pushes(run, first, chunk, Len(chunk)) /\ PushAll(first, chunk) = run[Len(chunk)]
<1> DEFINE N == Len(chunk)
           Follows(f) == f = [n \in 0..N |-> IF n = 0 THEN first ELSE Push(f[n - 1], chunk[n])]
           chosen == CHOOSE f : Follows(f)
           Astray == {n \in 0..N : ~ \E run : Pushes(run, first, chunk, n)}
<1>1. N \in Nat
  BY DEF ByteText
<1>2. PushAll(first, chunk) = chosen[N]
  BY DEF PushAll
<1> HIDE DEF N
<1>3. ASSUME Astray # {} PROVE FALSE
  <2>1. PICK m \in Astray : \A n \in Astray : m <= n
    <3>1. Astray \in SUBSET Nat
      BY <1>1
    <3> QED
      BY <1>3, <3>1, LeastNumber
  <2>2. m # 0
    <3>1. Pushes([i \in 0..0 |-> first], first, chunk, 0)
      BY DEF Pushes
    <3> QED
      BY <2>1, <3>1
  <2>3. m - 1 \in 0..N /\ m - 1 \notin Astray /\ m \in 1..N
    BY <2>1, <2>2, <1>1
  <2>4. PICK run : Pushes(run, first, chunk, m - 1)
    BY <2>3
  <2> DEFINE longer == [i \in 0..m |-> IF i = m THEN Push(run[m - 1], chunk[m]) ELSE run[i]]
  <2>5. Pushes(longer, first, chunk, m)
    BY <2>3, <2>4 DEF Pushes
  <2> HIDE DEF longer
  <2> QED
    BY <2>1, <2>5
<1>4. PICK run : Pushes(run, first, chunk, N)
  BY <1>1, <1>3
<1>5. Follows([n \in 0..N |-> run[n]])
  BY <1>1, <1>4 DEF Pushes
<1>6. Follows(chosen)
  BY <1>5
<1> HIDE DEF chosen, Astray
<1>7. Pushes(chosen, first, chunk, N)
  BY <1>1, <1>6 DEF Pushes
<1> QED
  BY <1>2, <1>7 DEF N

\* Scanning a text ends where every run of single steps ends.
LEMMA ScanRuns ==
  ASSUME NEW t \in ByteText
  PROVE  \E run : Scans(run, t, Len(t)) /\ Scan(t) = run[Len(t)]
<1> DEFINE N == Len(t)
           Follows(f) == f = [n \in 0..N |-> IF n = 0 THEN Nowhere ELSE ScanStep(f[n - 1], t[n])]
           chosen == CHOOSE f : Follows(f)
           Astray == {n \in 0..N : ~ \E run : Scans(run, t, n)}
<1>1. N \in Nat
  BY DEF ByteText
<1>2. Scan(t) = chosen[N]
  BY DEF Scan, Nowhere
<1> HIDE DEF N
<1>3. ASSUME Astray # {} PROVE FALSE
  <2>1. PICK m \in Astray : \A n \in Astray : m <= n
    <3>1. Astray \in SUBSET Nat
      BY <1>1
    <3> QED
      BY <1>3, <3>1, LeastNumber
  <2>2. m # 0
    <3>1. Scans([i \in 0..0 |-> Nowhere], t, 0)
      BY DEF Scans
    <3> QED
      BY <2>1, <3>1
  <2>3. m - 1 \in 0..N /\ m - 1 \notin Astray /\ m \in 1..N
    BY <2>1, <2>2, <1>1
  <2>4. PICK run : Scans(run, t, m - 1)
    BY <2>3
  <2> DEFINE longer == [i \in 0..m |-> IF i = m THEN ScanStep(run[m - 1], t[m]) ELSE run[i]]
  <2>5. Scans(longer, t, m)
    BY <2>3, <2>4 DEF Scans
  <2> HIDE DEF longer
  <2> QED
    BY <2>1, <2>5
<1>4. PICK run : Scans(run, t, N)
  BY <1>1, <1>3
<1>5. Follows([n \in 0..N |-> run[n]])
  BY <1>1, <1>4 DEF Scans
<1>6. Follows(chosen)
  BY <1>5
<1> HIDE DEF chosen, Astray
<1>7. Scans(chosen, t, N)
  BY <1>1, <1>6 DEF Scans
<1> QED
  BY <1>2, <1>7 DEF N

\* Two runs over texts that begin alike agree as long as these do.
LEMMA ScansAgree ==
  ASSUME NEW s, NEW t, NEW n \in Nat, \A i \in 1..n : s[i] = t[i],
         NEW run, Scans(run, s, n),
         NEW other, NEW last \in Nat, n <= last, Scans(other, t, last)
  PROVE  run[n] = other[n]
<1> DEFINE Astray == {i \in 0..n : run[i] # other[i]}
<1>1. ASSUME Astray # {} PROVE FALSE
  <2>1. PICK m \in Astray : \A i \in Astray : m <= i
    <3>1. Astray \in SUBSET Nat
      OBVIOUS
    <3> QED
      BY <1>1, <3>1, LeastNumber
  <2>2. m # 0
    BY <2>1 DEF Scans
  <2>3. m - 1 \in 0..n /\ m - 1 \notin Astray /\ m \in 1..n /\ m \in 1..last
    BY <2>1, <2>2
  <2>4. run[m - 1] = other[m - 1] /\ s[m] = t[m]
    BY <2>3
  <2>5. run[m] = ScanStep(run[m - 1], s[m]) /\ other[m] = ScanStep(other[m - 1], t[m])
    BY <2>3 DEF Scans
  <2> QED
    BY <2>1, <2>4, <2>5
<1> QED
  BY <1>1

\* A byte more is a step more.
LEMMA ScanAppend ==
  ASSUME NEW t \in ByteText, NEW byte \in Bytes
  PROVE  Scan(Append(t, byte)) = ScanStep(Scan(t), byte)
<1> DEFINE u == Append(t, byte)
           n == Len(t)
<1>1. n \in Nat /\ u \in ByteText /\ Len(u) = n + 1 /\ u[n + 1] = byte
      /\ \A i \in 1..n : t[i] = u[i]
  BY DEF ByteText
<1>2. PICK run : Scans(run, t, n) /\ Scan(t) = run[n]
  BY ScanRuns
<1> HIDE DEF u, n
<1>3. PICK longer : Scans(longer, u, Len(u)) /\ Scan(u) = longer[Len(u)]
  BY <1>1, ScanRuns
<1>4. Scans(longer, u, n + 1) /\ Scan(u) = longer[n + 1]
  BY <1>1, <1>3
<1>5. n + 1 \in Nat /\ n <= n + 1 /\ n + 1 \in 1..(n + 1) /\ (n + 1) - 1 = n
  BY <1>1
<1>6. run[n] = longer[n]
  BY <1>1, <1>2, <1>4, <1>5, ScansAgree
<1>7. longer[n + 1] = ScanStep(longer[n], u[n + 1])
  BY <1>4, <1>5 DEF Scans
<1> QED
  BY <1>1, <1>2, <1>4, <1>6, <1>7 DEF u

\* Nothing has no tokens.
LEMMA ScanEmpty == Scan(<<>>) = Nowhere
<1>1. <<>> \in ByteText /\ Len(<<>>) = 0
  BY DEF ByteText
<1>2. PICK run : Scans(run, <<>>, Len(<<>>)) /\ Scan(<<>>) = run[Len(<<>>)]
  BY <1>1, ScanRuns
<1> QED
  BY <1>1, <1>2 DEF Scans

-----------------------------------------------------------------------------
\* Tokens whose last one, or another one, ends in a byte.
Longer(a, byte) == [a.tokens EXCEPT ![Len(a.tokens)] = Append(@, byte)]
Another(a, byte) == Append(a.tokens, <<byte>>)
Seen(tokens, in) == [tokens |-> tokens, in |-> in]

\* What a step of the scanner does, case by case.
LEMMA ScanStepCases ==
  ASSUME NEW a, IsSeen(a), NEW byte \in Bytes
  PROVE  /\ a.in = "escape" => ScanStep(a, byte) = Seen(Longer(a, byte), "string")
         /\ a.in = "string" /\ byte = Quote => ScanStep(a, byte) = Seen(Longer(a, byte), "none")
         /\ a.in = "string" /\ byte = Backslash => ScanStep(a, byte) = Seen(Longer(a, byte), "escape")
         /\ a.in = "string" /\ byte \notin {Quote, Backslash}
              => ScanStep(a, byte) = Seen(Longer(a, byte), "string")
         /\ a.in \in {"none", "atom"} /\ byte = Space => ScanStep(a, byte) = Seen(a.tokens, "none")
         /\ a.in \in {"none", "atom"} /\ byte = Quote
              => ScanStep(a, byte) = Seen(Another(a, byte), "string")
         /\ a.in = "none" /\ byte = Atom => ScanStep(a, byte) = Seen(Another(a, byte), "atom")
         /\ a.in = "atom" /\ byte = Atom => ScanStep(a, byte) = Seen(Longer(a, byte), "atom")
         /\ a.in \in {"none", "atom"} /\ byte \in {Mark, Backslash}
              => ScanStep(a, byte) = Seen(Another(a, byte), "none")
<1>1. a.in = "escape" => ScanStep(a, byte) = Seen(Longer(a, byte), "string")
  BY DEF ScanStep, Longer, Seen
<1>2. a.in = "string" /\ byte = Quote => ScanStep(a, byte) = Seen(Longer(a, byte), "none")
  BY DEF ScanStep, Longer, Seen, Quote, Backslash
<1>3. a.in = "string" /\ byte = Backslash => ScanStep(a, byte) = Seen(Longer(a, byte), "escape")
  BY DEF ScanStep, Longer, Seen, Quote, Backslash
<1>4. a.in = "string" /\ byte \notin {Quote, Backslash}
        => ScanStep(a, byte) = Seen(Longer(a, byte), "string")
  BY DEF ScanStep, Longer, Seen, Quote, Backslash
<1>5. a.in \in {"none", "atom"} /\ byte = Space => ScanStep(a, byte) = Seen(a.tokens, "none")
  <2>1. [a EXCEPT !.in = "none"] = Seen(a.tokens, "none")
    BY DEF IsSeen, Seen
  <2> QED
    BY <2>1 DEF ScanStep, Space, Quote, Backslash, Atom
<1>6. a.in \in {"none", "atom"} /\ byte = Quote
        => ScanStep(a, byte) = Seen(Another(a, byte), "string")
  BY DEF ScanStep, Another, Seen, Space, Quote, Backslash, Atom
<1>7. a.in = "none" /\ byte = Atom => ScanStep(a, byte) = Seen(Another(a, byte), "atom")
  BY DEF ScanStep, Another, Seen, Space, Quote, Backslash, Atom
<1>8. a.in = "atom" /\ byte = Atom => ScanStep(a, byte) = Seen(Longer(a, byte), "atom")
  BY DEF ScanStep, Longer, Seen, Space, Quote, Backslash, Atom
<1>9. a.in \in {"none", "atom"} /\ byte \in {Mark, Backslash}
        => ScanStep(a, byte) = Seen(Another(a, byte), "none")
  BY DEF ScanStep, Another, Seen, Space, Quote, Backslash, Atom, Mark
<1> QED
  BY <1>1, <1>2, <1>3, <1>4, <1>5, <1>6, <1>7, <1>8, <1>9

-----------------------------------------------------------------------------
\* The reader starts with nothing read.
LEMMA StartAgrees == Start \in Compactings /\ Agrees(Start, <<>>)
<1>1. <<>> \in ByteText
  BY DEF ByteText
<1>2. IsSeen(Nowhere) /\ Nowhere.in = "none"
  BY DEF Nowhere, IsSeen, ScanModes
<1> QED
  BY <1>1, <1>2, ScanEmpty DEF Start, Compactings, Agrees

\* A state of the reader made of its parts.
Compacting(compact, in_string, escaped, pending, dropped) ==
  [compact |-> compact, in_string |-> in_string, escaped |-> escaped, pending |-> pending,
   dropped |-> dropped]

\* Whether a space must stand between what is kept and the next byte.
Apart(c, byte) == c.pending /\ c.compact # <<>> /\ Last(c.compact) = Atom /\ byte = Atom

\* What the push of one byte does, case by case.
LEMMA PushCases ==
  ASSUME NEW c \in Compactings, NEW byte \in Bytes
  PROVE  /\ c.in_string =>
              Push(c, byte) = Compacting(Append(c.compact, byte), byte # Quote \/ c.escaped,
                                         byte = Backslash /\ ~c.escaped, c.pending, c.dropped)
         /\ ~c.in_string /\ byte = Space =>
              Push(c, byte) = Compacting(c.compact, FALSE, c.escaped, TRUE, TRUE)
         /\ ~c.in_string /\ byte # Space /\ Apart(c, byte) =>
              Push(c, byte) = Compacting(Append(Append(c.compact, Space), byte), byte = Quote,
                                         c.escaped, FALSE, c.dropped)
         /\ ~c.in_string /\ byte # Space /\ ~Apart(c, byte) =>
              Push(c, byte) = Compacting(Append(c.compact, byte), byte = Quote,
                                         c.escaped, FALSE, c.dropped)
<1>1. /\ c = Compacting(c.compact, c.in_string, c.escaped, c.pending, c.dropped)
      /\ ~c.in_string => c.in_string = FALSE
  BY DEF Compactings, Compacting
<1>2. /\ c.compact \in ByteText /\ Append(c.compact, Space) \in ByteText
      /\ c.compact \o <<byte>> = Append(c.compact, byte)
      /\ Append(c.compact, Space) \o <<byte>> = Append(Append(c.compact, Space), byte)
  <2>1. c.compact \in ByteText
    BY DEF Compactings
  <2>2. \A t \in ByteText : t \o <<byte>> = Append(t, byte) /\ Append(t, Space) \in ByteText
    BY DEF ByteText, Bytes
  <2> QED
    BY <2>1, <2>2
<1>3. CASE c.in_string
  BY <1>1, <1>3 DEF Push, Compacting
<1>4. CASE ~c.in_string /\ byte = Space
  <2>1. Push(c, byte) = [c EXCEPT !.pending = TRUE, !.dropped = TRUE]
    BY <1>4 DEF Push
  <2> QED
    BY <1>1, <1>4, <2>1 DEF Compacting
<1>5. ASSUME ~c.in_string, byte # Space, NEW kept,
             kept = IF Apart(c, byte) THEN Append(c.compact, Space) ELSE c.compact
      PROVE  Push(c, byte) = Compacting(kept \o <<byte>>, byte = Quote, c.escaped, FALSE, c.dropped)
  <2>1. Push(c, byte) = [c EXCEPT !.compact = kept \o <<byte>>, !.pending = FALSE,
                                  !.in_string = byte = Quote]
    BY <1>5 DEF Push, Apart
  <2> DEFINE new == kept \o <<byte>>
  <2> HIDE DEF new
  <2> QED
    BY <1>1, <2>1 DEF Compacting, new
<1>6. CASE ~c.in_string /\ byte # Space /\ Apart(c, byte)
  BY <1>2, <1>5, <1>6
<1>7. CASE ~c.in_string /\ byte # Space /\ ~Apart(c, byte)
  BY <1>2, <1>5, <1>7
<1> QED
  BY <1>3, <1>4, <1>6, <1>7

\* A byte appended is the last one.
LEMMA LastAppended ==
  ASSUME NEW t \in ByteText, NEW byte \in Bytes
  PROVE  Append(t, byte) \in ByteText /\ Append(t, byte) # <<>> /\ Last(Append(t, byte)) = byte
  BY DEF Last, ByteText

\* A byte more, and the reader is in what it should be in.
LEMMA PushAgrees ==
  ASSUME NEW c \in Compactings, NEW read \in ByteText, Agrees(c, read), NEW byte \in Bytes
  PROVE  Push(c, byte) \in Compactings /\ Agrees(Push(c, byte), Append(read, byte))
<1> DEFINE kept == Scan(c.compact)
           seen == Scan(read)
<1>1. /\ c.compact \in ByteText /\ c.in_string \in BOOLEAN /\ c.escaped \in BOOLEAN
      /\ c.pending \in BOOLEAN /\ c.dropped \in BOOLEAN
  BY DEF Compactings
<1>2. /\ kept.tokens = seen.tokens /\ IsSeen(kept) /\ IsSeen(seen)
      /\ c.in_string <=> seen.in \in {"string", "escape"}
      /\ c.escaped <=> seen.in = "escape"
      /\ c.pending => seen.in = "none" /\ kept.in \in {"none", "atom"}
      /\ ~c.pending => seen.in = kept.in
      /\ kept.in = "atom" <=> ~c.in_string /\ c.compact # <<>> /\ Last(c.compact) = Atom
      /\ ~c.dropped => c.compact = read /\ ~c.pending
  BY DEF Agrees
<1>3. Scan(Append(c.compact, byte)) = ScanStep(kept, byte) /\ Scan(Append(read, byte)) = ScanStep(seen, byte)
  BY <1>1, ScanAppend
<1>4. /\ Append(c.compact, byte) \in ByteText /\ Append(c.compact, byte) # <<>>
      /\ Last(Append(c.compact, byte)) = byte
  BY <1>1, LastAppended
<1>5. Longer(kept, byte) = Longer(seen, byte) /\ Another(kept, byte) = Another(seen, byte)
  BY <1>2 DEF Longer, Another
<1>6. \A tokens, in : in \in ScanModes =>
        IsSeen(Seen(tokens, in)) /\ Seen(tokens, in).tokens = tokens /\ Seen(tokens, in).in = in
  BY DEF IsSeen, Seen
<1>7. /\ kept.in \in ScanModes /\ seen.in \in ScanModes
      /\ \A in \in {"none", "string", "escape", "atom"} : in \in ScanModes
  BY <1>2 DEF IsSeen, ScanModes
<1> DEFINE K == Scan(Append(c.compact, byte))
           S == Scan(Append(read, byte))
<1> HIDE DEF kept, seen
<1>9. CASE c.in_string
  <2> DEFINE s == byte # Quote \/ c.escaped
             e == byte = Backslash /\ ~c.escaped
             n == Compacting(Append(c.compact, byte), s, e, c.pending, c.dropped)
  <2>1. Push(c, byte) = n
    BY <1>9, PushCases
  <2>2. /\ n \in Compactings /\ n.compact = Append(c.compact, byte) /\ n.in_string = s
        /\ n.escaped = e /\ n.pending = c.pending /\ n.dropped = c.dropped
    <3>1. s \in BOOLEAN /\ e \in BOOLEAN
      OBVIOUS
    <3> HIDE DEF s, e
    <3> QED
      BY <1>1, <1>4, <3>1 DEF Compacting, Compactings
  <2>3. ~c.pending /\ kept.in = seen.in /\ seen.in \in {"string", "escape"}
    BY <1>2, <1>9
  <2>4. K = S /\ IsSeen(S)
        /\ S.in = (IF seen.in = "escape" THEN "string" ELSE IF byte = Quote THEN "none"
                   ELSE IF byte = Backslash THEN "escape" ELSE "string")
    <3> DEFINE longer == Longer(seen, byte)
    <3>1. Longer(kept, byte) = longer
      BY <1>5
    <3>2. \A in \in ScanModes : IsSeen(Seen(longer, in)) /\ Seen(longer, in).in = in
      BY <1>6
    <3> HIDE DEF longer
    <3>3. CASE seen.in = "escape"
      <4>1. K = Seen(longer, "string") /\ S = Seen(longer, "string")
        BY <1>2, <1>3, <2>3, <3>1, <3>3, ScanStepCases DEF longer
      <4> QED
        BY <1>7, <3>2, <3>3, <4>1
    <3>4. CASE seen.in = "string" /\ byte = Quote
      <4>1. K = Seen(longer, "none") /\ S = Seen(longer, "none")
        BY <1>2, <1>3, <2>3, <3>1, <3>4, ScanStepCases DEF longer
      <4> QED
        BY <1>7, <3>2, <3>4, <4>1
    <3>5. CASE seen.in = "string" /\ byte = Backslash
      <4>1. K = Seen(longer, "escape") /\ S = Seen(longer, "escape")
        BY <1>2, <1>3, <2>3, <3>1, <3>5, ScanStepCases DEF longer
      <4> QED
        BY <1>7, <3>2, <3>5, <4>1 DEF Quote, Backslash
    <3>6. CASE seen.in = "string" /\ byte \notin {Quote, Backslash}
      <4>1. K = Seen(longer, "string") /\ S = Seen(longer, "string")
        BY <1>2, <1>3, <2>3, <3>1, <3>6, ScanStepCases DEF longer
      <4> QED
        BY <1>7, <3>2, <3>6, <4>1
    <3> QED
      BY <2>3, <3>3, <3>4, <3>5, <3>6
  <2> HIDE DEF n, K, S
  <2>5. Scan(n.compact) = K /\ Scan(Append(read, byte)) = S
    BY <2>2 DEF K, S
  <2>6. /\ n.in_string <=> S.in \in {"string", "escape"}
        /\ n.escaped <=> S.in = "escape"
    BY <1>2, <2>2, <2>3, <2>4 DEF Quote, Backslash
  <2>7. K.in = "atom" <=> ~n.in_string /\ n.compact # <<>> /\ Last(n.compact) = Atom
    <3>1. K.in # "atom"
      BY <2>4
    <3>2. ~n.in_string => byte # Atom
      BY <2>2 DEF Quote, Atom
    <3>3. Last(n.compact) = byte
      BY <1>4, <2>2
    <3> QED
      BY <3>1, <3>2, <3>3
  <2>8. ~n.dropped => n.compact = Append(read, byte) /\ ~n.pending
    BY <1>2, <2>2
  <2>9. ~n.pending
    BY <2>2, <2>3
  <2>10. Agrees(n, Append(read, byte))
    BY <2>4, <2>5, <2>6, <2>7, <2>8, <2>9 DEF Agrees
  <2> QED
    BY <2>1, <2>2, <2>10
<1>10. CASE ~c.in_string /\ byte = Space
  <2> DEFINE n == Compacting(c.compact, FALSE, c.escaped, TRUE, TRUE)
  <2>1. Push(c, byte) = n
    BY <1>10, PushCases
  <2>2. /\ n \in Compactings /\ n.compact = c.compact /\ n.in_string = FALSE
        /\ n.escaped = c.escaped /\ n.pending = TRUE /\ n.dropped = TRUE
    BY <1>1 DEF Compacting, Compactings
  <2>3. seen.in \in {"none", "atom"} /\ ~c.escaped /\ kept.in \in {"none", "atom"}
    BY <1>2, <1>7, <1>10 DEF ScanModes
  <2>4. S.tokens = kept.tokens /\ IsSeen(S) /\ S.in = "none"
    BY <1>2, <1>3, <1>6, <1>7, <1>10, <2>3, ScanStepCases
  <2> HIDE DEF n, K, S
  <2>5. Agrees(n, Append(read, byte))
    BY <1>2, <1>10, <2>2, <2>3, <2>4 DEF Agrees, S, kept
  <2> QED
    BY <2>1, <2>2, <2>5
<1>11. ASSUME ~c.in_string
       PROVE  ~c.escaped /\ seen.in \in {"none", "atom"} /\ kept.in \in {"none", "atom"}
  BY <1>2, <1>7, <1>11 DEF ScanModes
<1>12. ASSUME NEW n \in Compactings, NEW in, in = (IF byte = Quote THEN "string" ELSE IF byte = Atom THEN "atom" ELSE "none"),
              n.in_string = (byte = Quote), ~n.escaped, ~n.pending, n.dropped = c.dropped,
              ~c.in_string, byte # Space, Scan(n.compact) = S, IsSeen(S), S.in = in,
              n.compact # <<>>, Last(n.compact) = byte, ~c.dropped => n.compact = Append(c.compact, byte)
       PROVE  Agrees(n, Append(read, byte))
  <2>1. Scan(Append(read, byte)) = S
    OBVIOUS
  <2> HIDE DEF S
  <2>2. /\ n.in_string <=> S.in \in {"string", "escape"}
        /\ n.escaped <=> S.in = "escape"
    BY <1>12 DEF Quote, Atom
  <2>3. S.in = "atom" <=> ~n.in_string /\ n.compact # <<>> /\ Last(n.compact) = Atom
    BY <1>12 DEF Quote, Atom
  <2>4. ~n.dropped => n.compact = Append(read, byte) /\ ~n.pending
    BY <1>2, <1>12
  <2> QED
    BY <1>12, <2>1, <2>2, <2>3, <2>4 DEF Agrees
<1>13. CASE ~c.in_string /\ byte # Space /\ Apart(c, byte)
  <2> DEFINE t == Append(c.compact, Space)
             n == Compacting(Append(t, byte), byte = Quote, c.escaped, FALSE, c.dropped)
             M == Scan(t)
  <2>1. Push(c, byte) = n
    BY <1>13, PushCases
  <2>2. t \in ByteText /\ Append(t, byte) \in ByteText /\ Append(t, byte) # <<>> /\ Last(Append(t, byte)) = byte
    BY <1>1, LastAppended DEF Bytes
  <2>3. /\ n \in Compactings /\ n.compact = Append(t, byte) /\ n.in_string = (byte = Quote)
        /\ n.escaped = c.escaped /\ n.pending = FALSE /\ n.dropped = c.dropped
    BY <1>1, <2>2 DEF Compacting, Compactings
  <2>4. byte = Atom /\ c.pending /\ c.dropped /\ seen.in = "none" /\ kept.in = "atom"
    BY <1>2, <1>13 DEF Apart
  <2>5. M = Seen(kept.tokens, "none")
    <3>1. M = ScanStep(kept, Space)
      BY <1>1, ScanAppend DEF Bytes, kept
    <3> QED
      BY <1>2, <2>4, <3>1, ScanStepCases DEF Bytes
  <2>6. IsSeen(M) /\ M.in = "none" /\ M.tokens = kept.tokens
    BY <1>6, <1>7, <2>5
  <2>7. Scan(Append(t, byte)) = ScanStep(M, byte)
    BY <2>2, ScanAppend
  <2> HIDE DEF t, n, M
  <2>8. Scan(n.compact) = Seen(Another(M, byte), "atom") /\ S = Seen(Another(seen, byte), "atom")
    BY <1>2, <1>3, <2>3, <2>4, <2>6, <2>7, ScanStepCases
  <2>9. Another(M, byte) = Another(seen, byte)
    BY <1>2, <2>6 DEF Another
  <2>10. Scan(n.compact) = S /\ IsSeen(S) /\ S.in = "atom"
    BY <1>6, <1>7, <2>8, <2>9
  <2>11. Agrees(n, Append(read, byte))
    BY <1>11, <1>12, <1>13, <2>2, <2>3, <2>4, <2>10 DEF Quote, Atom
  <2> QED
    BY <2>1, <2>3, <2>11
<1>14. CASE ~c.in_string /\ byte # Space /\ ~Apart(c, byte)
  <2> DEFINE n == Compacting(Append(c.compact, byte), byte = Quote, c.escaped, FALSE, c.dropped)
  <2>1. Push(c, byte) = n
    BY <1>14, PushCases
  <2>2. /\ n \in Compactings /\ n.compact = Append(c.compact, byte) /\ n.in_string = (byte = Quote)
        /\ n.escaped = c.escaped /\ n.pending = FALSE /\ n.dropped = c.dropped
    BY <1>1, <1>4 DEF Compacting, Compactings
  <2>3. K = S /\ IsSeen(S)
        /\ S.in = (IF byte = Quote THEN "string" ELSE IF byte = Atom THEN "atom" ELSE "none")
    <3> DEFINE longer == Longer(seen, byte)
               another == Another(seen, byte)
    <3>1. Longer(kept, byte) = longer /\ Another(kept, byte) = another
      BY <1>5
    <3>2. \A in \in ScanModes : /\ IsSeen(Seen(longer, in)) /\ Seen(longer, in).in = in
                          /\ IsSeen(Seen(another, in)) /\ Seen(another, in).in = in
      BY <1>6
    <3>3. seen.in \in {"none", "atom"} /\ kept.in \in {"none", "atom"}
      BY <1>11, <1>14
    <3>4. CASE byte = Quote
      <4>1. K = Seen(another, "string") /\ S = Seen(another, "string")
        BY <1>2, <1>3, <3>1, <3>3, <3>4, ScanStepCases
      <4> HIDE DEF longer, another
      <4> QED
        BY <1>7, <3>2, <3>4, <4>1
    <3>5. CASE byte \in {Mark, Backslash}
      <4>1. K = Seen(another, "none") /\ S = Seen(another, "none")
        BY <1>2, <1>3, <3>1, <3>3, <3>5, ScanStepCases
      <4> HIDE DEF longer, another
      <4> QED
        BY <1>7, <3>2, <3>5, <4>1 DEF Mark, Backslash, Quote, Atom
    <3>6. CASE byte = Atom
      <4>1. kept.in = seen.in
        BY <1>2, <1>14, <3>3, <3>6 DEF Apart
      <4>2. \/ K = Seen(another, "atom") /\ S = Seen(another, "atom")
            \/ K = Seen(longer, "atom") /\ S = Seen(longer, "atom")
        BY <1>2, <1>3, <3>1, <3>3, <3>6, <4>1, ScanStepCases
      <4> HIDE DEF longer, another
      <4> QED
        BY <1>7, <3>2, <3>6, <4>2 DEF Quote, Atom
    <3> QED
      BY <1>14, <3>4, <3>5, <3>6 DEF Bytes
  <2> HIDE DEF n
  <2>4. Scan(n.compact) = S
    BY <2>2, <2>3 DEF K
  <2>5. n.compact # <<>> /\ Last(n.compact) = byte
    BY <1>4, <2>2
  <2>6. Agrees(n, Append(read, byte))
    BY <1>11, <1>12, <1>14, <2>2, <2>3, <2>4, <2>5
  <2> QED
    BY <2>1, <2>2, <2>6
<1> QED
  BY <1>9, <1>10, <1>13, <1>14

\* And so for every byte of a chunk, which is the part of a text after the first k.
LEMMA PushAllAgrees ==
  ASSUME NEW c \in Compactings, NEW t \in ByteText, NEW k \in Nat, NEW chunk \in ByteText,
         k + Len(chunk) <= Len(t), \A i \in 1..Len(chunk) : chunk[i] = t[k + i],
         Agrees(c, SubSeq(t, 1, k))
  PROVE  /\ PushAll(c, chunk) \in Compactings
         /\ Agrees(PushAll(c, chunk), SubSeq(t, 1, k + Len(chunk)))
<1> DEFINE N == Len(chunk)
           Goes(n, d) == d \in Compactings /\ Agrees(d, SubSeq(t, 1, k + n))
<1>1. N \in Nat /\ Len(t) \in Nat
  BY DEF ByteText
<1>2. PICK run : Pushes(run, c, chunk, N) /\ PushAll(c, chunk) = run[N]
  BY PushAllRuns
<1> DEFINE Astray == {n \in 0..N : ~Goes(n, run[n])}
<1> HIDE DEF N
<1>3. ASSUME Astray # {} PROVE FALSE
  <2>1. PICK m \in Astray : \A n \in Astray : m <= n
    <3>1. Astray \in SUBSET Nat
      BY <1>1
    <3> QED
      BY <1>3, <3>1, LeastNumber
  <2>2. m # 0
    <3>1. Goes(0, run[0])
      BY <1>2 DEF Pushes
    <3> QED
      BY <2>1, <3>1
  <2>3. m - 1 \in 0..N /\ m - 1 \notin Astray /\ m \in 1..N
    BY <2>1, <2>2, <1>1
  <2>4. run[m - 1] \in Compactings /\ Agrees(run[m - 1], SubSeq(t, 1, k + (m - 1)))
    BY <2>3
  <2> DEFINE j == k + (m - 1)
  <2>5. j \in Nat /\ j < Len(t) /\ j + 1 = k + m
    BY <1>1, <2>3 DEF N
  <2>6. run[m] = Push(run[m - 1], chunk[m]) /\ chunk[m] = t[j + 1]
    BY <1>2, <2>3, <2>5 DEF Pushes, N
  <2> HIDE DEF j
  <2>7. /\ t[j + 1] \in Bytes /\ SubSeq(t, 1, j) \in ByteText
        /\ SubSeq(t, 1, j + 1) = Append(SubSeq(t, 1, j), t[j + 1])
    BY <2>5, PrefixGrows
  <2>8. Agrees(run[m - 1], SubSeq(t, 1, j))
    BY <2>4 DEF j
  <2>9. /\ Push(run[m - 1], t[j + 1]) \in Compactings
        /\ Agrees(Push(run[m - 1], t[j + 1]), Append(SubSeq(t, 1, j), t[j + 1]))
    BY <2>4, <2>7, <2>8, PushAgrees
  <2>10. Goes(m, run[m])
    BY <2>5, <2>6, <2>7, <2>9
  <2> QED
    BY <2>1, <2>10
<1> HIDE DEF Goes
<1>4. Goes(N, run[N])
  BY <1>1, <1>3
<1> QED
  BY <1>2, <1>4 DEF N, Goes

-----------------------------------------------------------------------------
\* What is left of a text after its first k bytes.
LEMMA SuffixForm ==
  ASSUME NEW t \in ByteText, NEW k \in 0..Len(t)
  PROVE  LET r == SubSeq(t, k + 1, Len(t)) IN
         r \in ByteText /\ Len(r) = Len(t) - k /\ \A i \in 1..(Len(t) - k) : r[i] = t[k + i]
<1>1. Len(t) \in Nat /\ k \in Nat /\ k <= Len(t)
  BY DEF ByteText
<1> QED
  BY <1>1 DEF ByteText

\* What is left after the first k bytes.
LEMMA RestForm ==
  ASSUME NEW t \in ByteText, NEW k \in 0..Len(t), NEW r, r = SubSeq(t, k + 1, Len(t))
  PROVE  /\ r \in ByteText /\ Len(r) \in Nat /\ Len(t) \in Nat /\ Len(r) = Len(t) - k
         /\ SubSeq(t, 1, k) \o r = t
<1>1. Len(t) \in Nat /\ k \in Nat /\ k <= Len(t)
  BY DEF ByteText
<1>2. r \in ByteText /\ Len(r) = Len(t) - k
  BY SuffixForm
<1>3. t \in Seq(Bytes) /\ 1 \in 1..(Len(t) + 1) /\ k \in (1 - 1)..Len(t) /\ Len(t) \in k..Len(t)
  BY <1>1 DEF ByteText
<1>4. SubSeq(t, 1, k) \o SubSeq(t, k + 1, Len(t)) = SubSeq(t, 1, Len(t))
  BY <1>3, ConcatAdjacentSubSeq
<1>5. SubSeq(t, 1, Len(t)) = t
  BY <1>3, SubSeqFull
<1>6. Len(r) \in Nat
  BY <1>1, <1>2
<1> QED
  BY <1>1, <1>2, <1>4, <1>5, <1>6

\* What a text begins with, and what it has after its first n bytes.
First(t, n) == SubSeq(t, 1, n)
After(t, n) == SubSeq(t, n + 1, Len(t))

\* A chunk is what the text has after its first k bytes, with `left` after it.
Splits(t, k, n, chunk, left) ==
  /\ k + n \in 1..Len(t)
  /\ chunk \in ByteText /\ Len(chunk) = n
  /\ \A i \in 1..n : chunk[i] = t[k + i]
  /\ left = SubSeq(t, (k + n) + 1, Len(t))

\* A chunk of what is left is a chunk of the text.
LEMMA ChunkForm ==
  ASSUME NEW t \in ByteText, NEW k \in 0..Len(t), NEW r, r = After(t, k), NEW n \in 1..Len(r)
  PROVE  Splits(t, k, n, First(r, n), After(r, n))
<1>1. Len(t) \in Nat /\ k \in Nat /\ k <= Len(t)
  BY DEF ByteText
<1>2. r \in ByteText /\ Len(r) = Len(t) - k /\ \A i \in 1..Len(r) : r[i] = t[k + i]
  BY <1>1, SuffixForm DEF After
<1>3. n \in Nat /\ n <= Len(r) /\ k + n \in 1..Len(t) /\ Len(r) \in Nat
  BY <1>1, <1>2
<1>4. SubSeq(r, 1, n) \in ByteText /\ Len(SubSeq(r, 1, n)) = n
      /\ \A i \in 1..n : SubSeq(r, 1, n)[i] = r[i]
  BY <1>2, <1>3 DEF ByteText
<1>5. \A i \in 1..n : r[i] = t[k + i]
  BY <1>2, <1>3
<1>6. SubSeq(r, n + 1, Len(r)) = SubSeq(t, (k + n) + 1, Len(t))
  <2> DEFINE a == SubSeq(r, n + 1, Len(r))
             b == SubSeq(t, (k + n) + 1, Len(t))
             size == Len(r) - n
  <2>1. size \in Nat /\ n \in 0..Len(r) /\ k + n \in 0..Len(t) /\ Len(t) - (k + n) = size
    BY <1>1, <1>2, <1>3
  <2>2. a \in ByteText /\ Len(a) = size /\ \A i \in 1..size : a[i] = r[n + i]
    BY <1>2, <2>1, SuffixForm
  <2>3. b \in ByteText /\ Len(b) = size /\ \A i \in 1..size : b[i] = t[(k + n) + i]
    <3> DEFINE kn == k + n
    <3>1. kn \in 0..Len(t) /\ Len(t) - kn = size
      BY <2>1
    <3> HIDE DEF kn, size
    <3>2. SubSeq(t, kn + 1, Len(t)) \in ByteText /\ Len(SubSeq(t, kn + 1, Len(t))) = size
          /\ \A i \in 1..size : SubSeq(t, kn + 1, Len(t))[i] = t[kn + i]
      BY <3>1, SuffixForm
    <3> QED
      BY <3>2 DEF kn
  <2>4. \A i \in 1..size : r[n + i] = t[(k + n) + i]
    BY <1>1, <1>2, <1>3, <2>1
  <2> HIDE DEF a, b, size
  <2>5. a = b
    BY <2>1, <2>2, <2>3, <2>4, SeqEqual DEF ByteText
  <2> QED
    BY <2>5 DEF a, b
<1> QED
  BY <1>3, <1>4, <1>5, <1>6 DEF Splits, First, After

-----------------------------------------------------------------------------
\* Nothing is read at first.
LEMMA ReadInitInv == ReadInit => ReadInv
<1> SUFFICES ASSUME ReadInit PROVE ReadInv
  OBVIOUS
<1>1. text \in ByteText /\ rest = text /\ state = Start /\ ~over /\ Len(text) \in Nat
  BY DEF ReadInit, ByteText
<1>2. 0 \in 0..Len(text) /\ rest = SubSeq(text, 0 + 1, Len(text))
  BY <1>1, SubSeqFull DEF ByteText
<1>3. SubSeq(text, 1, 0) = <<>>
  BY <1>1, SubSeqEmpty
<1>4. Start \in Compactings /\ Agrees(Start, <<>>)
  BY StartAgrees
<1>5. 0 = Len(text) => Tokens(Start.compact) = Tokens(text)
  <2>1. 0 = Len(text) => text = <<>>
    BY <1>1, EmptySeq DEF ByteText
  <2> QED
    BY <2>1 DEF Start
<1> QED
  BY <1>1, <1>2, <1>3, <1>4, <1>5 DEF ReadInv

\* A chunk is pushed, and either the rest is still to be read or it is copied.
LEMMA ReadChunkKeeps ==
  ASSUME ReadInv, NEW n \in Chunks, ReadChunk(n)
  PROVE  ReadInv'
<1>1. /\ n \in Nat /\ n # 0 /\ n <= Len(rest)
      /\ ~over /\ over' = over /\ text' = text /\ text \in ByteText
  BY ChunksAssumption DEF ReadChunk, ReadInv
<1>2. PICK k \in 0..Len(text) :
        /\ rest = SubSeq(text, k + 1, Len(text))
        /\ k < Len(text) => state \in Compactings /\ Agrees(state, SubSeq(text, 1, k))
  BY DEF ReadInv
<1>3. rest \in ByteText /\ Len(rest) \in Nat /\ Len(text) \in Nat /\ Len(rest) = Len(text) - k
  <2>1. text \in ByteText /\ k \in 0..Len(text) /\ rest = SubSeq(text, k + 1, Len(text))
    BY <1>1, <1>2
  <2> QED
    BY <2>1, RestForm
<1>4. n \in 1..Len(rest) /\ k \in Nat /\ k < Len(text)
  BY <1>1, <1>2, <1>3
<1> DEFINE chunk == First(rest, n)
           left == After(rest, n)
           pushed == PushAll(state, chunk)
           j == k + n
<1>5. /\ j \in 1..Len(text)
      /\ chunk \in ByteText /\ Len(chunk) = n
      /\ \A i \in 1..n : chunk[i] = text[k + i]
      /\ left = SubSeq(text, j + 1, Len(text))
  <2>1. text \in ByteText /\ k \in 0..Len(text) /\ rest = After(text, k)
    BY <1>1, <1>2 DEF After
  <2>2. Splits(text, k, n, chunk, left)
    BY <1>4, <2>1, ChunkForm
  <2> QED
    BY <2>2 DEF Splits
<1>6. j \in 0..Len(text) /\ j = k + n
  BY <1>3, <1>5
<1>7. pushed \in Compactings /\ Agrees(pushed, SubSeq(text, 1, j))
  <2>1. state \in Compactings /\ Agrees(state, SubSeq(text, 1, k)) /\ k + Len(chunk) <= Len(text)
    BY <1>2, <1>3, <1>4, <1>5
  <2> HIDE DEF chunk, left
  <2> QED
    BY <1>1, <1>4, <1>5, <2>1, PushAllAgrees
<1>8. IF rest = text /\ ~pushed.dropped
        THEN state' = [pushed EXCEPT !.compact = @ \o left] /\ rest' = <<>>
        ELSE state' = pushed /\ rest' = left
  BY DEF ReadChunk, AfterChunk, First, After
<1> HIDE DEF chunk, left, pushed, j
<1>9. CASE rest = text /\ ~pushed.dropped
  <2>1. pushed.compact = SubSeq(text, 1, j)
    BY <1>7, <1>9 DEF Agrees
  <2>2. SubSeq(text, 1, j) \o left = text
    BY <1>1, <1>5, <1>6, RestForm
  <2>3. state'.compact = text
    BY <1>7, <1>8, <1>9, <2>1, <2>2 DEF Compactings
  <2>4. rest' = SubSeq(text, Len(text) + 1, Len(text))
    BY <1>3, <1>8, <1>9, SubSeqEmpty
  <2>5. Len(text) \in 0..Len(text) /\ ~(Len(text) < Len(text))
    BY <1>3
  <2>6. Tokens(state'.compact) = Tokens(text)
    BY <2>3
  <2> QED
    BY <1>1, <2>4, <2>5, <2>6 DEF ReadInv
<1>10. CASE ~(rest = text /\ ~pushed.dropped)
  <2>1. state' = pushed /\ rest' = left
    BY <1>8, <1>10
  <2>2. j = Len(text) => Tokens(pushed.compact) = Tokens(text)
    <3>1. SubSeq(text, 1, Len(text)) = text
      BY <1>1, SubSeqFull DEF ByteText
    <3> QED
      BY <1>7, <3>1 DEF Agrees, Tokens
  <2> QED
    BY <1>1, <1>5, <1>6, <1>7, <2>1, <2>2 DEF ReadInv
<1> QED
  BY <1>9, <1>10

\* Every step keeps the invariant.
LEMMA ReadStepInv == ReadInv /\ [ReadNext]_reader => ReadInv'
<1> SUFFICES ASSUME ReadInv, [ReadNext]_reader PROVE ReadInv'
  OBVIOUS
<1>1. ASSUME NEW n \in Chunks, ReadChunk(n) PROVE ReadInv'
  BY <1>1, ReadChunkKeeps
<1>2. CASE ReadEnd
  BY <1>2 DEF ReadEnd, ReadInv
<1>3. CASE UNCHANGED reader
  BY <1>3 DEF reader, ReadInv
<1> QED
  BY <1>1, <1>2, <1>3 DEF ReadNext

\* The inductive invariant of the reader, for every text and all chunks.
THEOREM ReadingHolds == ReadSpec => []ReadInv
<1>1. ReadInit => ReadInv
  BY ReadInitInv
<1>2. ReadInv /\ [ReadNext]_reader => ReadInv'
  BY ReadStepInv
<1> QED
  BY <1>1, <1>2, PTL DEF ReadSpec

\* However a file of any length is cut into chunks of any sizes, what the reader
\* returns has the tokens of the file (read_compact_json).
THEOREM TokensAreKept == ReadSpec => []TokensKept
<1>1. ReadInv => TokensKept
  <2> SUFFICES ASSUME ReadInv, over PROVE Tokens(state.compact) = Tokens(text)
    BY DEF TokensKept
  <2>1. PICK k \in 0..Len(text) :
          /\ rest = SubSeq(text, k + 1, Len(text))
          /\ k = Len(text) => Tokens(state.compact) = Tokens(text)
    BY DEF ReadInv
  <2>2. text \in ByteText /\ rest = <<>>
    BY DEF ReadInv
  <2>3. Len(text) \in Nat /\ Len(rest) = Len(text) - k
    BY <2>1, <2>2, RestForm
  <2>4. Len(rest) = 0
    BY <2>2
  <2>5. k = Len(text)
    BY <2>3, <2>4
  <2> QED
    BY <2>1, <2>5
<1> QED
  BY <1>1, ReadingHolds, PTL

-----------------------------------------------------------------------------
\* The loader: the decoding theorems along every run of it.

\* Nothing is decoded at first.
LEMMA LoadInitInv == LoadInit => LoadInv
<1> SUFFICES ASSUME LoadInit PROVE LoadInv
  OBVIOUS
<1>1. tree \in AnyJson
  BY FilesAssumption DEF LoadInit
<1>2. /\ from \in {"file", "tofu"}
      /\ stage = IF from = "file" THEN "reading" ELSE "acquire"
      /\ outcome = <<>>
  BY DEF LoadInit
<1> QED
  BY <1>1, <1>2 DEF LoadInv

\* Every step keeps the invariant.
LEMMA LoadStepInv == LoadInv /\ [LoadNext]_load => LoadInv'
<1> SUFFICES ASSUME LoadInv, [LoadNext]_load PROVE LoadInv'
  OBVIOUS
<1>1. CASE Reading
  BY <1>1 DEF Reading, LoadInv, Decoded
<1>2. CASE EndOfFile
  BY <1>2 DEF EndOfFile, LoadInv, Decoded
<1>3. CASE ReadFails
  BY <1>3 DEF ReadFails, LoadInv, Decoded
<1>4. CASE Decode
  <2>1. /\ stage = "decode" /\ outcome' = <<ReadSchemaFile(tree)>>
        /\ stage' \in {"again", "derive", "failed"} /\ UNCHANGED <<from, tree>>
    BY <1>4 DEF Decode
  <2> QED
    BY <2>1 DEF LoadInv, Decoded
<1>5. CASE DecodeAgain
  <2>1. /\ stage = "again" /\ outcome' = <<ReadSchemaFile(tree)>>
        /\ stage' \in {"derive", "failed"} /\ UNCHANGED <<from, tree>>
    BY <1>5 DEF DecodeAgain
  <2> QED
    BY <2>1 DEF LoadInv, Decoded
<1>6. CASE Acquire
  <2>1. /\ stage = "acquire" /\ outcome' = <<SchemaFile("raw", NormalizeSchema(tree))>>
        /\ stage' \in {"derive", "failed"} /\ UNCHANGED <<from, tree>>
    BY <1>6 DEF Acquire
  <2> QED
    BY <2>1 DEF LoadInv, Decoded
<1>7. CASE UNCHANGED load
  BY <1>7 DEF load, LoadInv, Decoded
<1> QED
  BY <1>1, <1>2, <1>3, <1>4, <1>5, <1>6, <1>7 DEF LoadNext

\* The inductive invariant of the loader, whatever the files and the chunks.
THEOREM LoadingHolds == LoadSpec => []LoadInv
<1>1. LoadInit => LoadInv
  BY LoadInitInv
<1>2. LoadInv /\ [LoadNext]_load => LoadInv'
  BY LoadStepInv
<1> QED
  BY <1>1, <1>2, PTL DEF LoadSpec

\* In whatever order a document gives its parts, the problem a load reports is the
\* one that decoding everything before normalizing anything would have met first.
THEOREM LoadErrorsInOrder == LoadSpec => []ErrorsInOrder
<1>1. LoadInv => ErrorsInOrder
  <2> SUFFICES ASSUME LoadInv, from = "tofu", outcome # <<>>
               PROVE  Reported(outcome[1].result) = Promised(tree)
    BY DEF ErrorsInOrder
  <2>1. tree \in AnyJson /\ outcome = <<SchemaFile("raw", NormalizeSchema(tree))>>
    BY DEF LoadInv, Decoded
  <2>2. outcome[1].result = NormalizeSchema(tree)
    BY <2>1 DEF SchemaFile
  <2> QED
    BY <2>1, <2>2, ReadingInOrder
<1> QED
  BY <1>1, LoadingHolds, PTL

\* One pass over a file of either format settles which it is, and with what problem,
\* as decoding it as a normalized schema and then as a raw one does.
THEOREM LoadFormatSettled == LoadSpec => []FormatSettled
<1>1. LoadInv => FormatSettled
  <2> SUFFICES ASSUME LoadInv, from = "file", outcome # <<>>
               PROVE  outcome[1] = ReadTwice(tree)
    BY DEF FormatSettled
  <2>1. tree \in AnyJson /\ outcome = <<ReadSchemaFile(tree)>>
    BY DEF LoadInv, Decoded
  <2> QED
    BY <2>1, ReadingSettles
<1> QED
  BY <1>1, LoadingHolds, PTL

\* Loading a schema reads its file as read_compact_json does: every step of the
\* loader is one of the reader, or leaves it alone.
THEOREM LoadReads == LoadSpec => ReadSpec
<1>1. LoadInit => ReadInit
  BY DEF LoadInit
<1>2. [LoadNext]_load => [ReadNext]_reader
  BY DEF LoadNext, load, Reading, EndOfFile, ReadFails, Decode, DecodeAgain, Acquire, ReadNext
<1> QED
  BY <1>1, <1>2, PTL DEF LoadSpec, ReadSpec

\* So the text it decodes has the tokens of the file it loads.
THEOREM LoadTokensKept == LoadSpec => []TokensKept
<1> QED
  BY LoadReads, TokensAreKept, PTL

\* The loader goes on to derive only from what it can use.
THEOREM LoadDerives == LoadSpec => []DerivesUsable
<1>1. LoadInit => DerivesUsable
  BY DEF LoadInit, DerivesUsable
<1>2. DerivesUsable /\ [LoadNext]_load => DerivesUsable'
  <2> SUFFICES ASSUME DerivesUsable, [LoadNext]_load PROVE DerivesUsable'
    OBVIOUS
  <2>1. CASE Reading \/ EndOfFile \/ ReadFails
    BY <2>1 DEF Reading, EndOfFile, ReadFails, DerivesUsable
  <2>2. CASE Decode \/ DecodeAgain \/ Acquire
    <3> SUFFICES ASSUME stage' = "derive" PROVE outcome' # <<>> /\ Usable(outcome'[1].result)
      BY DEF DerivesUsable
    <3>1. PICK read : outcome' = <<read>> /\ Usable(read.result)
      BY <2>2 DEF Decode, DecodeAgain, Acquire
    <3>2. outcome' # <<>> /\ outcome'[1] = read
      BY <3>1
    <3> QED
      BY <3>1, <3>2
  <2>3. CASE UNCHANGED load
    BY <2>3 DEF load, DerivesUsable
  <2> QED
    BY <2>1, <2>2, <2>3 DEF LoadNext
<1> QED
  BY <1>1, <1>2, PTL DEF LoadSpec

\* A schema that the loader takes from the raw format, written by `provider inspect`
\* and loaded again, is the schema it was.
THEOREM LoadReadsBack == LoadSpec => []ReadsBack
<1>1. LoadInv /\ DerivesUsable => ReadsBack
  <2> SUFFICES ASSUME LoadInv, DerivesUsable,
                      stage = "derive", outcome[1].format = "raw", CanonicalJson(Schema) \in AnyJson
               PROVE  ReadSchemaFile(CanonicalJson(Schema)) = SchemaFile("normalized", Good(Schema))
    BY DEF ReadsBack
  <2>1. tree \in AnyJson /\ outcome = <<Decoded>> /\ Usable(outcome[1].result)
    BY DEF LoadInv, DerivesUsable
  <2>2. outcome[1] = Decoded
    BY <2>1
  <2>3. ReadSchemaFile(tree) = ReadTwice(tree)
    BY <2>1, ReadingSettles
  <2>4. \A format, result : SchemaFile(format, result).format = format /\ SchemaFile(format, result).result = result
    BY DEF SchemaFile
  <2>5. Decoded = SchemaFile("raw", NormalizeSchema(tree)) \/ \E result : Decoded = SchemaFile("normalized", result)
    <3>1. Decoded = ReadTwice(tree) \/ Decoded = SchemaFile("raw", NormalizeSchema(tree))
      BY <2>3 DEF Decoded
    <3>2. ReadTwice(tree) = SchemaFile("raw", NormalizeSchema(tree)) \/ \E result : ReadTwice(tree) = SchemaFile("normalized", result)
      BY Zenon DEF ReadTwice
    <3> QED
      BY <3>1, <3>2
  <2>6. outcome[1].result = NormalizeSchema(tree)
    BY <2>2, <2>4, <2>5
  <2>7. Usable(NormalizeSchema(tree)) /\ Schema = NormalizeSchema(tree).value
    BY <2>1, <2>6 DEF Schema
  <2>8. SettledSchema(Schema)
    BY <2>1, <2>7, SchemaSettles
  <2> QED
    BY <2>8, WrittenIsReadBack
<1> QED
  BY <1>1, LoadingHolds, LoadDerives, PTL
=============================================================================
