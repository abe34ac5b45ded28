--------------------------- MODULE DocumentProofs ---------------------------
(***************************************************************************)
(* What Document says of validation and lowering holds for every graph, of *)
(* any number of declarations and expressions of any depth.  Six parts:    *)
(*                                                                         *)
(*  - lists: sequences of which nothing is known but their length, where   *)
(*    FlattenSeq is empty and what SetToSeq holds;                         *)
(*  - expressions: an expression is a node over smaller ones, so what      *)
(*    holds of a node whenever it holds of its parts holds of all          *)
(*    (ExprInduction, by the least depth at which it fails), and the nodes *)
(*    of Encoded(e) are those of e unless a key is repeated;               *)
(*  - the checks: GraphDocument::validate returns nothing exactly of the   *)
(*    documents that satisfy RustAccepts, rule by rule (ValidMeans), and   *)
(*    Lean's rules in the same terms (LeanMeans);                          *)
(*  - the encoder: what RustAccepts looks at is the same in the graph and  *)
(*    in what is printed of it (SameForRust);                              *)
(*  - the decoder: it leaves alone a document whose addresses are read as  *)
(*    themselves (DecodedFits), as those of an accepted one are            *)
(*    (AcceptedReadAlike), where its moves come from aside;                *)
(*  - the states of a command, and what lower makes of an accepted         *)
(*    document (LoweredBlocks).                                            *)
(*                                                                         *)
(* Recursive functions are used through their equations, which are proved  *)
(* level by level: none of this needs an induction theorem.                *)
(***************************************************************************)
EXTENDS Document, SequenceTheorems, FiniteSetTheorems, WellFoundedInduction, TLAPS

-----------------------------------------------------------------------------
\* A set of numbers that is not empty has a least one.
LEMMA LeastNumber ==
  ASSUME NEW S \in SUBSET Nat, S # {}
  PROVE  \E m \in S : \A n \in S : m <= n
<1>1. PICK m \in S : \A n \in S : <<n, m>> \notin OpToRel(<, Nat)
  BY NatLessThanWellFounded, WFMin
<1>2. \A n \in S : ~(n < m)
  BY <1>1 DEF OpToRel
<1> QED
  BY <1>2

\* Sequences of whatever they hold: where nothing is said of the elements.
IsList(s) == s \in Seq(ToSet(s))

\* A sequence over a set is a list, and one over every set that holds its elements.
LEMMA ListOf ==
  ASSUME NEW S, NEW s \in Seq(S)
  PROVE  IsList(s) /\ ToSet(s) \subseteq S
<1>1. /\ Len(s) \in Nat /\ DOMAIN s = 1..Len(s) /\ \A i \in 1..Len(s) : s[i] \in S
      /\ s = [i \in 1..Len(s) |-> s[i]]
  BY LenProperties
<1>2. \A i \in 1..Len(s) : s[i] \in ToSet(s)
  BY <1>1 DEF ToSet
<1>3. s \in [1..Len(s) -> ToSet(s)]
  BY <1>1, <1>2
<1>4. s \in Seq(ToSet(s))
  BY <1>1, <1>3, SeqDef
<1> QED
  BY <1>1, <1>4 DEF IsList, ToSet

LEMMA ListIn ==
  ASSUME NEW S, NEW s, IsList(s), ToSet(s) \subseteq S
  PROVE  s \in Seq(S)
BY SeqMonotonic DEF IsList

LEMMA ListLen ==
  ASSUME NEW s, IsList(s)
  PROVE  /\ Len(s) \in Nat /\ DOMAIN s = 1..Len(s)
         /\ s = [i \in 1..Len(s) |-> s[i]]
         /\ \A x : x \in ToSet(s) <=> \E i \in 1..Len(s) : x = s[i]
<1>1. s \in Seq(ToSet(s))
  BY DEF IsList
<1>2. Len(s) \in Nat /\ DOMAIN s = 1..Len(s) /\ s = [i \in 1..Len(s) |-> s[i]]
  BY <1>1, LenProperties
<1> QED
  BY <1>2 DEF ToSet

\* A function on the first n numbers is a list.
LEMMA ListMade ==
  ASSUME NEW n \in Nat, NEW s, s = [i \in 1..n |-> s[i]]
  PROVE  IsList(s) /\ Len(s) = n /\ DOMAIN s = 1..n
<1>1. DOMAIN s = 1..n
  OBVIOUS
<1>2. \A i \in 1..n : s[i] \in ToSet(s)
  BY <1>1 DEF ToSet
<1>3. s \in [1..n -> ToSet(s)]
  BY <1>2
<1>4. s \in Seq(ToSet(s))
  BY <1>3, SeqDef
<1>5. Len(s) \in Nat /\ DOMAIN s = 1..Len(s)
  BY <1>4, LenProperties
<1>6. Len(s) = n
  BY <1>1, <1>5
<1> QED
  BY <1>1, <1>4, <1>6 DEF IsList

LEMMA ListEmpty ==
  /\ IsList(<<>>) /\ ToSet(<<>>) = {}
  /\ \A s : IsList(s) => (s = <<>> <=> ToSet(s) = {})
<1>1. IsList(<<>>) /\ ToSet(<<>>) = {}
  <2>1. ASSUME NEW s, s \in Seq({}) PROVE IsList(s) /\ ToSet(s) = {}
    BY <2>1, ListOf
  <2> QED
    BY <2>1, EmptySeq, Zenon
<1>2. ASSUME NEW s, IsList(s), ToSet(s) = {}
      PROVE  s = <<>>
  <2>1. s \in Seq({}) /\ <<>> \in Seq({}) /\ Len(<<>>) = 0
    BY <1>2, EmptySeq DEF IsList
  <2>2. Len(s) \in Nat /\ \A i \in 1..Len(s) : FALSE
    BY <1>2, ListLen
  <2>3. Len(s) = 0
    BY <2>2
  <2>4. \A i \in 1..Len(s) : s[i] = <<>>[i]
    BY <2>2
  <2> QED
    BY <2>1, <2>3, <2>4, SeqEqual
<1> QED
  BY <1>1, <1>2

LEMMA ListConcat ==
  ASSUME NEW s, NEW t, IsList(s), IsList(t)
  PROVE  /\ IsList(s \o t) /\ ToSet(s \o t) = ToSet(s) \cup ToSet(t)
         /\ Len(s \o t) = Len(s) + Len(t)
         /\ \A i \in 1..Len(s) : (s \o t)[i] = s[i]
         /\ \A i \in 1..Len(t) : (s \o t)[Len(s) + i] = t[i]
         /\ s \o t = <<>> <=> s = <<>> /\ t = <<>>
<1> DEFINE U == ToSet(s) \cup ToSet(t)
<1>1. s \in Seq(U) /\ t \in Seq(U)
  BY ListIn
<1>2. s \o t \in Seq(U) /\ Len(s \o t) = Len(s) + Len(t)
  BY <1>1, ConcatProperties
<1>3. /\ \A i \in 1..Len(s) : (s \o t)[i] = s[i]
      /\ \A i \in 1..Len(t) : (s \o t)[Len(s) + i] = t[i]
  <2>1. Len(s) \in Nat /\ Len(t) \in Nat
    BY ListLen
  <2>2. \A i \in 1..Len(t) : Len(s) + i \in Len(s) + 1 .. Len(s) + Len(t)
    BY <2>1
  <2>3. \A i \in 1..Len(t) : Len(s) + i - Len(s) = i
    BY <2>1
  <2> QED
    BY <1>1, <2>1, <2>2, <2>3, ConcatProperties
<1>4. IsList(s \o t) /\ ToSet(s \o t) \subseteq U
  BY <1>2, ListOf
<1>5. Len(s) \in Nat /\ Len(t) \in Nat
  BY ListLen
<1>6. DOMAIN (s \o t) = 1..(Len(s) + Len(t))
  BY <1>2, <1>4, ListLen
<1>7. ToSet(s) \subseteq ToSet(s \o t)
  <2>1. SUFFICES ASSUME NEW i \in 1..Len(s) PROVE s[i] \in ToSet(s \o t)
    BY ListLen
  <2> QED
    BY <1>3, <1>5, <1>6 DEF ToSet
<1>8. ToSet(t) \subseteq ToSet(s \o t)
  <2>1. SUFFICES ASSUME NEW i \in 1..Len(t) PROVE t[i] \in ToSet(s \o t)
    BY ListLen
  <2>2. Len(s) + i \in DOMAIN (s \o t)
    BY <1>5, <1>6
  <2> QED
    BY <1>3, <2>2 DEF ToSet
<1>9. ToSet(s \o t) = U
  BY <1>4, <1>7, <1>8
<1>10. U = {} <=> ToSet(s) = {} /\ ToSet(t) = {}
  OBVIOUS
<1> QED
  BY <1>2, <1>3, <1>4, <1>9, <1>10, ListEmpty

\* A list of one element.
LEMMA ListOne ==
  ASSUME NEW x
  PROVE  IsList(<<x>>) /\ ToSet(<<x>>) = {x} /\ <<x>> # <<>>
<1>1. <<x>> \in Seq({x}) /\ Len(<<x>>) = 1 /\ <<x>>[1] = x
  OBVIOUS
<1>2. IsList(<<x>>) /\ ToSet(<<x>>) \subseteq {x}
  BY <1>1, ListOf
<1>3. x \in ToSet(<<x>>)
  BY <1>1, <1>2, ListLen
<1> QED
  BY <1>2, <1>3, ListEmpty

LEMMA FirstNumbers ==
  ASSUME NEW n \in Nat
  PROVE  IsFiniteSet(1..n) /\ Cardinality(1..n) = n
<1>1. /\ IsFiniteSet(1..n)
      /\ Cardinality(1..n) = IF 1 > n THEN 0 ELSE n - 1 + 1
  <2>1. 1 \in Int /\ n \in Int
    OBVIOUS
  <2> QED
    BY <2>1, FS_Interval, Zenon
<1>2. n - 1 + 1 = n /\ (1 > n => n = 0)
  OBVIOUS
<1> QED
  BY <1>1, <1>2, Zenon

\* The elements of a list are finitely many.
LEMMA ListFinite ==
  ASSUME NEW s, IsList(s)
  PROVE  IsFiniteSet(ToSet(s)) /\ Cardinality(ToSet(s)) <= Len(s)
<1>1. Len(s) \in Nat /\ DOMAIN s = 1..Len(s)
  BY ListLen
<1>2. IsFiniteSet(1..Len(s)) /\ Cardinality(1..Len(s)) = Len(s)
  BY <1>1, FirstNumbers
<1>3. s \in Surjection(1..Len(s), ToSet(s))
  <2>1. s \in [1..Len(s) -> ToSet(s)]
    BY <1>1, ListLen DEF ToSet
  <2> QED
    BY <1>1, <2>1, ListLen DEF Surjection
<1> QED
  BY <1>1, <1>2, <1>3, FS_Surjection

\* Distinct says that no two places of a list hold the same.
LEMMA DistinctApart ==
  ASSUME NEW s, IsList(s)
  PROVE  Distinct(s) <=> \A i, j \in 1..Len(s) : s[i] = s[j] => i = j
<1>1. Len(s) \in Nat /\ DOMAIN s = 1..Len(s)
  BY ListLen
<1>2. IsFiniteSet(1..Len(s)) /\ Cardinality(1..Len(s)) = Len(s)
  BY <1>1, FirstNumbers
<1>3. s \in Surjection(1..Len(s), ToSet(s)) /\ s \in [1..Len(s) -> ToSet(s)]
  <2>1. s \in [1..Len(s) -> ToSet(s)]
    BY <1>1, ListLen DEF ToSet
  <2> QED
    BY <1>1, <2>1, ListLen DEF Surjection
<1>4. ASSUME Distinct(s)
      PROVE  \A i, j \in 1..Len(s) : s[i] = s[j] => i = j
  <2>1. Cardinality(1..Len(s)) = Cardinality(ToSet(s)) /\ IsFiniteSet(ToSet(s))
    BY <1>2, <1>4, ListFinite DEF Distinct
  <2>2. s \in Injection(1..Len(s), ToSet(s))
    BY <1>2, <1>3, <2>1, FS_SurjSameCardinalityImpliesInj
  <2> QED
    BY <2>2 DEF Injection, IsInjective
<1>5. ASSUME \A i, j \in 1..Len(s) : s[i] = s[j] => i = j
      PROVE  Distinct(s)
  <2>1. s \in Bijection(1..Len(s), ToSet(s))
    BY <1>3, <1>5 DEF Bijection, Injection, IsInjective
  <2> QED
    BY <1>1, <1>2, <2>1, FS_Bijection DEF Distinct, ExistsBijection
<1> QED
  BY <1>4, <1>5

-----------------------------------------------------------------------------
\* FlattenSeq goes along its lists (the function that is recursive in it).
Along(ss, n, f) == f = [i \in 1..n |-> IF i = 1 THEN ss[i] ELSE f[i - 1] \o ss[i]]

LEMMA AlongExists ==
  ASSUME NEW ss, NEW n \in Nat
  PROVE  \E f : Along(ss, n, f)
<1> DEFINE Bad == {m \in Nat : ~\E f : Along(ss, m, f)}
<1>1. SUFFICES ASSUME Bad # {} PROVE FALSE
  OBVIOUS
<1>2. PICK m \in Bad : \A k \in Bad : m <= k
  <2>1. Bad \in SUBSET Nat
    OBVIOUS
  <2> QED
    BY <1>1, <2>1, LeastNumber
<1>3. CASE m = 0
  <2> DEFINE f == [i \in 1..0 |-> ss]
  <2>1. 1..0 = {}
    OBVIOUS
  <2>2. Along(ss, 0, f)
    BY <2>1, Zenon DEF Along
  <2> QED
    BY <1>2, <1>3, <2>2
<1>4. CASE m # 0
  <2>1. m \in Nat /\ m - 1 \in Nat /\ m - 1 \notin Bad
    <3>1. m \in Nat /\ m - 1 \in Nat /\ ~(m <= m - 1)
      BY <1>2, <1>4
    <3> QED
      BY <1>2, <3>1
  <2>2. PICK f : Along(ss, m - 1, f)
    BY <2>1
  <2> DEFINE g == [i \in 1..m |-> IF i = 1 THEN ss[i] ELSE f[i - 1] \o ss[i]]
  <2>3. ASSUME NEW i \in 1..m, i # 1
        PROVE  g[i - 1] = f[i - 1]
    <3>1. i - 1 \in 1..(m - 1) /\ i - 1 \in 1..m
      BY <2>1, <2>3
    <3>2. g[i - 1] = IF i - 1 = 1 THEN ss[i - 1] ELSE f[i - 1 - 1] \o ss[i - 1]
      BY <3>1
    <3>3. f[i - 1] = IF i - 1 = 1 THEN ss[i - 1] ELSE f[i - 1 - 1] \o ss[i - 1]
      BY <2>2, <3>1, Zenon DEF Along
    <3> QED
      BY <3>2, <3>3, Zenon
  <2>4. g = [i \in 1..m |-> IF i = 1 THEN ss[i] ELSE g[i - 1] \o ss[i]]
    <3>1. \A i \in 1..m : (IF i = 1 THEN ss[i] ELSE f[i - 1] \o ss[i])
                            = (IF i = 1 THEN ss[i] ELSE g[i - 1] \o ss[i])
      BY <2>3, Zenon
    <3> HIDE DEF g
    <3>2. g = [i \in 1..m |-> IF i = 1 THEN ss[i] ELSE f[i - 1] \o ss[i]]
      BY DEF g
    <3> QED
      BY <3>1, <3>2, Zenon
  <2>5. Along(ss, m, g)
    BY <2>4, Zenon DEF Along
  <2> QED
    BY <1>2, <2>5
<1> QED
  BY <1>3, <1>4

LEMMA FlattenAlong ==
  ASSUME NEW ss, IsList(ss), ss # <<>>
  PROVE  \E f : Along(ss, Len(ss), f) /\ FlattenSeq(ss) = f[Len(ss)]
<1> DEFINE f == CHOOSE g : Along(ss, Len(ss), g)
<1>1. Along(ss, Len(ss), f)
  BY ListLen, AlongExists
<1>2. Len(ss) # 0
  BY EmptySeq, SeqEqual, ListLen DEF IsList
<1>3. FlattenSeq(ss) = f[Len(ss)]
  BY <1>2, Zenon DEF FlattenSeq, Along
<1> QED
  BY <1>1, <1>3

\* Lists flattened hold what any of them holds.
LEMMA FlatList ==
  ASSUME NEW ss, IsList(ss), \A s \in ToSet(ss) : IsList(s)
  PROVE  /\ IsList(FlattenSeq(ss))
         /\ ToSet(FlattenSeq(ss)) = UNION {ToSet(s) : s \in ToSet(ss)}
<1>1. CASE ss = <<>>
  <2>1. Len(ss) = 0
    BY <1>1
  <2>2. FlattenSeq(ss) = <<>>
    BY <1>1, <2>1 DEF FlattenSeq
  <2> QED
    BY <1>1, <2>2, ListEmpty
<1>2. CASE ss # <<>>
  <2>1. PICK f : Along(ss, Len(ss), f) /\ FlattenSeq(ss) = f[Len(ss)]
    BY <1>2, FlattenAlong
  <2> DEFINE Good(i) == IsList(f[i]) /\ ToSet(f[i]) = UNION {ToSet(ss[j]) : j \in 1..i}
             Bad == {i \in 1..Len(ss) : ~Good(i)}
  <2>2. Len(ss) \in Nat /\ \A i \in 1..Len(ss) : ss[i] \in ToSet(ss)
    BY ListLen
  <2>3. Bad = {}
    <3>1. SUFFICES ASSUME Bad # {} PROVE FALSE
      OBVIOUS
    <3>2. PICK i \in Bad : \A k \in Bad : i <= k
      <4>1. Bad \in SUBSET Nat
        BY <2>2
      <4> QED
        BY <3>1, <4>1, LeastNumber
    <3>3. i \in 1..Len(ss) /\ IsList(ss[i])
      BY <2>2, <3>2
    <3>4. CASE i = 1
      <4>1. f[i] = ss[i]
        BY <2>1, <3>3, <3>4, Zenon DEF Along
      <4>2. 1..i = {i}
        BY <3>4
      <4> QED
        BY <3>2, <3>3, <4>1, <4>2
    <3>5. CASE i # 1
      <4>1. i - 1 \in 1..Len(ss) /\ ~(i <= i - 1)
        BY <2>2, <3>3, <3>5
      <4>2. Good(i - 1)
        BY <3>2, <4>1
      <4>3. f[i] = f[i - 1] \o ss[i]
        BY <2>1, <3>3, <3>5, Zenon DEF Along
      <4>4. IsList(f[i]) /\ ToSet(f[i]) = ToSet(f[i - 1]) \cup ToSet(ss[i])
        BY <3>3, <4>2, <4>3, ListConcat
      <4>5. 1..i = (1..(i - 1)) \cup {i}
        BY <2>2, <3>3, <3>5
      <4> QED
        BY <3>2, <4>2, <4>4, <4>5
    <3> QED
      BY <3>4, <3>5
  <2>4. Len(ss) \in 1..Len(ss)
    <3>1. Len(ss) # 0
      BY <1>2, EmptySeq, SeqEqual, ListLen DEF IsList
    <3> QED
      BY <2>2, <3>1
  <2>5. Good(Len(ss))
    BY <2>3, <2>4
  <2>6. ToSet(ss) = {ss[j] : j \in 1..Len(ss)}
    BY ListLen
  <2> QED
    BY <2>1, <2>5, <2>6
<1> QED
  BY <1>1, <1>2

LEMMA FlatEmpty ==
  ASSUME NEW ss, IsList(ss), \A s \in ToSet(ss) : IsList(s)
  PROVE  FlattenSeq(ss) = <<>> <=> \A s \in ToSet(ss) : s = <<>>
BY FlatList, ListEmpty

\* Pairs flattened: the places of the first and of the second of each.
LEMMA FlatPairs ==
  ASSUME NEW ss, IsList(ss), \A i \in 1..Len(ss) : IsList(ss[i]) /\ Len(ss[i]) = 2
  PROVE  /\ IsList(FlattenSeq(ss)) /\ Len(FlattenSeq(ss)) = 2 * Len(ss)
         /\ \A i \in 1..Len(ss) : /\ FlattenSeq(ss)[2 * i - 1] = ss[i][1]
                                  /\ FlattenSeq(ss)[2 * i] = ss[i][2]
<1>1. CASE ss = <<>>
  <2>1. Len(ss) = 0
    BY <1>1
  <2>2. FlattenSeq(ss) = <<>>
    BY <1>1, <2>1 DEF FlattenSeq
  <2>3. Len(<<>>) = 2 * 0 /\ 1..0 = {}
    OBVIOUS
  <2> QED
    BY <1>1, <2>1, <2>2, <2>3, ListEmpty
<1>2. CASE ss # <<>>
  <2>1. PICK f : Along(ss, Len(ss), f) /\ FlattenSeq(ss) = f[Len(ss)]
    BY <1>2, FlattenAlong
  <2> DEFINE Pairs(k) == \A i \in 1..k : f[k][2 * i - 1] = ss[i][1] /\ f[k][2 * i] = ss[i][2]
             Good(k) == IsList(f[k]) /\ Len(f[k]) = 2 * k /\ Pairs(k)
             Bad == {k \in 1..Len(ss) : ~Good(k)}
  <2>2. Len(ss) \in Nat
    BY ListLen
  <2>3. Bad = {}
    <3>1. SUFFICES ASSUME Bad # {} PROVE FALSE
      OBVIOUS
    <3>2. PICK k \in Bad : \A j \in Bad : k <= j
      <4>1. Bad \in SUBSET Nat
        BY <2>2
      <4> QED
        BY <3>1, <4>1, LeastNumber
    <3>3. k \in 1..Len(ss) /\ IsList(ss[k]) /\ Len(ss[k]) = 2
      BY <2>2, <3>2
    <3>4. CASE k = 1
      <4>1. f[k] = ss[k]
        BY <2>1, <3>3, <3>4, Zenon DEF Along
      <4>2. 1..k = {k} /\ 2 * k = 2 /\ 2 * k - 1 = 1
        BY <3>4
      <4>3. Good(k)
        BY <3>3, <4>1, <4>2, Zenon
      <4> QED
        BY <3>2, <4>3
    <3>5. CASE k # 1
      <4>1. k - 1 \in 1..Len(ss) /\ ~(k <= k - 1)
        BY <2>2, <3>3, <3>5
      <4>2. Good(k - 1)
        BY <3>2, <4>1
      <4>3. f[k] = f[k - 1] \o ss[k]
        BY <2>1, <3>3, <3>5, Zenon DEF Along
      <4>4. /\ IsList(f[k]) /\ Len(f[k]) = Len(f[k - 1]) + Len(ss[k])
            /\ \A i \in 1..Len(f[k - 1]) : f[k][i] = f[k - 1][i]
            /\ \A i \in 1..Len(ss[k]) : f[k][Len(f[k - 1]) + i] = ss[k][i]
        <5> DEFINE a == f[k - 1]  b == ss[k]
        <5>1. f[k] = a \o b /\ IsList(a) /\ IsList(b)
          BY <3>3, <4>2, <4>3
        <5> HIDE DEF a, b
        <5>2. /\ IsList(f[k]) /\ Len(f[k]) = Len(a) + Len(b)
              /\ \A i \in 1..Len(a) : f[k][i] = a[i]
              /\ \A i \in 1..Len(b) : f[k][Len(a) + i] = b[i]
          BY <5>1, ListConcat
        <5> QED
          BY <5>2 DEF a, b
      <4>5. Len(f[k - 1]) = 2 * (k - 1) /\ Len(f[k]) = 2 * k
        BY <3>3, <4>1, <4>2, <4>4
      <4>6. ASSUME NEW i \in 1..k
            PROVE  f[k][2 * i - 1] = ss[i][1] /\ f[k][2 * i] = ss[i][2]
        <5>1. CASE i = k
          <6>1. 2 * i - 1 = Len(f[k - 1]) + 1 /\ 2 * i = Len(f[k - 1]) + 2
            BY <3>3, <4>5, <5>1
          <6>2. 1 \in 1..Len(ss[k]) /\ 2 \in 1..Len(ss[k])
            BY <3>3
          <6> QED
            BY <4>4, <5>1, <6>1, <6>2, Zenon
        <5>2. CASE i # k
          <6>1. i \in 1..(k - 1)
            BY <3>3, <5>2
          <6>2. 2 * i - 1 \in 1..Len(f[k - 1]) /\ 2 * i \in 1..Len(f[k - 1])
            BY <3>3, <4>5, <6>1
          <6> QED
            BY <4>2, <4>4, <6>1, <6>2, Zenon
        <5> QED
          BY <5>1, <5>2
      <4> QED
        BY <3>2, <4>4, <4>5, <4>6
    <3> QED
      BY <3>4, <3>5
  <2>4. Len(ss) \in 1..Len(ss)
    <3>1. Len(ss) # 0
      BY <1>2, EmptySeq, SeqEqual, ListLen DEF IsList
    <3> QED
      BY <2>2, <3>1
  <2>5. Good(Len(ss))
    BY <2>3, <2>4
  <2> QED
    BY <2>1, <2>5
<1> QED
  BY <1>1, <1>2

\* A list of the elements of a finite set, each of them once.
LEMMA SetList ==
  ASSUME NEW S, IsFiniteSet(S)
  PROVE  /\ IsList(SetToSeq(S)) /\ ToSet(SetToSeq(S)) = S
         /\ Len(SetToSeq(S)) = Cardinality(S) /\ Distinct(SetToSeq(S))
<1>1. Cardinality(S) \in Nat
  BY FS_CardinalityType
<1>2. IsFiniteSet(1..Cardinality(S)) /\ Cardinality(1..Cardinality(S)) = Cardinality(S)
  BY <1>1, FirstNumbers
<1>3. PICK b : b \in Bijection(1..Cardinality(S), S)
  BY <1>2, FS_SameCardinalityBij DEF ExistsBijection
<1>4. b \in [1..Cardinality(S) -> S] /\ IsInjective(b)
  BY <1>3 DEF Bijection, Injection
<1> DEFINE s == SetToSeq(S)
<1>5. s \in [1..Cardinality(S) -> S] /\ IsInjective(s)
  BY <1>4 DEF SetToSeq
<1>6. IsList(s) /\ Len(s) = Cardinality(S) /\ DOMAIN s = 1..Cardinality(S)
  <2> HIDE DEF s
  <2>1. s = [i \in 1..Cardinality(S) |-> s[i]]
    BY <1>5
  <2> QED
    BY <1>1, <2>1, ListMade
<1>7. Distinct(s)
  <2>1. \A i, j \in 1..Len(s) : s[i] = s[j] => i = j
    BY <1>5, <1>6 DEF IsInjective
  <2> QED
    BY <1>6, <2>1, DistinctApart
<1>8. ToSet(s) \subseteq S
  BY <1>5 DEF ToSet
<1>9. ToSet(s) = S
  BY <1>6, <1>7, <1>8, FS_Subset DEF Distinct
<1> QED
  BY <1>6, <1>7, <1>9

\* The last place of a kind is one of that kind.
LEMMA LastPlace ==
  ASSUME NEW n \in Nat, NEW I, I \subseteq 1..n, I # {}
  PROVE  Max(I) \in I /\ \A i \in I : Max(I) >= i
<1> DEFINE Left == {k \in Nat : \E i \in I : k = n - i}
<1>1. \A i \in I : i \in Int /\ n - i \in Left
  OBVIOUS
<1>2. PICK m \in Left : \A k \in Left : m <= k
  <2>1. Left # {} /\ Left \in SUBSET Nat
    BY <1>1
  <2> QED
    BY <2>1, LeastNumber
<1>3. PICK i \in I : m = n - i
  BY <1>2
<1>4. \A j \in I : i >= j
  BY <1>1, <1>2, <1>3
<1> QED
  BY <1>3, <1>4 DEF Max

-----------------------------------------------------------------------------
\* The expressions by their depth.
Level(h, smaller) == Nodes(IF h = 0 THEN {<<>>} ELSE Seq(smaller[h - 1]))
Levels(n, f) == f = [h \in 0..n |-> Level(h, f)]

LEMMA LevelsExist ==
  ASSUME NEW n \in Nat
  PROVE  \E f : Levels(n, f)
<1> DEFINE Bad == {m \in Nat : ~\E f : Levels(m, f)}
<1>1. SUFFICES ASSUME Bad # {} PROVE FALSE
  OBVIOUS
<1>2. PICK m \in Bad : \A k \in Bad : m <= k
  <2>1. Bad \in SUBSET Nat
    OBVIOUS
  <2> QED
    BY <1>1, <2>1, LeastNumber
<1>3. CASE m = 0
  <2> DEFINE f == [h \in 0..0 |-> Nodes({<<>>})]
  <2>1. \A h \in 0..0 : Level(h, f) = Nodes({<<>>})
    <3>1. 0..0 = {0}
      OBVIOUS
    <3> QED
      BY <3>1, Zenon DEF Level
  <2>2. Levels(0, f)
    BY <2>1, Zenon DEF Levels
  <2> QED
    BY <1>2, <1>3, <2>2
<1>4. CASE m # 0
  <2>1. m \in Nat /\ m - 1 \in Nat /\ m - 1 \notin Bad
    <3>1. m \in Nat /\ m - 1 \in Nat /\ ~(m <= m - 1)
      BY <1>2, <1>4
    <3> QED
      BY <1>2, <3>1
  <2>2. PICK f : Levels(m - 1, f)
    BY <2>1
  <2> DEFINE g == [h \in 0..m |-> Level(h, f)]
  <2>3. ASSUME NEW h \in 0..m
        PROVE  Level(h, g) = Level(h, f)
    <3>1. CASE h = 0
      BY <3>1, Zenon DEF Level
    <3>2. CASE h # 0
      <4>1. h - 1 \in 0..(m - 1) /\ h - 1 \in 0..m
        BY <2>1, <3>2
      <4>2. g[h - 1] = Level(h - 1, f) /\ f[h - 1] = Level(h - 1, f)
        BY <2>2, <4>1, Zenon DEF Levels
      <4> QED
        BY <3>2, <4>2, Zenon DEF Level
    <3> QED
      BY <3>1, <3>2
  <2>4. Levels(m, g)
    <3> HIDE DEF g
    <3>1. g = [h \in 0..m |-> Level(h, f)]
      BY DEF g
    <3> QED
      BY <2>3, <3>1, Zenon DEF Levels
  <2> QED
    BY <1>2, <2>4
<1> QED
  BY <1>3, <1>4

LEMMA TreeLevels ==
  \A h \in 0..MaxDepth : Tree[h] = Level(h, Tree)
<1>1. \E f : Levels(MaxDepth, f)
  BY LevelsExist, DepthAssumption
<1>2. Tree = CHOOSE f : Levels(MaxDepth, f)
  BY Zenon DEF Tree, Levels, Level
<1>3. Levels(MaxDepth, Tree)
  BY <1>1, <1>2, Zenon
<1> QED
  BY <1>3, Zenon DEF Levels

\* What a node is apart from how deep it is.
Fields(n) ==
  /\ n = Node(n.kind, n.at, n.names, n.sub)
  /\ n.kind \in Kinds /\ n.at \in AnyAddress /\ n.names \in Seq(STRING)
  /\ n.kind \in {"map", "object"} => Alternates(n)

LEMMA TreeNode ==
  ASSUME NEW h \in 0..MaxDepth, NEW n
  PROVE  n \in Tree[h] <=> /\ Fields(n) /\ IsList(n.sub)
                           /\ h = 0 => n.sub = <<>>
                           /\ h # 0 => ToSet(n.sub) \subseteq Tree[h - 1]
<1>1. ASSUME NEW parts
      PROVE  n \in Nodes(parts) <=> Fields(n) /\ n.sub \in parts
  BY DEF Nodes, Fields, Node
<1>2. CASE h = 0
  <2>1. Tree[h] = Nodes({<<>>})
    BY <1>2, TreeLevels, Zenon DEF Level
  <2> QED
    BY <1>1, <1>2, <2>1, ListEmpty
<1>3. CASE h # 0
  <2>1. Tree[h] = Nodes(Seq(Tree[h - 1]))
    BY <1>3, TreeLevels, Zenon DEF Level
  <2>2. n.sub \in Seq(Tree[h - 1]) <=> IsList(n.sub) /\ ToSet(n.sub) \subseteq Tree[h - 1]
    BY ListOf, ListIn
  <2> QED
    BY <1>1, <1>3, <2>1, <2>2
<1> QED
  BY <1>2, <1>3

\* Deeper levels hold the shallower ones.
LEMMA TreeGrows ==
  \A h \in 0..MaxDepth : h # MaxDepth => Tree[h] \subseteq Tree[h + 1]
<1> DEFINE Bad == {h \in 0..MaxDepth : h # MaxDepth /\ ~(Tree[h] \subseteq Tree[h + 1])}
<1>1. SUFFICES ASSUME Bad # {} PROVE FALSE
  OBVIOUS
<1>2. PICK h \in Bad : \A k \in Bad : h <= k
  <2>1. Bad \in SUBSET Nat
    BY DepthAssumption
  <2> QED
    BY <1>1, <2>1, LeastNumber
<1>3. h \in 0..MaxDepth /\ h + 1 \in 0..MaxDepth /\ h + 1 # 0 /\ h + 1 - 1 = h
  BY <1>2, DepthAssumption
<1>4. ASSUME NEW n \in Tree[h]
      PROVE  n \in Tree[h + 1]
  <2>1. Fields(n) /\ IsList(n.sub)
    BY <1>3, TreeNode
  <2>2. ToSet(n.sub) \subseteq Tree[h]
    <3>1. CASE h = 0
      BY <1>3, <3>1, TreeNode, ListEmpty
    <3>2. CASE h # 0
      <4>1. h - 1 \in 0..MaxDepth /\ h - 1 # MaxDepth /\ ~(h <= h - 1) /\ h - 1 + 1 = h
        BY <1>3, <3>2, DepthAssumption
      <4>2. Tree[h - 1] \subseteq Tree[h]
        BY <1>2, <4>1
      <4> QED
        BY <1>3, <3>2, <4>2, TreeNode
    <3> QED
      BY <3>1, <3>2
  <2> QED
    BY <1>3, <2>1, <2>2, TreeNode
<1> QED
  BY <1>2, <1>4

LEMMA TreeInExpr ==
  \A h \in 0..MaxDepth : Tree[h] \subseteq Expr
<1> DEFINE Bad == {k \in 0..MaxDepth : ~(Tree[MaxDepth - k] \subseteq Expr)}
<1>1. Bad = {}
  <2>1. SUFFICES ASSUME Bad # {} PROVE FALSE
    OBVIOUS
  <2>2. PICK k \in Bad : \A j \in Bad : k <= j
    <3>1. Bad \in SUBSET Nat
      BY DepthAssumption
    <3> QED
      BY <2>1, <3>1, LeastNumber
  <2>3. CASE k = 0
    BY <2>2, <2>3, DepthAssumption DEF Expr
  <2>4. CASE k # 0
    <3>1. /\ k - 1 \in 0..MaxDepth /\ ~(k <= k - 1)
          /\ MaxDepth - k \in 0..MaxDepth /\ MaxDepth - k # MaxDepth
          /\ MaxDepth - k + 1 = MaxDepth - (k - 1)
      BY <2>2, <2>4, DepthAssumption
    <3>2. Tree[MaxDepth - (k - 1)] \subseteq Expr
      BY <2>2, <3>1
    <3>3. Tree[MaxDepth - k] \subseteq Tree[MaxDepth - (k - 1)]
      BY <3>1, TreeGrows
    <3> QED
      BY <2>2, <3>2, <3>3
  <2> QED
    BY <2>3, <2>4
<1>2. SUFFICES ASSUME NEW h \in 0..MaxDepth PROVE Tree[h] \subseteq Expr
  OBVIOUS
<1>3. MaxDepth - h \in 0..MaxDepth /\ MaxDepth - (MaxDepth - h) = h
  BY DepthAssumption
<1> QED
  BY <1>1, <1>3

LEMMA ExprNode ==
  ASSUME NEW e \in Expr
  PROVE  Fields(e) /\ IsList(e.sub) /\ ToSet(e.sub) \subseteq Expr
<1>1. MaxDepth \in 0..MaxDepth /\ (MaxDepth # 0 => MaxDepth - 1 \in 0..MaxDepth)
  BY DepthAssumption
<1>2. /\ Fields(e) /\ IsList(e.sub)
      /\ MaxDepth = 0 => e.sub = <<>>
      /\ MaxDepth # 0 => ToSet(e.sub) \subseteq Tree[MaxDepth - 1]
  BY <1>1, TreeNode DEF Expr
<1> QED
  BY <1>1, <1>2, TreeInExpr, ListEmpty

\* What every expression has that its parts do not take from it, all have.
LEMMA ExprInduction ==
  ASSUME NEW S, \A e \in Expr : ToSet(e.sub) \subseteq S => e \in S
  PROVE  Expr \subseteq S
<1> DEFINE Bad == {h \in 0..MaxDepth : ~(Tree[h] \subseteq S)}
<1>1. Bad = {}
  <2>1. SUFFICES ASSUME Bad # {} PROVE FALSE
    OBVIOUS
  <2>2. PICK h \in Bad : \A k \in Bad : h <= k
    <3>1. Bad \in SUBSET Nat
      BY DepthAssumption
    <3> QED
      BY <2>1, <3>1, LeastNumber
  <2>3. ASSUME NEW e \in Tree[h]
        PROVE  e \in S
    <3>1. h \in 0..MaxDepth /\ e \in Expr
      BY <2>2, TreeInExpr
    <3>2. CASE h = 0
      BY <3>1, <3>2, TreeNode, ListEmpty
    <3>3. CASE h # 0
      <4>1. h - 1 \in 0..MaxDepth /\ ~(h <= h - 1)
        BY <3>1, <3>3, DepthAssumption
      <4>2. Tree[h - 1] \subseteq S
        BY <2>2, <4>1
      <4> QED
        BY <3>1, <3>3, <4>2, TreeNode
    <3> QED
      BY <3>2, <3>3
  <2> QED
    BY <2>2, <2>3
<1>2. MaxDepth \in 0..MaxDepth
  BY DepthAssumption
<1> QED
  BY <1>1, <1>2 DEF Expr

-----------------------------------------------------------------------------
\* The traversal is defined for every expression, by its parts.
VisitedTo(h, v) == v = [n \in Tree[h] |-> NodeVisited(n, v)]

LEMMA VisitedAgree ==
  ASSUME NEW n, NEW v, NEW w, \A i \in DOMAIN n.sub : v[n.sub[i]] = w[n.sub[i]]
  PROVE  NodeVisited(n, v) = NodeVisited(n, w)
<1>1. [i \in DOMAIN n.sub |-> v[n.sub[i]]] = [i \in DOMAIN n.sub |-> w[n.sub[i]]]
  BY Zenon
<1> QED
  BY <1>1, Zenon DEF NodeVisited

LEMMA VisitedExists ==
  \A h \in 0..MaxDepth : \E v : VisitedTo(h, v)
<1> DEFINE Bad == {h \in 0..MaxDepth : ~\E v : VisitedTo(h, v)}
<1>1. SUFFICES ASSUME Bad # {} PROVE FALSE
  OBVIOUS
<1>2. PICK h \in Bad : \A k \in Bad : h <= k
  <2>1. Bad \in SUBSET Nat
    BY DepthAssumption
  <2> QED
    BY <1>1, <2>1, LeastNumber
<1>3. PICK v : \A n \in Tree[h] : \A i \in DOMAIN n.sub :
                 n.sub[i] \in Tree[h] /\ v[n.sub[i]] = NodeVisited(n.sub[i], v)
  <2>1. CASE h = 0
    <3>1. \A n \in Tree[h] : DOMAIN n.sub = {}
      BY <1>2, <2>1, TreeNode, ListEmpty DEF ToSet
    <3> QED
      BY <3>1
  <2>2. CASE h # 0
    <3>1. /\ h \in 0..MaxDepth /\ h - 1 \in 0..MaxDepth /\ ~(h <= h - 1)
          /\ h - 1 # MaxDepth /\ h - 1 + 1 = h
      BY <1>2, <2>2, DepthAssumption
    <3>2. PICK v : VisitedTo(h - 1, v)
      BY <1>2, <3>1
    <3>3. ASSUME NEW n \in Tree[h], NEW i \in DOMAIN n.sub
          PROVE  n.sub[i] \in Tree[h] /\ v[n.sub[i]] = NodeVisited(n.sub[i], v)
      <4>1. n.sub[i] \in Tree[h - 1]
        BY <2>2, <3>1, TreeNode DEF ToSet
      <4>2. n.sub[i] \in Tree[h]
        BY <3>1, <4>1, TreeGrows
      <4> QED
        BY <3>2, <4>1, <4>2, Zenon DEF VisitedTo
    <3> QED
      BY <3>3
  <2> QED
    BY <2>1, <2>2
<1> DEFINE w == [n \in Tree[h] |-> NodeVisited(n, v)]
<1>4. ASSUME NEW n \in Tree[h]
      PROVE  NodeVisited(n, w) = NodeVisited(n, v)
  <2>1. \A i \in DOMAIN n.sub : w[n.sub[i]] = v[n.sub[i]]
    BY <1>3, Zenon
  <2> HIDE DEF w
  <2> QED
    BY <2>1, VisitedAgree
<1>5. VisitedTo(h, w)
  <2> HIDE DEF w
  <2>1. w = [n \in Tree[h] |-> NodeVisited(n, v)]
    BY DEF w
  <2> QED
    BY <1>4, <2>1, Zenon DEF VisitedTo
<1> QED
  BY <1>2, <1>5

LEMMA VisitedIs ==
  ASSUME NEW e \in Expr
  PROVE  Visited(e) = <<e>> \o FlattenSeq([i \in DOMAIN e.sub |-> Visited(e.sub[i])])
<1> DEFINE v == CHOOSE w : VisitedTo(MaxDepth, w)
<1>1. VisitedTo(MaxDepth, v)
  BY VisitedExists, DepthAssumption
<1>2. ASSUME NEW n \in Expr PROVE Visited(n) = v[n]
  BY Zenon DEF Visited, VisitedTo, Expr
<1>3. v[e] = NodeVisited(e, v)
  <2> HIDE DEF v
  <2> QED
    BY <1>1, Zenon DEF VisitedTo, Expr
<1>4. \A i \in DOMAIN e.sub : e.sub[i] \in Expr
  BY ExprNode DEF ToSet
<1>5. [i \in DOMAIN e.sub |-> v[e.sub[i]]] = [i \in DOMAIN e.sub |-> Visited(e.sub[i])]
  <2> HIDE DEF v
  <2> QED
    BY <1>2, <1>4, Zenon
<1> HIDE DEF v
<1> QED
  BY <1>2, <1>3, <1>5, Zenon DEF NodeVisited

\* The nodes of an expression: itself and those of its parts.
Parts(e) == ToSet(Visited(e))

LEMMA PartsAre ==
  \A e \in Expr : /\ IsList(Visited(e))
                  /\ Parts(e) = {e} \cup UNION {Parts(s) : s \in ToSet(e.sub)}
<1> DEFINE S == {e \in Expr : IsList(Visited(e))}
<1>1. ASSUME NEW e \in Expr, ToSet(e.sub) \subseteq S
      PROVE  /\ IsList(Visited(e))
             /\ Parts(e) = {e} \cup UNION {Parts(s) : s \in ToSet(e.sub)}
  <2> DEFINE parts == [i \in DOMAIN e.sub |-> Visited(e.sub[i])]
             rest == FlattenSeq(parts)
  <2>1. DOMAIN e.sub = 1..Len(e.sub) /\ Len(e.sub) \in Nat
    BY ExprNode, ListLen
  <2>2. IsList(parts) /\ DOMAIN parts = DOMAIN e.sub
    <3>1. parts = [i \in 1..Len(e.sub) |-> parts[i]]
      BY <2>1
    <3> HIDE DEF parts
    <3> QED
      BY <2>1, <3>1, ListMade
  <2>3. \A s \in ToSet(parts) : \E i \in DOMAIN e.sub : s = Visited(e.sub[i])
    BY DEF ToSet
  <2>4. \A s \in ToSet(e.sub) : Visited(s) \in ToSet(parts)
    BY DEF ToSet
  <2>5. \A s \in ToSet(parts) : \E x \in ToSet(e.sub) : s = Visited(x) /\ IsList(s)
    BY <1>1, <2>3 DEF ToSet
  <2>6. IsList(rest) /\ ToSet(rest) = UNION {ToSet(s) : s \in ToSet(parts)}
    <3> HIDE DEF parts
    <3> QED
      BY <2>2, <2>5, FlatList
  <2>7. Visited(e) = <<e>> \o rest
    BY VisitedIs
  <2>8. IsList(Visited(e)) /\ ToSet(Visited(e)) = {e} \cup ToSet(rest)
    <3> HIDE DEF rest
    <3>1. IsList(<<e>>) /\ ToSet(<<e>>) = {e}
      BY ListOne
    <3> QED
      BY <2>6, <2>7, <3>1, ListConcat
  <2>9. UNION {ToSet(s) : s \in ToSet(parts)} = UNION {Parts(s) : s \in ToSet(e.sub)}
    <3> HIDE DEF parts
    <3> QED
      BY <2>4, <2>5 DEF Parts
  <2> QED
    BY <2>6, <2>8, <2>9 DEF Parts
<1>2. Expr \subseteq S
  <2>1. \A e \in Expr : ToSet(e.sub) \subseteq S => e \in S
    BY <1>1
  <2> QED
    BY <2>1, ExprInduction
<1> QED
  BY <1>1, <1>2, ExprNode

LEMMA PartsInExpr ==
  \A e \in Expr : Parts(e) \subseteq Expr /\ IsFiniteSet(Parts(e))
<1> DEFINE S == {e \in Expr : Parts(e) \subseteq Expr}
<1>1. ASSUME NEW e \in Expr, ToSet(e.sub) \subseteq S
      PROVE  e \in S
  BY <1>1, PartsAre
<1>2. Expr \subseteq S
  <2>1. \A e \in Expr : ToSet(e.sub) \subseteq S => e \in S
    BY <1>1
  <2> QED
    BY <2>1, ExprInduction
<1> QED
  BY <1>2, PartsAre, ListFinite DEF Parts

-----------------------------------------------------------------------------
LEMMA StringIs ==
  ASSUME NEW text
  PROVE  String(text).kind = "string" /\ String(text).names = text /\ String(text).sub = <<>>
BY DEF String, Node

\* A map node: its keys are where Alternates says.
IsMap(n) == n.kind \in {"map", "object"}

LEMMA MapNode ==
  ASSUME NEW n, Fields(n), IsList(n.sub), IsMap(n)
  PROVE  /\ IsList(Keys(n)) /\ Len(Keys(n)) \in Nat /\ Len(n.sub) = 2 * Len(Keys(n))
         /\ \A i \in 1..Len(Keys(n)) :
              /\ 2 * i - 1 \in DOMAIN n.sub /\ 2 * i \in DOMAIN n.sub
              /\ Keys(n)[i] = n.sub[2 * i - 1].names /\ n.sub[2 * i - 1] = String(Keys(n)[i])
<1>1. PICK k \in 0..Len(n.sub) :
        /\ Len(n.sub) = 2 * k
        /\ \A i \in 1..k : n.sub[2 * i - 1] = String(n.sub[2 * i - 1].names)
  BY DEF Fields, Alternates, IsMap
<1>2. k \in Nat /\ Len(n.sub) \div 2 = k /\ DOMAIN n.sub = 1..(2 * k)
  BY <1>1, ListLen
<1>3. Keys(n) = [i \in 1..k |-> n.sub[2 * i - 1].names]
  BY <1>2, Zenon DEF Keys
<1>4. IsList(Keys(n)) /\ Len(Keys(n)) = k
  <2> DEFINE keys == Keys(n)
  <2>1. keys = [i \in 1..k |-> keys[i]]
    BY <1>3
  <2> HIDE DEF keys
  <2>2. IsList(keys) /\ Len(keys) = k
    BY <1>2, <2>1, ListMade
  <2> QED
    BY <2>2 DEF keys
<1>5. \A i \in 1..k : 2 * i - 1 \in 1..(2 * k) /\ 2 * i \in 1..(2 * k)
  BY <1>2
<1>6. \A i \in 1..k : Keys(n)[i] = n.sub[2 * i - 1].names
  BY <1>3
<1> QED
  BY <1>1, <1>2, <1>4, <1>5, <1>6

LEMMA LastKeyIs ==
  ASSUME NEW n, Fields(n), IsList(n.sub), IsMap(n), NEW key \in ToSet(Keys(n))
  PROVE  LastKey(n, key) \in 1..Len(Keys(n)) /\ Keys(n)[LastKey(n, key)] = key
<1> DEFINE I == {i \in 1..Len(Keys(n)) : Keys(n)[i] = key}
<1>1. Len(Keys(n)) \in Nat /\ DOMAIN Keys(n) = 1..Len(Keys(n)) /\ IsList(Keys(n))
  BY MapNode, ListLen
<1>2. I # {} /\ I \subseteq 1..Len(Keys(n))
  BY <1>1, ListLen
<1>3. PICK m \in I : \A i \in I : m >= i
  <2> HIDE DEF I
  <2> QED
    BY <1>1, <1>2, LastPlace
<1>4. \A j \in (m + 1)..Len(Keys(n)) : Keys(n)[j] # key
  BY <1>1, <1>3
<1>5. \E i \in DOMAIN Keys(n) : /\ Keys(n)[i] = key
                                /\ \A j \in (i + 1)..Len(Keys(n)) : Keys(n)[j] # key
  BY <1>1, <1>3, <1>4
<1>6. LastKey(n, key) \in DOMAIN Keys(n) /\ Keys(n)[LastKey(n, key)] = key
  BY <1>5, Zenon DEF LastKey
<1> QED
  BY <1>1, <1>6

\* What the encoder makes of a map node: each key once, in order, with its last value.
EncodedKeys(n) == SetToSeq(ToSet(Keys(n)))

LEMMA MapEncoded ==
  ASSUME NEW n, Fields(n), IsList(n.sub), IsMap(n), NEW enc
  PROVE  /\ IsList(EncodedKeys(n)) /\ ToSet(EncodedKeys(n)) = ToSet(Keys(n))
         /\ Distinct(EncodedKeys(n))
         /\ IsList(EncodedParts(n, enc)) /\ Len(EncodedParts(n, enc)) = 2 * Len(EncodedKeys(n))
         /\ \A i \in 1..Len(EncodedKeys(n)) :
              /\ EncodedParts(n, enc)[2 * i - 1] = String(EncodedKeys(n)[i])
              /\ EncodedParts(n, enc)[2 * i] = enc[Value(n, LastKey(n, EncodedKeys(n)[i]))]
<1> DEFINE keys == EncodedKeys(n)
           pairs == [k \in DOMAIN keys |->
                       <<String(keys[k]), enc[Value(n, LastKey(n, keys[k]))]>>]
<1>1. IsList(keys) /\ ToSet(keys) = ToSet(Keys(n)) /\ Distinct(keys)
  BY MapNode, ListFinite, SetList DEF EncodedKeys
<1>2. EncodedParts(n, enc) = FlattenSeq(pairs)
  BY Zenon DEF EncodedParts, IsMap, EncodedKeys
<1>3. Len(keys) \in Nat /\ DOMAIN keys = 1..Len(keys)
  BY <1>1, ListLen
<1>4. IsList(pairs) /\ Len(pairs) = Len(keys) /\ DOMAIN pairs = 1..Len(keys)
  <2>1. pairs = [k \in 1..Len(keys) |-> pairs[k]]
    BY <1>3
  <2> HIDE DEF pairs, keys
  <2> QED
    BY <1>3, <2>1, ListMade
<1>5. ASSUME NEW a, NEW b
      PROVE  IsList(<<a, b>>) /\ Len(<<a, b>>) = 2 /\ <<a, b>>[1] = a /\ <<a, b>>[2] = b
  <2>1. <<a, b>> \in Seq({a, b}) /\ Len(<<a, b>>) = 2
    OBVIOUS
  <2> QED
    BY <2>1, ListOf
<1>6. \A i \in 1..Len(keys) :
        /\ IsList(pairs[i]) /\ Len(pairs[i]) = 2
        /\ pairs[i][1] = String(keys[i])
        /\ pairs[i][2] = enc[Value(n, LastKey(n, keys[i]))]
  <2>1. \A i \in 1..Len(keys) :
          pairs[i] = <<String(keys[i]), enc[Value(n, LastKey(n, keys[i]))]>>
    BY <1>3, Zenon
  <2> HIDE DEF pairs, keys
  <2>2. SUFFICES ASSUME NEW i \in 1..Len(keys)
                 PROVE  /\ IsList(pairs[i]) /\ Len(pairs[i]) = 2
                        /\ pairs[i][1] = String(keys[i])
                        /\ pairs[i][2] = enc[Value(n, LastKey(n, keys[i]))]
    BY Zenon
  <2> DEFINE a == String(keys[i])  b == enc[Value(n, LastKey(n, keys[i]))]
  <2>3. pairs[i] = <<a, b>>
    BY <2>1
  <2> HIDE DEF a, b
  <2>4. IsList(pairs[i]) /\ Len(pairs[i]) = 2 /\ pairs[i][1] = a /\ pairs[i][2] = b
    BY <1>5, <2>3
  <2> QED
    BY <2>4 DEF a, b
<1> HIDE DEF pairs
<1>7. /\ IsList(FlattenSeq(pairs)) /\ Len(FlattenSeq(pairs)) = 2 * Len(keys)
      /\ \A i \in 1..Len(keys) : /\ FlattenSeq(pairs)[2 * i - 1] = pairs[i][1]
                                 /\ FlattenSeq(pairs)[2 * i] = pairs[i][2]
  <2> HIDE DEF keys
  <2> QED
    BY <1>4, <1>6, FlatPairs
<1> QED
  BY <1>1, <1>2, <1>6, <1>7, Zenon

\* A place in a map holds a key or a value.
LEMMA Places ==
  ASSUME NEW n, Fields(n), IsList(n.sub), IsMap(n), NEW s \in ToSet(n.sub)
  PROVE  \E i \in 1..Len(Keys(n)) : s = String(Keys(n)[i]) \/ s = Value(n, i)
<1>1. /\ Len(Keys(n)) \in Nat /\ Len(n.sub) = 2 * Len(Keys(n))
      /\ \A i \in 1..Len(Keys(n)) : n.sub[2 * i - 1] = String(Keys(n)[i])
  BY MapNode
<1>2. PICK j \in 1..(2 * Len(Keys(n))) : s = n.sub[j]
  BY <1>1, ListLen
<1> DEFINE i == (j + 1) \div 2
<1>3. i \in 1..Len(Keys(n)) /\ (j = 2 * i - 1 \/ j = 2 * i)
  BY <1>1
<1> HIDE DEF i
<1> QED
  BY <1>1, <1>2, <1>3 DEF Value

\* What the encoder leaves in a node: encoded parts, and keys as they were; and
\* where no key is repeated, all of them.
LEMMA PartsEncoded ==
  ASSUME NEW n, Fields(n), IsList(n.sub), NEW enc
  PROVE  LET parts == EncodedParts(n, enc) IN
         /\ IsList(parts)
         /\ \A x \in ToSet(parts) : \/ \E s \in ToSet(n.sub) : x = enc[s]
                                    \/ x \in ToSet(n.sub) /\ x = String(x.names)
         /\ (IsMap(n) => Distinct(Keys(n))) =>
              \A s \in ToSet(n.sub) : enc[s] \in ToSet(parts) \/ s \in ToSet(parts)
<1> DEFINE parts == EncodedParts(n, enc)
<1> HIDE DEF parts
<1>1. CASE ~IsMap(n)
  <2>1. parts = [i \in DOMAIN n.sub |-> enc[n.sub[i]]]
    BY <1>1, Zenon DEF parts, EncodedParts, IsMap
  <2>2. Len(n.sub) \in Nat /\ DOMAIN n.sub = 1..Len(n.sub)
    BY ListLen
  <2>3. IsList(parts) /\ DOMAIN parts = DOMAIN n.sub
    <3>1. parts = [i \in 1..Len(n.sub) |-> parts[i]]
      BY <2>1, <2>2
    <3> QED
      BY <2>2, <3>1, ListMade
  <2>4. \A i \in DOMAIN n.sub : parts[i] = enc[n.sub[i]]
    BY <2>1, Zenon
  <2> QED
    BY <2>3, <2>4 DEF ToSet, parts
<1>2. CASE IsMap(n)
  <2> DEFINE keys == EncodedKeys(n)
  <2> HIDE DEF keys
  <2>1. /\ IsList(keys) /\ ToSet(keys) = ToSet(Keys(n))
        /\ IsList(parts) /\ Len(parts) = 2 * Len(keys)
        /\ \A i \in 1..Len(keys) : /\ parts[2 * i - 1] = String(keys[i])
                                   /\ parts[2 * i] = enc[Value(n, LastKey(n, keys[i]))]
    BY <1>2, MapEncoded DEF keys, parts
  <2>2. /\ IsList(Keys(n)) /\ Len(Keys(n)) \in Nat
        /\ \A i \in 1..Len(Keys(n)) :
              /\ 2 * i - 1 \in DOMAIN n.sub /\ 2 * i \in DOMAIN n.sub
              /\ n.sub[2 * i - 1] = String(Keys(n)[i])
    BY <1>2, MapNode
  <2>3. Len(keys) \in Nat /\ Len(Keys(n)) \in Nat /\ DOMAIN parts = 1..(2 * Len(keys))
    BY <2>1, <2>2, ListLen
  <2>4. ASSUME NEW i \in 1..Len(keys)
        PROVE  /\ keys[i] \in ToSet(Keys(n)) /\ LastKey(n, keys[i]) \in 1..Len(Keys(n))
               /\ Keys(n)[LastKey(n, keys[i])] = keys[i]
    BY <1>2, <2>1, ListLen, LastKeyIs
  <2>5. ASSUME NEW x \in ToSet(parts)
        PROVE  \/ \E s \in ToSet(n.sub) : x = enc[s]
               \/ x \in ToSet(n.sub) /\ x = String(x.names)
    <3>1. PICK j \in 1..(2 * Len(keys)) : x = parts[j]
      BY <2>3, <2>5 DEF ToSet
    <3> DEFINE i == (j + 1) \div 2
    <3>2. i \in 1..Len(keys) /\ (j = 2 * i - 1 \/ j = 2 * i)
      BY <2>3
    <3> HIDE DEF i
    <3> DEFINE last == LastKey(n, keys[i])
    <3>3. last \in 1..Len(Keys(n)) /\ Keys(n)[last] = keys[i]
      BY <2>4, <3>2
    <3> HIDE DEF last
    <3>4. CASE j = 2 * i - 1
      <4>1. x = n.sub[2 * last - 1] /\ x = String(keys[i])
        BY <2>1, <2>2, <3>1, <3>2, <3>3, <3>4
      <4>2. x \in ToSet(n.sub)
        BY <2>2, <3>3, <4>1 DEF ToSet
      <4>3. x.names = keys[i]
        BY <4>1 DEF String, Node
      <4> QED
        BY <4>1, <4>2, <4>3
    <3>5. CASE j = 2 * i
      <4>1. x = enc[n.sub[2 * last]]
        BY <2>1, <3>1, <3>2, <3>5 DEF Value, last
      <4>2. n.sub[2 * last] \in ToSet(n.sub)
        BY <2>2, <3>3 DEF ToSet
      <4> QED
        BY <4>1, <4>2
    <3> QED
      BY <3>2, <3>4, <3>5
  <2>6. ASSUME Distinct(Keys(n)), NEW s \in ToSet(n.sub)
        PROVE  enc[s] \in ToSet(parts) \/ s \in ToSet(parts)
    <3>1. PICK i \in 1..Len(Keys(n)) : s = String(Keys(n)[i]) \/ s = Value(n, i)
      BY <1>2, Places
    <3>2. PICK m \in 1..Len(keys) : keys[m] = Keys(n)[i]
      <4>1. Keys(n)[i] \in ToSet(keys)
        BY <2>1, <2>2, ListLen
      <4>2. \A x : x \in ToSet(keys) => \E m \in 1..Len(keys) : x = keys[m]
        BY <2>1, ListLen
      <4> QED
        BY <4>1, <4>2, Zenon
    <3>3. LastKey(n, keys[m]) = i
      BY <2>2, <2>4, <2>6, <3>2, DistinctApart
    <3>4. 2 * m - 1 \in DOMAIN parts /\ 2 * m \in DOMAIN parts
      BY <2>3
    <3>5. parts[2 * m - 1] = String(Keys(n)[i]) /\ parts[2 * m] = enc[Value(n, i)]
      BY <2>1, <3>2, <3>3
    <3> QED
      BY <3>1, <3>4, <3>5 DEF ToSet
  <2> QED
    BY <1>2, <2>1, <2>5, <2>6 DEF parts
<1> QED
  BY <1>1, <1>2

\* The parts of a node alone are encoded.
LEMMA EncodedFields ==
  ASSUME NEW n, Fields(n), IsList(n.sub), NEW enc
  PROVE  LET m == NodeEncoded(n, enc) IN
         /\ Fields(m) /\ m.sub = EncodedParts(n, enc)
         /\ m.kind = n.kind /\ m.at = n.at /\ m.names = n.names
         /\ IsMap(n) => Keys(m) = EncodedKeys(n)
<1> DEFINE m == NodeEncoded(n, enc)
           parts == EncodedParts(n, enc)
<1> HIDE DEF parts
<1>1. m = Node(n.kind, n.at, n.names, parts)
  <2>1. n = Node(n.kind, n.at, n.names, n.sub)
    BY DEF Fields
  <2> QED
    BY <2>1, SMT DEF NodeEncoded, Node, parts
<1> HIDE DEF m
<1>2. m.kind = n.kind /\ m.at = n.at /\ m.names = n.names /\ m.sub = parts
  BY <1>1 DEF Node
<1>3. ASSUME IsMap(n)
      PROVE  Keys(m) = EncodedKeys(n) /\ Alternates(m)
  <2> DEFINE keys == EncodedKeys(n)
  <2> HIDE DEF keys
  <2>1. /\ IsList(keys) /\ IsList(parts) /\ Len(parts) = 2 * Len(keys)
        /\ \A i \in 1..Len(keys) : parts[2 * i - 1] = String(keys[i])
    BY <1>3, MapEncoded DEF keys, parts
  <2>2. /\ Len(keys) \in Nat /\ keys = [i \in 1..Len(keys) |-> keys[i]]
        /\ Len(parts) \div 2 = Len(keys) /\ Len(keys) \in 0..Len(parts)
    <3>1. Len(keys) \in Nat /\ keys = [i \in 1..Len(keys) |-> keys[i]]
      BY <2>1, ListLen
    <3>2. \A k \in Nat, l \in Nat : l = 2 * k => l \div 2 = k /\ k \in 0..l
      OBVIOUS
    <3>3. Len(parts) \in Nat /\ Len(parts) = 2 * Len(keys)
      BY <2>1, ListLen
    <3> QED
      BY <3>1, <3>2, <3>3
  <2>3. \A i \in 1..Len(keys) : parts[2 * i - 1].names = keys[i]
    BY <2>1, StringIs, Zenon
  <2>4. Keys(m) = keys
    <3>1. Keys(m) = [i \in 1..Len(keys) |-> parts[2 * i - 1].names]
      BY <1>2, <2>2, Zenon DEF Keys
    <3> QED
      BY <2>2, <2>3, <3>1, Zenon
  <2>5. Alternates(m)
    <3>1. \A i \in 1..Len(keys) : parts[2 * i - 1] = String(parts[2 * i - 1].names)
      BY <2>1, <2>3
    <3> QED
      BY <1>2, <2>1, <2>2, <3>1 DEF Alternates
  <2> QED
    BY <2>4, <2>5 DEF keys
<1>4. Fields(m)
  <2>1. m = Node(m.kind, m.at, m.names, m.sub)
    BY <1>1, <1>2
  <2> QED
    BY <1>2, <1>3, <2>1 DEF Fields, IsMap
<1> QED
  BY <1>2, <1>3, <1>4 DEF m, parts

\* The encoder is defined for every expression, by its parts.
EncodedTo(h, v) == v = [n \in Tree[h] |-> NodeEncoded(n, v)]

LEMMA EncodedAgree ==
  ASSUME NEW n, Fields(n), IsList(n.sub),
         NEW v, NEW w, \A i \in DOMAIN n.sub : v[n.sub[i]] = w[n.sub[i]]
  PROVE  NodeEncoded(n, v) = NodeEncoded(n, w)
<1>1. CASE ~IsMap(n)
  <2>1. [i \in DOMAIN n.sub |-> v[n.sub[i]]] = [i \in DOMAIN n.sub |-> w[n.sub[i]]]
    BY Zenon
  <2> QED
    BY <1>1, <2>1, Zenon DEF NodeEncoded, EncodedParts, IsMap
<1>2. CASE IsMap(n)
  <2> DEFINE keys == EncodedKeys(n)
             last(k) == LastKey(n, keys[k])
  <2>1. ASSUME NEW k \in DOMAIN keys
        PROVE  v[Value(n, last(k))] = w[Value(n, last(k))]
    <3>1. keys[k] \in ToSet(Keys(n))
      BY <1>2, MapEncoded DEF ToSet
    <3>2. 2 * LastKey(n, keys[k]) \in DOMAIN n.sub
      BY <1>2, <3>1, MapNode, LastKeyIs
    <3> QED
      BY <3>2, Zenon DEF Value
  <2>2. [k \in DOMAIN keys |-> <<String(keys[k]), v[Value(n, last(k))]>>]
          = [k \in DOMAIN keys |-> <<String(keys[k]), w[Value(n, last(k))]>>]
    <3> HIDE DEF keys
    <3> QED
      BY <2>1, Zenon
  <2> QED
    BY <1>2, <2>2, Zenon DEF NodeEncoded, EncodedParts, EncodedKeys, IsMap
<1> QED
  BY <1>1, <1>2

LEMMA EncodedExists ==
  \A h \in 0..MaxDepth : \E v : EncodedTo(h, v)
<1> DEFINE Bad == {h \in 0..MaxDepth : ~\E v : EncodedTo(h, v)}
<1>1. SUFFICES ASSUME Bad # {} PROVE FALSE
  OBVIOUS
<1>2. PICK h \in Bad : \A k \in Bad : h <= k
  <2>1. Bad \in SUBSET Nat
    BY DepthAssumption
  <2> QED
    BY <1>1, <2>1, LeastNumber
<1>3. PICK v : \A n \in Tree[h] : \A i \in DOMAIN n.sub :
                 n.sub[i] \in Tree[h] /\ v[n.sub[i]] = NodeEncoded(n.sub[i], v)
  <2>1. CASE h = 0
    <3>1. \A n \in Tree[h] : DOMAIN n.sub = {}
      BY <1>2, <2>1, TreeNode, ListEmpty DEF ToSet
    <3> QED
      BY <3>1
  <2>2. CASE h # 0
    <3>1. /\ h \in 0..MaxDepth /\ h - 1 \in 0..MaxDepth /\ ~(h <= h - 1)
          /\ h - 1 # MaxDepth /\ h - 1 + 1 = h
      BY <1>2, <2>2, DepthAssumption
    <3>2. PICK v : EncodedTo(h - 1, v)
      BY <1>2, <3>1
    <3>3. ASSUME NEW n \in Tree[h], NEW i \in DOMAIN n.sub
          PROVE  n.sub[i] \in Tree[h] /\ v[n.sub[i]] = NodeEncoded(n.sub[i], v)
      <4>1. n.sub[i] \in Tree[h - 1]
        BY <2>2, <3>1, TreeNode DEF ToSet
      <4>2. n.sub[i] \in Tree[h]
        BY <3>1, <4>1, TreeGrows
      <4> QED
        BY <3>2, <4>1, <4>2, Zenon DEF EncodedTo
    <3> QED
      BY <3>3
  <2> QED
    BY <2>1, <2>2
<1> DEFINE w == [n \in Tree[h] |-> NodeEncoded(n, v)]
<1>4. ASSUME NEW n \in Tree[h]
      PROVE  NodeEncoded(n, w) = NodeEncoded(n, v)
  <2>1. \A i \in DOMAIN n.sub : w[n.sub[i]] = v[n.sub[i]]
    BY <1>3, Zenon
  <2>2. Fields(n) /\ IsList(n.sub)
    BY <1>2, TreeNode
  <2> HIDE DEF w
  <2> QED
    BY <2>1, <2>2, EncodedAgree
<1>5. EncodedTo(h, w)
  <2> HIDE DEF w
  <2>1. w = [n \in Tree[h] |-> NodeEncoded(n, v)]
    BY DEF w
  <2> QED
    BY <1>4, <2>1, Zenon DEF EncodedTo
<1> QED
  BY <1>2, <1>5

LEMMA EncodedIs ==
  \E enc : \A e \in Expr : enc[e] = Encoded(e) /\ Encoded(e) = NodeEncoded(e, enc)
<1> DEFINE v == CHOOSE w : EncodedTo(MaxDepth, w)
<1>1. EncodedTo(MaxDepth, v)
  BY EncodedExists, DepthAssumption
<1>2. ASSUME NEW n \in Expr PROVE Encoded(n) = v[n]
  BY Zenon DEF Encoded, EncodedTo, Expr
<1>3. ASSUME NEW n \in Expr PROVE v[n] = NodeEncoded(n, v)
  <2> HIDE DEF v
  <2> QED
    BY <1>1, Zenon DEF EncodedTo, Expr
<1> HIDE DEF v
<1> QED
  BY <1>2, <1>3

LEMMA EncodedNode ==
  ASSUME NEW e \in Expr
  PROVE  LET m == Encoded(e) IN
         /\ Fields(m) /\ IsList(m.sub)
         /\ m.kind = e.kind /\ m.at = e.at /\ m.names = e.names
         /\ \A x \in ToSet(m.sub) : \/ \E s \in ToSet(e.sub) : x = Encoded(s)
                                    \/ x \in ToSet(e.sub) /\ x = String(x.names)
         /\ (IsMap(e) => Distinct(Keys(e))) =>
              \A s \in ToSet(e.sub) : Encoded(s) \in ToSet(m.sub) \/ s \in ToSet(m.sub)
         /\ IsMap(e) => Keys(m) = EncodedKeys(e)
<1>1. PICK enc : \A n \in Expr : enc[n] = Encoded(n) /\ Encoded(n) = NodeEncoded(n, enc)
  BY EncodedIs
<1> DEFINE m == Encoded(e)
<1>2. Fields(e) /\ IsList(e.sub) /\ ToSet(e.sub) \subseteq Expr
  BY ExprNode
<1>3. m = NodeEncoded(e, enc) /\ \A s \in ToSet(e.sub) : enc[s] = Encoded(s)
  BY <1>1, <1>2
<1> HIDE DEF m
<1>4. /\ Fields(m) /\ m.sub = EncodedParts(e, enc)
      /\ m.kind = e.kind /\ m.at = e.at /\ m.names = e.names
      /\ IsMap(e) => Keys(m) = EncodedKeys(e)
  BY <1>2, <1>3, EncodedFields
<1>5. /\ IsList(m.sub)
      /\ \A x \in ToSet(m.sub) : \/ \E s \in ToSet(e.sub) : x = enc[s]
                                 \/ x \in ToSet(e.sub) /\ x = String(x.names)
      /\ (IsMap(e) => Distinct(Keys(e))) =>
           \A s \in ToSet(e.sub) : enc[s] \in ToSet(m.sub) \/ s \in ToSet(m.sub)
  BY <1>2, <1>4, PartsEncoded
<1> QED
  BY <1>3, <1>4, <1>5 DEF m

\* What is read back nests no deeper, and is of the same kind.
LEMMA EncodedTyped ==
  \A e \in Expr : \A h \in 0..MaxDepth : e \in Tree[h] => Encoded(e) \in Tree[h]
<1> DEFINE S == {e \in Expr : \A h \in 0..MaxDepth : e \in Tree[h] => Encoded(e) \in Tree[h]}
<1>1. ASSUME NEW e \in Expr, ToSet(e.sub) \subseteq S, NEW h \in 0..MaxDepth, e \in Tree[h]
      PROVE  Encoded(e) \in Tree[h]
  <2> DEFINE m == Encoded(e)
  <2>1. /\ Fields(m) /\ IsList(m.sub)
        /\ \A x \in ToSet(m.sub) : \/ \E s \in ToSet(e.sub) : x = Encoded(s)
                                   \/ x \in ToSet(e.sub)
    BY EncodedNode
  <2> HIDE DEF m
  <2>2. CASE h = 0
    <3>1. ToSet(e.sub) = {}
      BY <1>1, <2>2, TreeNode, ListEmpty
    <3>2. m.sub = <<>>
      BY <2>1, <3>1, ListEmpty
    <3> QED
      BY <2>1, <2>2, <3>2, TreeNode DEF m
  <2>3. CASE h # 0
    <3>1. h - 1 \in 0..MaxDepth
      BY <2>3, DepthAssumption
    <3>2. ToSet(e.sub) \subseteq Tree[h - 1]
      BY <1>1, <2>3, TreeNode
    <3>3. ToSet(m.sub) \subseteq Tree[h - 1]
      BY <1>1, <2>1, <3>1, <3>2
    <3> QED
      BY <2>1, <2>3, <3>3, TreeNode DEF m
  <2> QED
    BY <2>2, <2>3
<1>2. Expr \subseteq S
  <2>1. \A e \in Expr : ToSet(e.sub) \subseteq S => e \in S
    BY <1>1
  <2> QED
    BY <2>1, ExprInduction
<1> QED
  BY <1>2

LEMMA EncodedInExpr ==
  \A e \in Expr : Encoded(e) \in Expr /\ Encoded(e).kind = e.kind
<1>1. MaxDepth \in 0..MaxDepth
  BY DepthAssumption
<1> QED
  BY <1>1, EncodedTyped, EncodedNode DEF Expr

-----------------------------------------------------------------------------
\* What a validator sees of a node.
Like(m, n) == m.kind = n.kind /\ m.at = n.at /\ m.names = n.names

KeysDistinct(e) == \A n \in Parts(e) : IsMap(n) => Distinct(Keys(n))

\* The encoder invents nothing,
LEMMA EncodedImages ==
  \A e \in Expr : \A m \in Parts(Encoded(e)) : \E n \in Parts(e) : Like(m, n)
<1> DEFINE S == {e \in Expr : \A m \in Parts(Encoded(e)) : \E n \in Parts(e) : Like(m, n)}
<1>1. ASSUME NEW e \in Expr, ToSet(e.sub) \subseteq S, NEW m \in Parts(Encoded(e))
      PROVE  \E n \in Parts(e) : Like(m, n)
  <2>1. Encoded(e) \in Expr /\ ToSet(e.sub) \subseteq Expr
    BY EncodedInExpr, ExprNode
  <2>2. Parts(e) = {e} \cup UNION {Parts(s) : s \in ToSet(e.sub)}
    BY PartsAre
  <2>3. m = Encoded(e) \/ \E x \in ToSet(Encoded(e).sub) : m \in Parts(x)
    BY <1>1, <2>1, PartsAre
  <2>4. CASE m = Encoded(e)
    BY <2>2, <2>4, EncodedNode DEF Like
  <2>5. CASE \E x \in ToSet(Encoded(e).sub) : m \in Parts(x)
    <3>1. PICK x \in ToSet(Encoded(e).sub) : m \in Parts(x)
      BY <2>5
    <3>2. CASE \E s \in ToSet(e.sub) : x = Encoded(s)
      <4>1. PICK s \in ToSet(e.sub) : x = Encoded(s)
        BY <3>2
      <4>2. \E n \in Parts(s) : Like(m, n)
        BY <1>1, <3>1, <4>1
      <4> QED
        BY <2>2, <4>2
    <3>3. CASE x \in ToSet(e.sub)
      BY <2>2, <3>1, <3>3 DEF Like
    <3> QED
      BY <3>2, <3>3, EncodedNode
  <2> QED
    BY <2>3, <2>4, <2>5
<1>2. Expr \subseteq S
  <2>1. \A e \in Expr : ToSet(e.sub) \subseteq S => e \in S
    BY <1>1
  <2> QED
    BY <2>1, ExprInduction
<1> QED
  BY <1>2

\* and drops nothing where no key is repeated.
LEMMA EncodedKeepsAll ==
  \A e \in Expr : KeysDistinct(e) =>
    \A n \in Parts(e) : \E m \in Parts(Encoded(e)) : Like(m, n)
<1> DEFINE S == {e \in Expr : KeysDistinct(e) =>
                   \A n \in Parts(e) : \E m \in Parts(Encoded(e)) : Like(m, n)}
<1>1. ASSUME NEW e \in Expr, ToSet(e.sub) \subseteq S, KeysDistinct(e), NEW n \in Parts(e)
      PROVE  \E m \in Parts(Encoded(e)) : Like(m, n)
  <2>1. Encoded(e) \in Expr /\ ToSet(e.sub) \subseteq Expr
    BY EncodedInExpr, ExprNode
  <2>2. Parts(e) = {e} \cup UNION {Parts(s) : s \in ToSet(e.sub)}
    BY PartsAre
  <2>3. Parts(Encoded(e)) = {Encoded(e)} \cup UNION {Parts(x) : x \in ToSet(Encoded(e).sub)}
    BY <2>1, PartsAre
  <2>4. CASE n = e
    BY <2>3, <2>4, EncodedNode DEF Like
  <2>5. CASE n # e
    <3>1. PICK s \in ToSet(e.sub) : n \in Parts(s)
      BY <1>1, <2>2, <2>5
    <3>2. KeysDistinct(s) /\ (IsMap(e) => Distinct(Keys(e)))
      BY <1>1, <2>2 DEF KeysDistinct
    <3>3. CASE Encoded(s) \in ToSet(Encoded(e).sub)
      <4>1. \E m \in Parts(Encoded(s)) : Like(m, n)
        BY <1>1, <3>1, <3>2
      <4> QED
        BY <2>3, <3>3, <4>1
    <3>4. CASE s \in ToSet(Encoded(e).sub)
      BY <2>3, <3>1, <3>4 DEF Like
    <3> QED
      BY <3>2, <3>3, <3>4, EncodedNode
  <2> QED
    BY <2>4, <2>5
<1>2. Expr \subseteq S
  <2>1. \A e \in Expr : ToSet(e.sub) \subseteq S => e \in S
    BY <1>1
  <2> QED
    BY <2>1, ExprInduction
<1> QED
  BY <1>2

LEMMA EncodedReferences ==
  ASSUME NEW e \in Expr
  PROVE  /\ References(Encoded(e)) \subseteq References(e)
         /\ KeysDistinct(e) => References(Encoded(e)) = References(e)
BY EncodedImages, EncodedKeepsAll DEF References, Parts, Like

-----------------------------------------------------------------------------
\* What is parsed of the text of an address: another address, if any, and the
\* same where type and name are identifiers.
LEMMA ParseTyped ==
  ASSUME NEW at
  PROVE  Parse(at) \in AnyAddress
<1> DEFINE parts == AddressSegments(at)
<1>1. Parse(at) = IF Len(parts) = 2 /\ {parts[1], parts[2]} \subseteq Identifiers
                    THEN Address(TRUE, parts[1], parts[2])
                  ELSE IF Len(parts) = 3 /\ parts[1] = "data"
                            /\ {parts[2], parts[3]} \subseteq Identifiers
                    THEN Address(FALSE, parts[2], parts[3])
                  ELSE Nowhere
  BY Zenon DEF Parse
<1>2. \A a, b : {a, b} \subseteq Identifiers =>
                \A managed \in BOOLEAN : Address(managed, a, b) \in AnyAddress
  BY NamesAssumption DEF Address, AnyAddress
<1>3. Nowhere \in AnyAddress
  BY NamesAssumption DEF Address, Nowhere, AnyAddress
<1> DEFINE two == Len(parts) = 2 /\ {parts[1], parts[2]} \subseteq Identifiers
           three == /\ Len(parts) = 3 /\ parts[1] = "data"
                    /\ {parts[2], parts[3]} \subseteq Identifiers
<1> HIDE DEF parts
<1>4. CASE two
  BY <1>1, <1>2, <1>4
<1>5. CASE ~two /\ three
  BY <1>1, <1>2, <1>5
<1>6. CASE ~two /\ ~three
  BY <1>1, <1>3, <1>6
<1> QED
  BY <1>4, <1>5, <1>6

LEMMA PairIs ==
  ASSUME NEW s, IsList(s), NEW x, NEW y
  PROVE  LET t == s \o <<x>> \o <<y>> IN
         /\ Len(t) = Len(s) + 2 /\ t[Len(s) + 1] = x /\ t[Len(s) + 2] = y
         /\ \A i \in 1..Len(s) : t[i] = s[i]
<1> DEFINE a == <<x>>  b == <<y>>  t == s \o a
<1>1. /\ IsList(a) /\ Len(a) = 1 /\ a[1] = x
      /\ IsList(b) /\ Len(b) = 1 /\ b[1] = y
  BY ListOne
<1> HIDE DEF a, b
<1>2. /\ IsList(s \o a) /\ Len(s \o a) = Len(s) + Len(a)
      /\ \A i \in 1..Len(s) : (s \o a)[i] = s[i]
      /\ \A i \in 1..Len(a) : (s \o a)[Len(s) + i] = a[i]
  <2>1. IsList(s) /\ IsList(a)
    BY <1>1
  <2> QED
    BY <2>1, ListConcat
<1> HIDE DEF t
<1>3. /\ Len(t \o b) = Len(t) + Len(b)
      /\ \A i \in 1..Len(t) : (t \o b)[i] = t[i]
      /\ \A i \in 1..Len(b) : (t \o b)[Len(t) + i] = b[i]
  <2>1. IsList(t) /\ IsList(b)
    BY <1>1, <1>2 DEF t
  <2> QED
    BY <2>1, ListConcat
<1>4. Len(s) \in Nat /\ Len(t) = Len(s) + 1 /\ Len(t) + 1 = Len(s) + 2
  BY <1>1, <1>2, ListLen DEF t
<1>5. /\ Len(t \o b) = Len(s) + 2 /\ (t \o b)[Len(s) + 1] = x /\ (t \o b)[Len(s) + 2] = y
      /\ \A i \in 1..Len(s) : (t \o b)[i] = s[i]
  <2>1. 1 \in 1..Len(a) /\ 1 \in 1..Len(b) /\ Len(s) + 1 \in 1..Len(t)
        /\ \A i \in 1..Len(s) : i \in 1..Len(t)
    BY <1>1, <1>4
  <2> QED
    BY <1>1, <1>2, <1>3, <1>4, <2>1 DEF t
<1> QED
  BY <1>5 DEF t, a, b

LEMMA ParseSelf ==
  ASSUME NEW at \in AnyAddress, {at.type, at.name} \subseteq Identifiers
  PROVE  Parse(at) = at /\ at # Nowhere
<1> DEFINE parts == AddressSegments(at)
           first == IF at.managed THEN <<>> ELSE <<"data">>
<1>1. at = Address(at.managed, at.type, at.name) /\ at.managed \in BOOLEAN
  BY DEF AnyAddress, Address
<1>2. at # Nowhere
  <2>1. at.name # "" /\ Nowhere.name = ""
    BY NamesAssumption DEF Nowhere, Address
  <2> QED
    BY <2>1
<1>3. parts = first \o <<at.type>> \o <<at.name>>
  <2>1. Between(at.type) = <<at.type>> /\ Between(at.name) = <<at.name>>
    BY SegmentsAssumption DEF Between
  <2> QED
    BY <2>1, Zenon DEF AddressSegments
<1>4. IsList(first)
  BY ListOne, ListEmpty
<1> HIDE DEF first
<1>5. /\ Len(parts) = Len(first) + 2
      /\ parts[Len(first) + 1] = at.type /\ parts[Len(first) + 2] = at.name
      /\ \A i \in 1..Len(first) : parts[i] = first[i]
  <2> DEFINE t == first \o <<at.type>> \o <<at.name>>
  <2>1. /\ Len(t) = Len(first) + 2
        /\ t[Len(first) + 1] = at.type /\ t[Len(first) + 2] = at.name
        /\ \A i \in 1..Len(first) : t[i] = first[i]
    BY <1>4, PairIs
  <2> HIDE DEF parts
  <2> QED
    BY <1>3, <2>1, Zenon
<1>6. Parse(at) = IF Len(parts) = 2 /\ {parts[1], parts[2]} \subseteq Identifiers
                    THEN Address(TRUE, parts[1], parts[2])
                  ELSE IF Len(parts) = 3 /\ parts[1] = "data"
                            /\ {parts[2], parts[3]} \subseteq Identifiers
                    THEN Address(FALSE, parts[2], parts[3])
                  ELSE Nowhere
  BY Zenon DEF Parse
<1> HIDE DEF parts
<1>7. CASE at.managed
  <2>1. Len(first) = 0
    BY <1>7 DEF first
  <2>2. Len(parts) = 2 /\ parts[1] = at.type /\ parts[2] = at.name
    BY <1>5, <2>1
  <2> QED
    BY <1>1, <1>2, <1>6, <1>7, <2>2
<1>8. CASE ~at.managed
  <2>1. Len(first) = 1 /\ first[1] = "data"
    BY <1>8 DEF first
  <2>2. Len(parts) = 3 /\ parts[1] = "data" /\ parts[2] = at.type /\ parts[3] = at.name
    BY <1>5, <2>1
  <2>3. Parse(at) = Address(FALSE, at.type, at.name)
    BY <1>6, <2>2
  <2>4. at.managed = FALSE
    BY <1>1, <1>8
  <2> QED
    BY <1>1, <1>2, <2>3, <2>4
<1> QED
  BY <1>7, <1>8

\* The decoder is defined for every expression, by its parts.
DecodedTo(h, v) == v = [n \in Tree[h] |-> NodeDecoded(n, v)]

LEMMA DecodedAgree ==
  ASSUME NEW n, NEW v, NEW w, \A i \in DOMAIN n.sub : v[n.sub[i]] = w[n.sub[i]]
  PROVE  NodeDecoded(n, v) = NodeDecoded(n, w)
<1>1. [i \in DOMAIN n.sub |-> v[n.sub[i]]] = [i \in DOMAIN n.sub |-> w[n.sub[i]]]
  BY Zenon
<1> QED
  BY <1>1, Zenon DEF NodeDecoded

LEMMA DecodedExists ==
  \A h \in 0..MaxDepth : \E v : DecodedTo(h, v)
<1> DEFINE Bad == {h \in 0..MaxDepth : ~\E v : DecodedTo(h, v)}
<1>1. SUFFICES ASSUME Bad # {} PROVE FALSE
  OBVIOUS
<1>2. PICK h \in Bad : \A k \in Bad : h <= k
  <2>1. Bad \in SUBSET Nat
    BY DepthAssumption
  <2> QED
    BY <1>1, <2>1, LeastNumber
<1>3. PICK v : \A n \in Tree[h] : \A i \in DOMAIN n.sub :
                 n.sub[i] \in Tree[h] /\ v[n.sub[i]] = NodeDecoded(n.sub[i], v)
  <2>1. CASE h = 0
    <3>1. \A n \in Tree[h] : DOMAIN n.sub = {}
      BY <1>2, <2>1, TreeNode, ListEmpty DEF ToSet
    <3> QED
      BY <3>1
  <2>2. CASE h # 0
    <3>1. /\ h \in 0..MaxDepth /\ h - 1 \in 0..MaxDepth /\ ~(h <= h - 1)
          /\ h - 1 # MaxDepth /\ h - 1 + 1 = h
      BY <1>2, <2>2, DepthAssumption
    <3>2. PICK v : DecodedTo(h - 1, v)
      BY <1>2, <3>1
    <3>3. ASSUME NEW n \in Tree[h], NEW i \in DOMAIN n.sub
          PROVE  n.sub[i] \in Tree[h] /\ v[n.sub[i]] = NodeDecoded(n.sub[i], v)
      <4>1. n.sub[i] \in Tree[h - 1]
        BY <2>2, <3>1, TreeNode DEF ToSet
      <4>2. n.sub[i] \in Tree[h]
        BY <3>1, <4>1, TreeGrows
      <4> QED
        BY <3>2, <4>1, <4>2, Zenon DEF DecodedTo
    <3> QED
      BY <3>3
  <2> QED
    BY <2>1, <2>2
<1> DEFINE w == [n \in Tree[h] |-> NodeDecoded(n, v)]
<1>4. ASSUME NEW n \in Tree[h]
      PROVE  NodeDecoded(n, w) = NodeDecoded(n, v)
  <2>1. \A i \in DOMAIN n.sub : w[n.sub[i]] = v[n.sub[i]]
    BY <1>3, Zenon
  <2> HIDE DEF w
  <2> QED
    BY <2>1, DecodedAgree
<1>5. DecodedTo(h, w)
  <2> HIDE DEF w
  <2>1. w = [n \in Tree[h] |-> NodeDecoded(n, v)]
    BY DEF w
  <2> QED
    BY <1>4, <2>1, Zenon DEF DecodedTo
<1> QED
  BY <1>2, <1>5

LEMMA DecodedIs ==
  \E dec : \A e \in Expr : dec[e] = Decoded(e) /\ Decoded(e) = NodeDecoded(e, dec)
<1> DEFINE v == CHOOSE w : DecodedTo(MaxDepth, w)
<1>1. DecodedTo(MaxDepth, v)
  BY DecodedExists, DepthAssumption
<1>2. ASSUME NEW n \in Expr PROVE Decoded(n) = v[n]
  BY Zenon DEF Decoded, DecodedTo, Expr
<1>3. ASSUME NEW n \in Expr PROVE v[n] = NodeDecoded(n, v)
  <2> HIDE DEF v
  <2> QED
    BY <1>1, Zenon DEF DecodedTo, Expr
<1> HIDE DEF v
<1> QED
  BY <1>2, <1>3

\* A node is decoded with its parts.
DecodedAt(n) == IF n.kind \in {"ref", "dataRef"} THEN Parse(n.at) ELSE n.at

LEMMA DecodedNode ==
  ASSUME NEW e \in Expr
  PROVE  /\ Decoded(e) = Node(e.kind, DecodedAt(e), e.names, Decoded(e).sub)
         /\ Decoded(e).sub = [i \in DOMAIN e.sub |-> Decoded(e.sub[i])]
<1>1. PICK dec : \A n \in Expr : dec[n] = Decoded(n) /\ Decoded(n) = NodeDecoded(n, dec)
  BY DecodedIs
<1>2. Fields(e) /\ IsList(e.sub) /\ ToSet(e.sub) \subseteq Expr
  BY ExprNode
<1> DEFINE below == [i \in DOMAIN e.sub |-> dec[e.sub[i]]]
<1>3. below = [i \in DOMAIN e.sub |-> Decoded(e.sub[i])]
  <2>1. \A i \in DOMAIN e.sub : dec[e.sub[i]] = Decoded(e.sub[i])
    BY <1>1, <1>2 DEF ToSet
  <2> QED
    BY <2>1, Zenon
<1>4. Decoded(e) = [e EXCEPT !.at = DecodedAt(e), !.sub = below]
  BY <1>1, Zenon DEF NodeDecoded, DecodedAt
<1> HIDE DEF below
<1>5. e = Node(e.kind, e.at, e.names, e.sub)
  BY <1>2 DEF Fields
<1>6. Decoded(e) = Node(e.kind, DecodedAt(e), e.names, below)
  BY <1>4, <1>5 DEF Node
<1>7. Decoded(e).sub = below
  BY <1>6 DEF Node
<1> QED
  BY <1>3, <1>6, <1>7

LEMMA DecodedFields ==
  ASSUME NEW e \in Expr
  PROVE  LET m == Decoded(e) IN
         /\ Fields(m) /\ IsList(m.sub) /\ Len(m.sub) = Len(e.sub)
         /\ m.kind = e.kind /\ m.at = DecodedAt(e) /\ m.names = e.names
         /\ ToSet(m.sub) = {Decoded(s) : s \in ToSet(e.sub)}
<1> DEFINE m == Decoded(e)
<1>1. Fields(e) /\ IsList(e.sub) /\ ToSet(e.sub) \subseteq Expr
  BY ExprNode
<1>2. /\ m = Node(e.kind, DecodedAt(e), e.names, m.sub)
      /\ m.sub = [i \in DOMAIN e.sub |-> Decoded(e.sub[i])]
  BY DecodedNode
<1> HIDE DEF m
<1>3. m.kind = e.kind /\ m.at = DecodedAt(e) /\ m.names = e.names
  BY <1>2 DEF Node
<1>4. Len(e.sub) \in Nat /\ DOMAIN e.sub = 1..Len(e.sub)
  BY <1>1, ListLen
<1> DEFINE sub == m.sub
<1>5. sub = [i \in 1..Len(e.sub) |-> sub[i]] /\ \A i \in 1..Len(e.sub) : sub[i] = Decoded(e.sub[i])
  BY <1>2, <1>4
<1> HIDE DEF sub
<1>6. IsList(sub) /\ Len(sub) = Len(e.sub) /\ DOMAIN sub = 1..Len(e.sub)
  BY <1>4, <1>5, ListMade
<1>7. ToSet(sub) = {Decoded(s) : s \in ToSet(e.sub)}
  BY <1>4, <1>5, <1>6 DEF ToSet
<1>8. DecodedAt(e) \in AnyAddress
  BY <1>1, ParseTyped DEF DecodedAt, Fields
<1>9. ASSUME IsMap(e)
      PROVE  Alternates(m)
  <2>1. PICK k \in 0..Len(e.sub) :
          /\ Len(e.sub) = 2 * k
          /\ \A i \in 1..k : e.sub[2 * i - 1] = String(e.sub[2 * i - 1].names)
    BY <1>1, <1>9 DEF Fields, Alternates, IsMap
  <2>2. ASSUME NEW i \in 1..k
        PROVE  sub[2 * i - 1] = String(sub[2 * i - 1].names)
    <3> DEFINE j == 2 * i - 1  key == e.sub[j]
    <3>1. j \in 1..Len(e.sub)
      BY <1>4, <2>1
    <3>2. key = String(key.names) /\ key \in Expr
      <4>1. key \in ToSet(e.sub)
        BY <1>4, <3>1 DEF ToSet
      <4> QED
        BY <1>1, <2>1, <4>1
    <3>3. sub[j] = Decoded(key)
      BY <1>5, <3>1
    <3> HIDE DEF key, j
    <3>4. key.kind = "string" /\ key.sub = <<>> /\ key.at = Nowhere
      <4>1. /\ String(key.names).kind = "string" /\ String(key.names).sub = <<>>
            /\ String(key.names).at = Nowhere
        BY DEF String, Node
      <4> QED
        BY <3>2, <4>1, Zenon
    <3>5. /\ Decoded(key) = Node("string", Nowhere, key.names, Decoded(key).sub)
          /\ Decoded(key).sub = [x \in DOMAIN key.sub |-> Decoded(key.sub[x])]
      BY <3>2, <3>4, DecodedNode DEF DecodedAt
    <3>6. Decoded(key).sub = <<>>
      BY <3>4, <3>5
    <3>7. sub[j] = String(key.names)
      BY <3>3, <3>5, <3>6, Zenon DEF String
    <3> QED
      BY <3>7, StringIs DEF j
  <2> QED
    BY <1>6, <2>1, <2>2 DEF Alternates, sub
<1>10. Fields(m)
  <2>1. m = Node(m.kind, m.at, m.names, m.sub)
    BY <1>2, <1>3
  <2> QED
    BY <1>1, <1>3, <1>8, <1>9, <2>1 DEF Fields, IsMap
<1> QED
  BY <1>3, <1>6, <1>7, <1>10 DEF m, sub

\* What is decoded nests as what was printed, and is of the same kind.
LEMMA DecodedTyped ==
  \A e \in Expr : \A h \in 0..MaxDepth : e \in Tree[h] => Decoded(e) \in Tree[h]
<1> DEFINE S == {e \in Expr : \A h \in 0..MaxDepth : e \in Tree[h] => Decoded(e) \in Tree[h]}
<1>1. ASSUME NEW e \in Expr, ToSet(e.sub) \subseteq S, NEW h \in 0..MaxDepth, e \in Tree[h]
      PROVE  Decoded(e) \in Tree[h]
  <2> DEFINE m == Decoded(e)
  <2>1. Fields(m) /\ IsList(m.sub) /\ ToSet(m.sub) = {Decoded(s) : s \in ToSet(e.sub)}
    BY DecodedFields
  <2> HIDE DEF m
  <2>2. CASE h = 0
    <3>1. ToSet(e.sub) = {}
      BY <1>1, <2>2, TreeNode, ListEmpty
    <3>2. m.sub = <<>>
      BY <2>1, <3>1, ListEmpty
    <3> QED
      BY <2>1, <2>2, <3>2, TreeNode DEF m
  <2>3. CASE h # 0
    <3>1. h - 1 \in 0..MaxDepth
      BY <2>3, DepthAssumption
    <3>2. ToSet(e.sub) \subseteq Tree[h - 1]
      BY <1>1, <2>3, TreeNode
    <3>3. ToSet(m.sub) \subseteq Tree[h - 1]
      BY <1>1, <2>1, <3>1, <3>2
    <3> QED
      BY <2>1, <2>3, <3>3, TreeNode DEF m
  <2> QED
    BY <2>2, <2>3
<1>2. Expr \subseteq S
  <2>1. \A e \in Expr : ToSet(e.sub) \subseteq S => e \in S
    BY <1>1
  <2> QED
    BY <2>1, ExprInduction
<1> QED
  BY <1>2

LEMMA DecodedInExpr ==
  \A e \in Expr : Decoded(e) \in Expr /\ Decoded(e).kind = e.kind
<1>1. MaxDepth \in 0..MaxDepth
  BY DepthAssumption
<1> QED
  BY <1>1, DecodedTyped, DecodedFields DEF Expr

\* Where every address is read as itself, so is the expression.
ReadAlike(addresses) == \A at \in addresses : Parse(at) = at

LEMMA DecodedSelf ==
  \A e \in Expr : ReadAlike(References(e)) => Decoded(e) = e
<1> DEFINE S == {e \in Expr : ReadAlike(References(e)) => Decoded(e) = e}
<1>1. ASSUME NEW e \in Expr, ToSet(e.sub) \subseteq S, ReadAlike(References(e))
      PROVE  Decoded(e) = e
  <2>1. Parts(e) = {e} \cup UNION {Parts(s) : s \in ToSet(e.sub)}
    BY PartsAre
  <2>2. \A s \in ToSet(e.sub) : References(s) \subseteq References(e)
    BY <2>1 DEF References, Parts
  <2>3. \A s \in ToSet(e.sub) : Decoded(s) = s
    BY <1>1, <2>2 DEF ReadAlike
  <2>4. e.kind \in {"ref", "dataRef"} => e.at \in References(e)
    BY <2>1 DEF References, Parts
  <2>5. DecodedAt(e) = e.at
    BY <1>1, <2>4 DEF DecodedAt, ReadAlike
  <2>6. Fields(e) /\ IsList(e.sub)
    BY ExprNode
  <2>7. [i \in DOMAIN e.sub |-> Decoded(e.sub[i])] = e.sub
    <3>1. \A i \in DOMAIN e.sub : Decoded(e.sub[i]) = e.sub[i]
      BY <2>3 DEF ToSet
    <3>2. [i \in DOMAIN e.sub |-> Decoded(e.sub[i])] = [i \in DOMAIN e.sub |-> e.sub[i]]
      BY <3>1, Zenon
    <3>3. DOMAIN e.sub = 1..Len(e.sub) /\ e.sub = [i \in 1..Len(e.sub) |-> e.sub[i]]
      BY <2>6, ListLen
    <3> QED
      BY <3>2, <3>3
  <2>8. Decoded(e) = Node(e.kind, e.at, e.names, e.sub)
    BY <2>5, <2>7, DecodedNode
  <2> QED
    BY <2>6, <2>8 DEF Fields
<1>2. Expr \subseteq S
  <2>1. \A e \in Expr : ToSet(e.sub) \subseteq S => e \in S
    BY <1>1
  <2> QED
    BY <2>1, ExprInduction
<1> QED
  BY <1>2

-----------------------------------------------------------------------------
\* The checks of the CLI, as conditions.
Identifying(names) == ToSet(names) \subseteq Identifiers

NodeFits(n) ==
  /\ n.kind \in {"ref", "dataRef"} => n.at.managed = (n.kind = "ref")
  /\ n.kind \in {"ref", "dataRef", "attribute", "function"} => Identifying(n.names)
  /\ n.kind = "secret" => n.names[1] \in EnvironmentNames

ExprFits(e, known) == /\ \A n \in Parts(e) : NodeFits(n)
                      /\ References(e) \subseteq known

LEMMA WhenList ==
  ASSUME NEW condition \in BOOLEAN, NEW problem
  PROVE  /\ IsList(When(condition, problem))
         /\ When(condition, problem) = <<>> <=> ~condition
BY ListOne, ListEmpty DEF When

\* Lists made of one list for each place of another.
LEMMA EachEmpty ==
  ASSUME NEW n \in Nat, NEW ss, ss = [i \in 1..n |-> ss[i]], \A i \in 1..n : IsList(ss[i])
  PROVE  /\ IsList(FlattenSeq(ss))
         /\ FlattenSeq(ss) = <<>> <=> \A i \in 1..n : ss[i] = <<>>
<1>1. IsList(ss) /\ Len(ss) = n /\ DOMAIN ss = 1..n
  BY ListMade
<1>2. \A s \in ToSet(ss) : IsList(s)
  BY <1>1 DEF ToSet
<1>3. (\A s \in ToSet(ss) : s = <<>>) <=> \A i \in 1..n : ss[i] = <<>>
  BY <1>1 DEF ToSet
<1> QED
  BY <1>1, <1>2, <1>3, FlatList, FlatEmpty

LEMMA PathFits ==
  ASSUME NEW names, IsList(names)
  PROVE  /\ IsList(PathProblems(names))
         /\ PathProblems(names) = <<>> <=> Identifying(names)
<1> DEFINE n == Len(names)
           ss == [i \in DOMAIN names |-> IdentifierProblems(names[i])]
<1>1. n \in Nat /\ DOMAIN names = 1..n
  BY ListLen
<1>2. \A i \in 1..n : /\ IsList(ss[i])
                      /\ ss[i] = <<>> <=> names[i] \in Identifiers
  <2>1. \A i \in 1..n : ss[i] = IdentifierProblems(names[i])
    BY <1>1
  <2>2. \A i \in 1..n : /\ IsList(IdentifierProblems(names[i]))
                        /\ IdentifierProblems(names[i]) = <<>> <=> names[i] \in Identifiers
    BY WhenList DEF IdentifierProblems
  <2> QED
    BY <2>1, <2>2
<1>3. ss = [i \in 1..n |-> ss[i]]
  BY <1>1
<1> HIDE DEF ss
<1>4. IsList(FlattenSeq(ss)) /\ (FlattenSeq(ss) = <<>> <=> \A i \in 1..n : ss[i] = <<>>)
  BY <1>1, <1>2, <1>3, EachEmpty
<1>5. Identifying(names) <=> \A i \in 1..n : names[i] \in Identifiers
  BY <1>1 DEF Identifying, ToSet
<1> QED
  BY <1>2, <1>4, <1>5 DEF PathProblems, ss

LEMMA NodeFitsIs ==
  ASSUME NEW n, Fields(n)
  PROVE  /\ IsList(NodeProblems(n))
         /\ NodeProblems(n) = <<>> <=> NodeFits(n)
<1>1. IsList(n.names)
  <2>1. n.names \in Seq(STRING)
    BY DEF Fields
  <2> QED
    BY <2>1, ListOf
<1>2. IsList(PathProblems(n.names)) /\ (PathProblems(n.names) = <<>> <=> Identifying(n.names))
  BY <1>1, PathFits
<1>3. CASE n.kind \in {"ref", "dataRef"}
  <2>1. n.at.managed \in BOOLEAN
    BY DEF Fields, AnyAddress
  <2>2. NodeProblems(n) = IF n.at.managed # (n.kind = "ref")
                            THEN <<Problem("ReferenceKind", n.at, "")>>
                            ELSE PathProblems(n.names)
    BY <1>3 DEF NodeProblems
  <2>3. NodeFits(n) <=> n.at.managed = (n.kind = "ref") /\ Identifying(n.names)
    BY <1>3 DEF NodeFits
  <2>4. /\ IsList(<<Problem("ReferenceKind", n.at, "")>>)
        /\ <<Problem("ReferenceKind", n.at, "")>> # <<>>
    BY ListOne
  <2>5. CASE n.at.managed = (n.kind = "ref")
    <3>1. NodeProblems(n) = PathProblems(n.names)
      BY <2>2, <2>5
    <3> QED
      BY <1>2, <2>3, <2>5, <3>1
  <2>6. CASE n.at.managed # (n.kind = "ref")
    <3>1. NodeProblems(n) = <<Problem("ReferenceKind", n.at, "")>>
      BY <2>2, <2>6
    <3> HIDE DEF Problem
    <3> QED
      BY <2>3, <2>4, <2>6, <3>1
  <2> QED
    BY <2>5, <2>6
<1>4. CASE n.kind \in {"attribute", "function"}
  <2>1. NodeProblems(n) = PathProblems(n.names)
    BY <1>4 DEF NodeProblems
  <2>2. NodeFits(n) <=> Identifying(n.names)
    BY <1>4 DEF NodeFits
  <2> QED
    BY <1>2, <2>1, <2>2
<1>5. CASE n.kind = "secret"
  <2>1. NodeProblems(n) = When(n.names[1] \notin EnvironmentNames,
                               Problem("InvalidSecretEnvironment", Nowhere, n.names[1]))
    BY <1>5 DEF NodeProblems
  <2>2. NodeFits(n) <=> n.names[1] \in EnvironmentNames
    BY <1>5 DEF NodeFits
  <2> QED
    BY <2>1, <2>2, WhenList
<1>6. CASE n.kind \notin {"ref", "dataRef", "attribute", "function", "secret"}
  <2>1. NodeProblems(n) = <<>> /\ NodeFits(n)
    BY <1>6 DEF NodeProblems, NodeFits
  <2> QED
    BY <2>1, ListEmpty
<1> QED
  BY <1>3, <1>4, <1>5, <1>6

LEMMA StructureFits ==
  ASSUME NEW e \in Expr
  PROVE  /\ IsList(StructureProblems(e))
         /\ StructureProblems(e) = <<>> <=> \A n \in Parts(e) : NodeFits(n)
<1> DEFINE nodes == Visited(e)
           n == Len(nodes)
           ss == [i \in DOMAIN nodes |-> NodeProblems(nodes[i])]
<1>1. IsList(nodes)
  BY PartsAre
<1>2. n \in Nat /\ DOMAIN nodes = 1..n
  BY <1>1, ListLen
<1>3. \A i \in 1..n : nodes[i] \in Parts(e) /\ Fields(nodes[i])
  BY <1>2, PartsInExpr, ExprNode DEF Parts, ToSet
<1>4. \A i \in 1..n : IsList(ss[i]) /\ (ss[i] = <<>> <=> NodeFits(nodes[i]))
  <2>1. \A i \in 1..n : ss[i] = NodeProblems(nodes[i])
    BY <1>2
  <2> HIDE DEF ss, nodes, n
  <2> QED
    BY <1>3, <2>1, NodeFitsIs
<1>5. ss = [i \in 1..n |-> ss[i]]
  BY <1>2
<1> HIDE DEF ss
<1>6. IsList(FlattenSeq(ss)) /\ (FlattenSeq(ss) = <<>> <=> \A i \in 1..n : ss[i] = <<>>)
  <2> HIDE DEF n
  <2> QED
    BY <1>2, <1>4, <1>5, EachEmpty
<1>7. (\A m \in Parts(e) : NodeFits(m)) <=> \A i \in 1..n : NodeFits(nodes[i])
  BY <1>2 DEF Parts, ToSet
<1> QED
  BY <1>4, <1>6, <1>7 DEF StructureProblems, ss

LEMMA ExprFitsIs ==
  ASSUME NEW e \in Expr, NEW known
  PROVE  /\ IsList(ExprProblems(e, known))
         /\ ExprProblems(e, known) = <<>> <=> ExprFits(e, known)
<1> DEFINE gap == References(e) \ known
           missing == SetToSeq(gap)
           rest == [i \in DOMAIN missing |-> Problem("MissingReference", missing[i], "")]
<1>1. IsFiniteSet(gap)
  <2>1. IsFiniteSet(References(e))
    <3> DEFINE few == {m \in Parts(e) : m.kind \in {"ref", "dataRef"}}
               found == {m.at : m \in few}
    <3>1. IsFiniteSet(few)
      BY PartsInExpr, FS_Subset
    <3>2. IsFiniteSet(found)
      <4> DEFINE f == [m \in few |-> m.at]
      <4>1. f \in Surjection(few, found)
        BY DEF Surjection
      <4> HIDE DEF f, few, found
      <4> QED
        BY <3>1, <4>1, FS_Surjection
    <3> QED
      BY <3>2 DEF References, Parts
  <2> HIDE DEF gap
  <2>2. gap \in SUBSET References(e)
    BY DEF gap
  <2> QED
    BY <2>1, <2>2, FS_Subset
<1>2. IsList(missing) /\ ToSet(missing) = gap
  <2> HIDE DEF gap
  <2> QED
    BY <1>1, SetList
<1> HIDE DEF missing
<1>3. Len(missing) \in Nat /\ DOMAIN missing = 1..Len(missing)
  BY <1>2, ListLen
<1>4. IsList(rest) /\ (rest = <<>> <=> gap = {})
  <2>1. rest = [i \in 1..Len(missing) |-> rest[i]]
    BY <1>3
  <2> HIDE DEF rest
  <2>2. IsList(rest) /\ Len(rest) = Len(missing) /\ DOMAIN rest = DOMAIN missing
    BY <1>3, <2>1, ListMade
  <2>3. ToSet(rest) = {} <=> ToSet(missing) = {}
    BY <2>2 DEF ToSet
  <2> QED
    BY <1>2, <2>2, <2>3, ListEmpty
<1>5. IsList(StructureProblems(e)) /\ (StructureProblems(e) = <<>> <=> \A n \in Parts(e) : NodeFits(n))
  BY StructureFits
<1>6. ExprProblems(e, known) = StructureProblems(e) \o rest
  BY Zenon DEF ExprProblems, missing
<1>7. gap = {} <=> References(e) \subseteq known
  OBVIOUS
<1> HIDE DEF rest, gap
<1> QED
  BY <1>4, <1>5, <1>6, <1>7, ListConcat DEF ExprFits

\* As EachEmpty, along a list.
LEMMA EachPlace ==
  ASSUME NEW list, IsList(list), NEW ss, ss = [i \in DOMAIN list |-> ss[i]],
         \A i \in 1..Len(list) : IsList(ss[i])
  PROVE  /\ IsList(FlattenSeq(ss))
         /\ FlattenSeq(ss) = <<>> <=> \A i \in 1..Len(list) : ss[i] = <<>>
<1>1. Len(list) \in Nat /\ DOMAIN list = 1..Len(list)
  BY ListLen
<1>2. ss = [i \in 1..Len(list) |-> ss[i]]
  BY <1>1
<1> QED
  BY <1>1, <1>2, EachEmpty

LEMMA ValuesAre ==
  ASSUME NEW arguments \in Objects
  PROVE  /\ IsMap(arguments) /\ IsList(Values(arguments))
         /\ Len(Values(arguments)) = Len(Keys(arguments))
         /\ \A i \in 1..Len(Keys(arguments)) :
              /\ Values(arguments)[i] = Value(arguments, i)
              /\ Value(arguments, i) \in Expr /\ Value(arguments, i) \in ToSet(arguments.sub)
<1>1. arguments \in Expr /\ IsMap(arguments)
  BY DEF Objects, IsMap
<1>2. Fields(arguments) /\ IsList(arguments.sub) /\ ToSet(arguments.sub) \subseteq Expr
  BY <1>1, ExprNode
<1> DEFINE k == Len(Keys(arguments))
<1>3. /\ k \in Nat /\ Len(arguments.sub) = 2 * k
      /\ \A i \in 1..k : 2 * i \in DOMAIN arguments.sub
  BY <1>1, <1>2, MapNode
<1> HIDE DEF k
<1>4. Len(arguments.sub) \div 2 = k
  BY <1>3
<1>5. Values(arguments) = [i \in 1..k |-> Value(arguments, i)]
  BY <1>4, Zenon DEF Values
<1>6. IsList(Values(arguments)) /\ Len(Values(arguments)) = k
  <2> DEFINE s == Values(arguments)
  <2>1. s = [i \in 1..k |-> s[i]]
    BY <1>5
  <2> HIDE DEF s
  <2>2. IsList(s) /\ Len(s) = k
    BY <1>3, <2>1, ListMade
  <2> QED
    BY <2>2 DEF s
<1>7. \A i \in 1..k : Values(arguments)[i] = Value(arguments, i)
  BY <1>5, Zenon
<1>8. \A i \in 1..k : Value(arguments, i) \in ToSet(arguments.sub)
  BY <1>3 DEF Value, ToSet
<1> QED
  BY <1>1, <1>2, <1>6, <1>7, <1>8 DEF k

ArgumentsFit(arguments, known) == \A value \in ToSet(Values(arguments)) : ExprFits(value, known)

LEMMA ArgumentsFitIs ==
  ASSUME NEW arguments \in Objects, NEW known
  PROVE  /\ IsList(ArgumentProblems(arguments, known))
         /\ ArgumentProblems(arguments, known) = <<>> <=> ArgumentsFit(arguments, known)
<1> DEFINE list == Values(arguments)
           ss == [i \in DOMAIN list |-> ExprProblems(Value(arguments, i), known)]
<1>1. /\ IsList(list)
      /\ \A i \in 1..Len(list) : list[i] = Value(arguments, i) /\ Value(arguments, i) \in Expr
  BY ValuesAre
<1>2. DOMAIN list = 1..Len(list)
  BY <1>1, ListLen
<1>3. \A i \in 1..Len(list) : ss[i] = ExprProblems(list[i], known)
  BY <1>1, <1>2, Zenon
<1>4. ArgumentProblems(arguments, known) = FlattenSeq(ss)
  BY Zenon DEF ArgumentProblems
<1>5. ss = [i \in DOMAIN list |-> ss[i]]
  OBVIOUS
<1> HIDE DEF ss, list
<1>6. \A i \in 1..Len(list) : IsList(ss[i]) /\ (ss[i] = <<>> <=> ExprFits(list[i], known))
  BY <1>1, <1>3, ExprFitsIs
<1>7. IsList(FlattenSeq(ss)) /\ (FlattenSeq(ss) = <<>> <=> \A i \in 1..Len(list) : ss[i] = <<>>)
  BY <1>1, <1>5, <1>6, EachPlace
<1>8. ArgumentsFit(arguments, known) <=> \A i \in 1..Len(list) : ExprFits(list[i], known)
  BY <1>2 DEF ArgumentsFit, ToSet, list
<1> QED
  BY <1>4, <1>6, <1>7, <1>8

OwnerFits(block, known) ==
  /\ ArgumentsFit(block.arguments, known)
  /\ \A target \in ToSet(block.dependsOn) : target # block.at /\ target \in known

LEMMA OwnerFitsIs ==
  ASSUME NEW block \in AnyBlock, NEW known
  PROVE  /\ IsList(OwnerProblems(block, known))
         /\ OwnerProblems(block, known) = <<>> <=> OwnerFits(block, known)
<1> DEFINE list == block.dependsOn
           problem(target) ==
             IF target = block.at THEN <<Problem("SelfDependency", target, "")>>
             ELSE When(target \notin known, Problem("MissingReference", target, ""))
           ss == [i \in DOMAIN list |-> problem(list[i])]
<1>1. block.arguments \in Objects /\ IsList(list)
  BY ListOf DEF AnyBlock
<1>2. DOMAIN list = 1..Len(list)
  BY <1>1, ListLen
<1>3. OwnerProblems(block, known) = ArgumentProblems(block.arguments, known) \o FlattenSeq(ss)
  BY Zenon DEF OwnerProblems
<1>4. ASSUME NEW target
      PROVE  /\ IsList(problem(target))
             /\ problem(target) = <<>> <=> target # block.at /\ target \in known
  <2>1. CASE target = block.at
    <3>1. problem(target) = <<Problem("SelfDependency", target, "")>>
      BY <2>1
    <3> QED
      BY <2>1, <3>1, ListOne
  <2>2. CASE target # block.at
    <3>1. problem(target) = When(target \notin known, Problem("MissingReference", target, ""))
      BY <2>2
    <3> HIDE DEF problem
    <3> QED
      BY <2>2, <3>1, WhenList
  <2> QED
    BY <2>1, <2>2
<1> HIDE DEF problem
<1>5. ss = [i \in DOMAIN list |-> ss[i]] /\ \A i \in 1..Len(list) : ss[i] = problem(list[i])
  BY <1>2
<1> HIDE DEF ss
<1>6. \A i \in 1..Len(list) : /\ IsList(ss[i])
                              /\ ss[i] = <<>> <=> list[i] # block.at /\ list[i] \in known
  BY <1>4, <1>5
<1>7. IsList(FlattenSeq(ss)) /\ (FlattenSeq(ss) = <<>> <=> \A i \in 1..Len(list) : ss[i] = <<>>)
  BY <1>1, <1>5, <1>6, EachPlace
<1>8. (\A target \in ToSet(list) : target # block.at /\ target \in known)
        <=> \A i \in 1..Len(list) : list[i] # block.at /\ list[i] \in known
  BY <1>2 DEF ToSet
<1>9. IsList(ArgumentProblems(block.arguments, known))
      /\ (ArgumentProblems(block.arguments, known) = <<>> <=> ArgumentsFit(block.arguments, known))
  BY <1>1, ArgumentsFitIs
<1> QED
  BY <1>3, <1>6, <1>7, <1>8, <1>9, ListConcat DEF OwnerFits

SelectedFits(block, configs) ==
  \/ block.provider = <<>>
  \/ /\ Len(block.provider) <= 2 /\ Identifying(block.provider)
     /\ \E setup \in ToSet(configs) : ConfigAddress(setup) = block.provider

LEMMA SelectedFitsIs ==
  ASSUME NEW block \in AnyBlock, NEW configs
  PROVE  /\ IsList(SelectedProviderProblems(block, configs))
         /\ SelectedProviderProblems(block, configs) = <<>> <=> SelectedFits(block, configs)
<1> DEFINE unknown == \A setup \in ToSet(configs) : ConfigAddress(setup) # block.provider
           invalid == Problem("InvalidIdentifier", block.at, "provider")
           missing == Problem("MissingProviderConfig", block.at, "")
<1>1. Len(block.provider) \in Nat
  BY ListOf, ListLen DEF AnyBlock
<1>2. CASE block.provider = <<>>
  <2>1. SelectedProviderProblems(block, configs) = <<>>
    BY <1>2, Zenon DEF SelectedProviderProblems
  <2> QED
    BY <1>2, <2>1, ListEmpty DEF SelectedFits
<1>3. CASE block.provider # <<>> /\ ~(Len(block.provider) <= 2 /\ Identifying(block.provider))
  <2>1. Len(block.provider) > 2 \/ ~(ToSet(block.provider) \subseteq Identifiers)
    BY <1>1, <1>3 DEF Identifying
  <2>2. SelectedProviderProblems(block, configs) = <<invalid>>
    BY <1>3, <2>1, Zenon DEF SelectedProviderProblems
  <2> HIDE DEF invalid
  <2>3. IsList(<<invalid>>) /\ <<invalid>> # <<>>
    BY ListOne
  <2> QED
    BY <1>3, <2>2, <2>3, Zenon DEF SelectedFits
<1>4. CASE block.provider # <<>> /\ Len(block.provider) <= 2 /\ Identifying(block.provider)
  <2>1. ~(Len(block.provider) > 2 \/ ~(ToSet(block.provider) \subseteq Identifiers))
    BY <1>1, <1>4 DEF Identifying
  <2>2. SelectedProviderProblems(block, configs) = When(unknown, missing)
    BY <1>4, <2>1, Zenon DEF SelectedProviderProblems
  <2>3. SelectedFits(block, configs) <=> ~unknown
    BY <1>4, Zenon DEF SelectedFits
  <2>4. unknown \in BOOLEAN
    OBVIOUS
  <2> HIDE DEF unknown, missing
  <2> QED
    BY <2>2, <2>3, <2>4, WhenList
<1> QED
  BY <1>2, <1>3, <1>4

TriggersFit(block, known) == \A target \in ToSet(block.triggers) : target.managed /\ target \in known

LEMMA TriggersFitIs ==
  ASSUME NEW block \in AnyBlock, NEW known
  PROVE  /\ IsList(TriggerProblems(block, known))
         /\ TriggerProblems(block, known) = <<>> <=> TriggersFit(block, known)
<1> DEFINE list == block.triggers
           problem(target) ==
             IF ~target.managed THEN <<Problem("InvalidReplaceTriggeredBy", target, "")>>
             ELSE When(target \notin known, Problem("MissingReference", target, ""))
           ss == [i \in DOMAIN list |-> problem(list[i])]
<1>1. IsList(list)
  BY ListOf DEF AnyBlock
<1>2. DOMAIN list = 1..Len(list)
  BY <1>1, ListLen
<1>3. TriggerProblems(block, known) = FlattenSeq(ss)
  BY Zenon DEF TriggerProblems
<1>4. ASSUME NEW target
      PROVE  /\ IsList(problem(target))
             /\ problem(target) = <<>> <=> target.managed /\ target \in known
  <2>1. CASE ~target.managed
    <3>1. problem(target) = <<Problem("InvalidReplaceTriggeredBy", target, "")>>
      BY <2>1
    <3> QED
      BY <2>1, <3>1, ListOne
  <2>2. CASE target.managed
    <3>1. problem(target) = When(target \notin known, Problem("MissingReference", target, ""))
      BY <2>2
    <3> HIDE DEF problem
    <3> QED
      BY <2>2, <3>1, WhenList
  <2> QED
    BY <2>1, <2>2
<1> HIDE DEF problem
<1>5. ss = [i \in DOMAIN list |-> ss[i]] /\ \A i \in 1..Len(list) : ss[i] = problem(list[i])
  BY <1>2
<1> HIDE DEF ss
<1>6. \A i \in 1..Len(list) : /\ IsList(ss[i])
                              /\ ss[i] = <<>> <=> list[i].managed /\ list[i] \in known
  BY <1>4, <1>5
<1>7. IsList(FlattenSeq(ss)) /\ (FlattenSeq(ss) = <<>> <=> \A i \in 1..Len(list) : ss[i] = <<>>)
  BY <1>1, <1>5, <1>6, EachPlace
<1>8. TriggersFit(block, known) <=> \A i \in 1..Len(list) : list[i].managed /\ list[i] \in known
  BY <1>2 DEF TriggersFit, ToSet
<1> QED
  BY <1>3, <1>6, <1>7, <1>8

BlockFits(block, known, configs) ==
  OwnerFits(block, known) /\ SelectedFits(block, configs) /\ TriggersFit(block, known)

LEMMA BlockFitsIs ==
  ASSUME NEW block \in AnyBlock, NEW known, NEW configs
  PROVE  LET problems == OwnerProblems(block, known) \o SelectedProviderProblems(block, configs)
                           \o TriggerProblems(block, known)
         IN IsList(problems) /\ (problems = <<>> <=> BlockFits(block, known, configs))
<1> DEFINE a == OwnerProblems(block, known)
           b == SelectedProviderProblems(block, configs)
           c == TriggerProblems(block, known)
<1>1. /\ IsList(a) /\ (a = <<>> <=> OwnerFits(block, known))
      /\ IsList(b) /\ (b = <<>> <=> SelectedFits(block, configs))
      /\ IsList(c) /\ (c = <<>> <=> TriggersFit(block, known))
  BY OwnerFitsIs, SelectedFitsIs, TriggersFitIs
<1> HIDE DEF a, b, c
<1>2. IsList(a \o b) /\ (a \o b = <<>> <=> a = <<>> /\ b = <<>>)
  BY <1>1, ListConcat
<1>3. IsList((a \o b) \o c) /\ ((a \o b) \o c = <<>> <=> a \o b = <<>> /\ c = <<>>)
  BY <1>1, <1>2, ListConcat
<1> QED
  BY <1>1, <1>2, <1>3 DEF BlockFits, a, b, c

\* No place holds what an earlier one holds.
Apart(list) == \A i \in 1..Len(list) : \A j \in 1..(i - 1) : list[j] # list[i]

LEMMA ApartIsDistinct ==
  ASSUME NEW list, IsList(list)
  PROVE  Apart(list) <=> Distinct(list)
<1>1. Len(list) \in Nat
  BY ListLen
<1>2. Apart(list) <=> \A i, j \in 1..Len(list) : list[i] = list[j] => i = j
  <2>1. ASSUME Apart(list), NEW i \in 1..Len(list), NEW j \in 1..Len(list), list[i] = list[j]
        PROVE  i = j
    <3>1. i < j => i \in 1..(j - 1)
      BY <1>1
    <3>2. j < i => j \in 1..(i - 1)
      BY <1>1
    <3>3. ~(i < j) /\ ~(j < i)
      BY <2>1, <3>1, <3>2 DEF Apart
    <3> QED
      BY <1>1, <3>3
  <2>2. ASSUME \A i, j \in 1..Len(list) : list[i] = list[j] => i = j
        PROVE  Apart(list)
    <3>1. SUFFICES ASSUME NEW i \in 1..Len(list), NEW j \in 1..(i - 1)
                   PROVE  list[j] # list[i]
      BY DEF Apart
    <3>2. j \in 1..Len(list) /\ j # i
      BY <1>1
    <3> QED
      BY <2>2, <3>2
  <2> QED
    BY <2>1, <2>2
<1> QED
  BY <1>2, DistinctApart

\* A document whose version is any string.
AnyDocument == Documents(STRING \cup {"1"})

LEMMA DocumentTyped ==
  ASSUME NEW doc \in AnyDocument
  PROVE  /\ doc.required \in Seq(STRING) /\ doc.configs \in Seq(AnyConfig)
         /\ doc.resources \in Seq(AnyBlock) /\ doc.dataSources \in Seq(AnyBlock)
         /\ doc.outputs \in Seq(AnyOutput) /\ doc.moves \in Seq(AnyMove)
         /\ doc.imports \in Seq(AnyImport) /\ doc.stacks \in Seq(STRING)
         /\ Blocks(doc) \in Seq(AnyBlock)
<1>1. /\ doc.required \in Seq(STRING) /\ doc.configs \in Seq(AnyConfig)
      /\ doc.resources \in Seq(AnyBlock) /\ doc.dataSources \in Seq(AnyBlock)
      /\ doc.outputs \in Seq(AnyOutput) /\ doc.moves \in Seq(AnyMove)
      /\ doc.imports \in Seq(AnyImport) /\ doc.stacks \in Seq(STRING)
  BY DEF AnyDocument, Documents
<1> QED
  BY <1>1, ConcatProperties DEF Blocks

ConfigAddresses(doc) == [i \in DOMAIN doc.configs |-> ConfigAddress(doc.configs[i])]

ConfigsFit(doc) ==
  /\ \A setup \in ToSet(doc.configs) : Identifying(ConfigAddress(setup))
  /\ Apart(ConfigAddresses(doc))

LEMMA ConfigAddressList ==
  ASSUME NEW setup \in AnyConfig
  PROVE  ConfigAddress(setup) \in Seq(STRING) /\ IsList(ConfigAddress(setup))
<1>1. <<setup.provider>> \in Seq(STRING) /\ setup.alias \in Seq(STRING)
  BY DEF AnyConfig
<1>2. ConfigAddress(setup) \in Seq(STRING)
  BY <1>1, ConcatProperties DEF ConfigAddress
<1> QED
  BY <1>2, ListOf

LEMMA ConfigsFitIs ==
  ASSUME NEW doc \in AnyDocument
  PROVE  /\ IsList(ConfigProblems(doc))
         /\ ConfigProblems(doc) = <<>> <=> ConfigsFit(doc)
<1> DEFINE list == doc.configs
           at(i) == ConfigAddress(list[i])
           again(i) == \E j \in 1..(i - 1) : at(j) = at(i)
           second(i) == Problem("DuplicateProviderConfig", Nowhere, list[i].provider)
           ss == [i \in DOMAIN list |-> PathProblems(at(i)) \o When(again(i), second(i))]
<1>1. IsList(list) /\ \A i \in 1..Len(list) : list[i] \in AnyConfig
  BY DocumentTyped, ListOf, ElementOfSeq
<1>2. Len(list) \in Nat /\ DOMAIN list = 1..Len(list)
  BY <1>1, ListLen
<1>3. ConfigProblems(doc) = FlattenSeq(ss)
  BY Zenon DEF ConfigProblems
<1>4. ss = [i \in DOMAIN list |-> ss[i]]
  OBVIOUS
<1>5. ASSUME NEW i \in 1..Len(list)
      PROVE  /\ IsList(ss[i])
             /\ ss[i] = <<>> <=> Identifying(at(i)) /\ ~again(i)
  <2> DEFINE a == PathProblems(at(i))  b == When(again(i), second(i))
  <2>1. ss[i] = a \o b
    BY <1>2, Zenon
  <2>2. IsList(a) /\ (a = <<>> <=> Identifying(at(i)))
    BY <1>1, ConfigAddressList, PathFits
  <2>3. again(i) \in BOOLEAN
    OBVIOUS
  <2>4. IsList(b) /\ (b = <<>> <=> ~again(i))
    <3> HIDE DEF again, second
    <3> QED
      BY <2>3, WhenList
  <2> HIDE DEF a, b, ss, again, at
  <2> QED
    BY <2>1, <2>2, <2>4, ListConcat
<1> HIDE DEF ss
<1>6. IsList(FlattenSeq(ss)) /\ (FlattenSeq(ss) = <<>> <=> \A i \in 1..Len(list) : ss[i] = <<>>)
  BY <1>1, <1>4, <1>5, EachPlace
<1>7. Apart(ConfigAddresses(doc)) <=> \A i \in 1..Len(list) : ~again(i)
  <2> DEFINE all == ConfigAddresses(doc)
  <2>1. all = [i \in 1..Len(list) |-> all[i]] /\ \A i \in 1..Len(list) : all[i] = at(i)
    BY <1>2 DEF ConfigAddresses
  <2> HIDE DEF all
  <2>2. Len(all) = Len(list)
    BY <1>2, <2>1, ListMade
  <2>3. \A i \in 1..Len(list) : \A j \in 1..(i - 1) : j \in 1..Len(list)
    BY <1>2
  <2> HIDE DEF at
  <2> QED
    BY <2>1, <2>2, <2>3, Zenon DEF Apart, all
<1>8. (\A setup \in ToSet(list) : Identifying(ConfigAddress(setup)))
        <=> \A i \in 1..Len(list) : Identifying(at(i))
  BY <1>2 DEF ToSet
<1> HIDE DEF at, again
<1> QED
  BY <1>3, <1>5, <1>6, <1>7, <1>8 DEF ConfigsFit

DeclarationsFit(doc) ==
  /\ \A at \in ToSet(Addresses(doc)) : {at.type, at.name} \subseteq Identifiers
  /\ Apart(Addresses(doc))

\* The addresses of a document are those of its blocks and of its stacks.
LEMMA AddressesAre ==
  ASSUME NEW doc \in AnyDocument
  PROVE  /\ IsList(Addresses(doc))
         /\ ToSet(Addresses(doc)) = {b.at : b \in ToSet(Blocks(doc))}
                                      \cup {StackAddress(s) : s \in ToSet(doc.stacks)}
         /\ Len(Addresses(doc)) = Len(Blocks(doc)) + Len(doc.stacks)
         /\ \A i \in 1..Len(Blocks(doc)) : Addresses(doc)[i] = Blocks(doc)[i].at
<1> DEFINE blocks == Blocks(doc)
           a == [i \in DOMAIN blocks |-> blocks[i].at]
           b == [i \in DOMAIN doc.stacks |-> StackAddress(doc.stacks[i])]
<1> HIDE DEF blocks
<1>1. IsList(blocks) /\ IsList(doc.stacks)
  BY DocumentTyped, ListOf DEF blocks
<1>2. /\ Len(blocks) \in Nat /\ DOMAIN blocks = 1..Len(blocks)
      /\ Len(doc.stacks) \in Nat /\ DOMAIN doc.stacks = 1..Len(doc.stacks)
  BY <1>1, ListLen
<1>3. a = [i \in 1..Len(blocks) |-> a[i]] /\ b = [i \in 1..Len(doc.stacks) |-> b[i]]
  BY <1>2
<1>4. /\ ToSet(a) = {x.at : x \in ToSet(blocks)}
      /\ ToSet(b) = {StackAddress(s) : s \in ToSet(doc.stacks)}
      /\ \A i \in 1..Len(blocks) : a[i] = blocks[i].at
  BY <1>2 DEF ToSet
<1>5. Addresses(doc) = a \o b
  BY Zenon DEF Addresses, blocks
<1> HIDE DEF a, b
<1>6. IsList(a) /\ Len(a) = Len(blocks) /\ IsList(b) /\ Len(b) = Len(doc.stacks)
  BY <1>2, <1>3, ListMade
<1>7. /\ IsList(a \o b) /\ ToSet(a \o b) = ToSet(a) \cup ToSet(b)
      /\ Len(a \o b) = Len(a) + Len(b)
      /\ \A i \in 1..Len(a) : (a \o b)[i] = a[i]
  BY <1>6, ListConcat
<1> QED
  BY <1>4, <1>5, <1>6, <1>7 DEF blocks

LEMMA DeclarationsFitIs ==
  ASSUME NEW doc \in AnyDocument
  PROVE  /\ IsList(DeclarationProblems(doc))
         /\ DeclarationProblems(doc) = <<>> <=> DeclarationsFit(doc)
<1> DEFINE all == Addresses(doc)
           again(i) == \E j \in 1..(i - 1) : all[j] = all[i]
           second(i) == Problem("DuplicateAddress", all[i], "")
           ss == [i \in DOMAIN all |->
                    PathProblems(<<all[i].type, all[i].name>>) \o When(again(i), second(i))]
<1>1. IsList(all)
  BY AddressesAre
<1>2. Len(all) \in Nat /\ DOMAIN all = 1..Len(all)
  BY <1>1, ListLen
<1>3. DeclarationProblems(doc) = FlattenSeq(ss)
  BY Zenon DEF DeclarationProblems
<1>4. ss = [i \in DOMAIN all |-> ss[i]]
  OBVIOUS
<1>5. ASSUME NEW x, NEW y
      PROVE  /\ IsList(PathProblems(<<x, y>>))
             /\ PathProblems(<<x, y>>) = <<>> <=> {x, y} \subseteq Identifiers
  <2>1. IsList(<<x, y>>) /\ ToSet(<<x, y>>) = {x, y}
    <3>1. <<x, y>> \in Seq({x, y}) /\ Len(<<x, y>>) = 2 /\ <<x, y>>[1] = x /\ <<x, y>>[2] = y
      OBVIOUS
    <3>2. IsList(<<x, y>>) /\ ToSet(<<x, y>>) \subseteq {x, y}
      BY <3>1, ListOf
    <3>3. x \in ToSet(<<x, y>>) /\ y \in ToSet(<<x, y>>)
      BY <3>1, <3>2, ListLen
    <3> QED
      BY <3>2, <3>3
  <2> QED
    BY <2>1, PathFits DEF Identifying
<1>6. ASSUME NEW i \in 1..Len(all)
      PROVE  /\ IsList(ss[i])
             /\ ss[i] = <<>> <=> {all[i].type, all[i].name} \subseteq Identifiers /\ ~again(i)
  <2> DEFINE a == PathProblems(<<all[i].type, all[i].name>>)  b == When(again(i), second(i))
  <2>1. ss[i] = a \o b
    BY <1>2, Zenon
  <2>2. IsList(a) /\ (a = <<>> <=> {all[i].type, all[i].name} \subseteq Identifiers)
    BY <1>5
  <2>3. again(i) \in BOOLEAN
    OBVIOUS
  <2>4. IsList(b) /\ (b = <<>> <=> ~again(i))
    <3> HIDE DEF again, second
    <3> QED
      BY <2>3, WhenList
  <2> HIDE DEF a, b, ss, again
  <2> QED
    BY <2>1, <2>2, <2>4, ListConcat
<1> HIDE DEF ss
<1>7. IsList(FlattenSeq(ss)) /\ (FlattenSeq(ss) = <<>> <=> \A i \in 1..Len(all) : ss[i] = <<>>)
  BY <1>1, <1>4, <1>6, EachPlace
<1>8. Apart(all) <=> \A i \in 1..Len(all) : ~again(i)
  BY Zenon DEF Apart
<1>9. (\A at \in ToSet(all) : {at.type, at.name} \subseteq Identifiers)
        <=> \A i \in 1..Len(all) : {all[i].type, all[i].name} \subseteq Identifiers
  BY <1>2 DEF ToSet
<1> HIDE DEF again
<1> QED
  BY <1>3, <1>6, <1>7, <1>8, <1>9, Zenon DEF DeclarationsFit

Targets(list) == [i \in DOMAIN list |-> list[i].to]

LEMMA TargetsList ==
  ASSUME NEW list, IsList(list)
  PROVE  /\ IsList(Targets(list)) /\ Len(Targets(list)) = Len(list)
         /\ \A i \in 1..Len(list) : Targets(list)[i] = list[i].to
         /\ ToSet(Targets(list)) = {x.to : x \in ToSet(list)}
<1> DEFINE all == Targets(list)
<1>1. Len(list) \in Nat /\ DOMAIN list = 1..Len(list)
  BY ListLen
<1>2. all = [i \in 1..Len(list) |-> all[i]] /\ \A i \in 1..Len(list) : all[i] = list[i].to
  BY <1>1 DEF Targets
<1> HIDE DEF all
<1>3. IsList(all) /\ Len(all) = Len(list) /\ DOMAIN all = 1..Len(list)
  BY <1>1, <1>2, ListMade
<1>4. ToSet(all) = {x.to : x \in ToSet(list)}
  BY <1>1, <1>2, <1>3 DEF ToSet
<1> QED
  BY <1>2, <1>3, <1>4 DEF all

MovesFit(doc, known) == /\ \A move \in ToSet(doc.moves) : move.to \in known
                        /\ Apart(Targets(doc.moves))

LEMMA MovesFitIs ==
  ASSUME NEW doc \in AnyDocument, NEW known
  PROVE  /\ IsList(MoveProblems(doc, known))
         /\ MoveProblems(doc, known) = <<>> <=> MovesFit(doc, known)
<1> DEFINE list == doc.moves
           to(i) == list[i].to
           again(i) == \E j \in 1..(i - 1) : to(j) = to(i)
           missing(i) == Problem("MissingMoveTarget", to(i), "")
           second(i) == Problem("DuplicateMoveTarget", to(i), "")
           problem(i) == IF to(i) \notin known THEN <<missing(i)>> ELSE When(again(i), second(i))
           ss == [i \in DOMAIN list |-> problem(i)]
<1>1. IsList(list)
  BY DocumentTyped, ListOf
<1>2. DOMAIN list = 1..Len(list)
  BY <1>1, ListLen
<1>3. MoveProblems(doc, known) = FlattenSeq(ss)
  BY Zenon DEF MoveProblems
<1>4. ASSUME NEW i
      PROVE  IsList(problem(i)) /\ (problem(i) = <<>> <=> to(i) \in known /\ ~again(i))
  <2>1. again(i) \in BOOLEAN
    OBVIOUS
  <2> HIDE DEF again, missing, second, to
  <2>2. IsList(<<missing(i)>>) /\ <<missing(i)>> # <<>>
    BY ListOne
  <2>3. IsList(When(again(i), second(i))) /\ (When(again(i), second(i)) = <<>> <=> ~again(i))
    BY <2>1, WhenList
  <2> QED
    BY <2>2, <2>3, Zenon
<1> HIDE DEF problem
<1>5. ss = [i \in DOMAIN list |-> ss[i]] /\ \A i \in 1..Len(list) : ss[i] = problem(i)
  BY <1>2
<1> HIDE DEF ss
<1>6. IsList(FlattenSeq(ss)) /\ (FlattenSeq(ss) = <<>> <=> \A i \in 1..Len(list) : ss[i] = <<>>)
  <2>1. \A i \in 1..Len(list) : IsList(ss[i])
    BY <1>4, <1>5, Zenon
  <2> QED
    BY <1>1, <1>5, <2>1, EachPlace
<1>7. Apart(Targets(list)) <=> \A i \in 1..Len(list) : ~again(i)
  <2>1. Len(Targets(list)) = Len(list) /\ \A i \in 1..Len(list) : Targets(list)[i] = to(i)
    BY <1>1, TargetsList
  <2>2. \A i \in 1..Len(list) : \A j \in 1..(i - 1) : j \in 1..Len(list)
    BY <1>1, ListLen
  <2> HIDE DEF to, list
  <2> QED
    BY <2>1, <2>2, Zenon DEF Apart
<1>8. (\A move \in ToSet(list) : move.to \in known) <=> \A i \in 1..Len(list) : to(i) \in known
  BY <1>2 DEF ToSet
<1> HIDE DEF to, again
<1> QED
  BY <1>3, <1>4, <1>5, <1>6, <1>7, <1>8 DEF MovesFit

ImportsFit(doc, known) ==
  /\ \A import \in ToSet(doc.imports) :
       import.to.managed /\ import.to \in known /\ import.id \notin RustBlank
  /\ Apart(Targets(doc.imports))

LEMMA ImportsFitIs ==
  ASSUME NEW doc \in AnyDocument, NEW known
  PROVE  /\ IsList(ImportProblems(doc, known))
         /\ ImportProblems(doc, known) = <<>> <=> ImportsFit(doc, known)
<1> DEFINE list == doc.imports
           to(i) == list[i].to
           blank(i) == list[i].id \in RustBlank
           again(i) == \E j \in 1..(i - 1) : to(j) = to(i)
           unmanaged(i) == Problem("InvalidImportTarget", to(i), "")
           missing(i) == Problem("MissingImportTarget", to(i), "")
           empty(i) == Problem("EmptyImportId", to(i), "")
           second(i) == Problem("DuplicateImportTarget", to(i), "")
           problem(i) == IF ~to(i).managed THEN <<unmanaged(i)>>
                         ELSE IF to(i) \notin known THEN <<missing(i)>>
                         ELSE IF blank(i) THEN <<empty(i)>>
                         ELSE When(again(i), second(i))
           fits(i) == to(i).managed /\ to(i) \in known /\ ~blank(i)
           ss == [i \in DOMAIN list |-> problem(i)]
<1>1. IsList(list)
  BY DocumentTyped, ListOf
<1>2. DOMAIN list = 1..Len(list)
  BY <1>1, ListLen
<1>3. ImportProblems(doc, known) = FlattenSeq(ss)
  BY Zenon DEF ImportProblems
<1>4. ASSUME NEW i
      PROVE  IsList(problem(i)) /\ (problem(i) = <<>> <=> fits(i) /\ ~again(i))
  <2>1. again(i) \in BOOLEAN
    OBVIOUS
  <2> HIDE DEF again, unmanaged, missing, empty, second, to, blank
  <2>2. /\ IsList(<<missing(i)>>) /\ <<missing(i)>> # <<>>
        /\ IsList(<<unmanaged(i)>>) /\ <<unmanaged(i)>> # <<>>
        /\ IsList(<<empty(i)>>) /\ <<empty(i)>> # <<>>
    BY ListOne
  <2>3. IsList(When(again(i), second(i))) /\ (When(again(i), second(i)) = <<>> <=> ~again(i))
    BY <2>1, WhenList
  <2> QED
    BY <2>2, <2>3, Zenon
<1> HIDE DEF problem
<1>5. ss = [i \in DOMAIN list |-> ss[i]] /\ \A i \in 1..Len(list) : ss[i] = problem(i)
  BY <1>2
<1> HIDE DEF ss
<1>6. IsList(FlattenSeq(ss)) /\ (FlattenSeq(ss) = <<>> <=> \A i \in 1..Len(list) : ss[i] = <<>>)
  <2>1. \A i \in 1..Len(list) : IsList(ss[i])
    BY <1>4, <1>5, Zenon
  <2> QED
    BY <1>1, <1>5, <2>1, EachPlace
<1>7. Apart(Targets(list)) <=> \A i \in 1..Len(list) : ~again(i)
  <2>1. Len(Targets(list)) = Len(list) /\ \A i \in 1..Len(list) : Targets(list)[i] = to(i)
    BY <1>1, TargetsList
  <2>2. \A i \in 1..Len(list) : \A j \in 1..(i - 1) : j \in 1..Len(list)
    BY <1>1, ListLen
  <2> HIDE DEF to, list
  <2> QED
    BY <2>1, <2>2, Zenon DEF Apart
<1>8. (\A import \in ToSet(list) :
         import.to.managed /\ import.to \in known /\ import.id \notin RustBlank)
        <=> \A i \in 1..Len(list) : fits(i)
  BY <1>2 DEF ToSet
<1> HIDE DEF fits, again
<1> QED
  BY <1>3, <1>4, <1>5, <1>6, <1>7, <1>8 DEF ImportsFit

-----------------------------------------------------------------------------
\* What the CLI accepts, rule by rule.
RustAccepts(doc) ==
  LET known == ToSet(Addresses(doc)) IN
  /\ doc.version = "1" /\ Identifying(doc.required)
  /\ ConfigsFit(doc) /\ DeclarationsFit(doc)
  /\ \A block \in ToSet(Blocks(doc)) : BlockFits(block, known, doc.configs)
  /\ \A output \in ToSet(doc.outputs) : ExprFits(output.value, known)
  /\ \A setup \in ToSet(doc.configs) : ArgumentsFit(setup.arguments, known)
  /\ MovesFit(doc, known) /\ ImportsFit(doc, known)
  /\ ~Cyclic(Edges(doc))

\* validate returns no problem exactly of these documents.
LEMMA ValidMeans ==
  ASSUME NEW doc \in AnyDocument
  PROVE  Valid(doc) <=> RustAccepts(doc)
<1> DEFINE known == ToSet(Addresses(doc))
           blocks == Blocks(doc)
           block(i) == OwnerProblems(blocks[i], known)
                         \o SelectedProviderProblems(blocks[i], doc.configs)
                         \o TriggerProblems(blocks[i], known)
           p1 == When(doc.version # "1", Problem("UnsupportedVersion", Nowhere, doc.version))
           p2 == PathProblems(doc.required)
           p3 == ConfigProblems(doc)
           p4 == DeclarationProblems(doc)
           s5 == [i \in DOMAIN blocks |-> block(i)]
           s6 == [i \in DOMAIN doc.outputs |-> ExprProblems(doc.outputs[i].value, known)]
           s7 == [i \in DOMAIN doc.configs |-> ArgumentProblems(doc.configs[i].arguments, known)]
           p8 == MoveProblems(doc, known)
           p9 == ImportProblems(doc, known)
           p10 == When(Cyclic(Edges(doc)), Problem("Cycle", Nowhere, ""))
<1>1. /\ IsList(doc.required) /\ IsList(doc.configs) /\ IsList(blocks) /\ IsList(doc.outputs)
      /\ doc.configs \in Seq(AnyConfig) /\ blocks \in Seq(AnyBlock)
      /\ doc.outputs \in Seq(AnyOutput)
  BY DocumentTyped, ListOf
<1>2. /\ DOMAIN doc.configs = 1..Len(doc.configs)
      /\ DOMAIN doc.outputs = 1..Len(doc.outputs)
      /\ DOMAIN blocks = 1..Len(blocks)
  BY <1>1, ListLen
<1>3. /\ \A i \in 1..Len(doc.configs) : doc.configs[i].arguments \in Objects
      /\ \A i \in 1..Len(doc.outputs) : doc.outputs[i].value \in Expr
      /\ \A i \in 1..Len(blocks) : blocks[i] \in AnyBlock
  <2>1. \A i \in 1..Len(doc.configs) : doc.configs[i] \in AnyConfig
    BY <1>1, ElementOfSeq
  <2>2. \A i \in 1..Len(doc.outputs) : doc.outputs[i] \in AnyOutput
    BY <1>1, ElementOfSeq
  <2>3. \A i \in 1..Len(blocks) : blocks[i] \in AnyBlock
    <3> HIDE DEF blocks
    <3> QED
      BY <1>1, ElementOfSeq
  <2> QED
    BY <2>1, <2>2, <2>3 DEF AnyConfig, AnyOutput
<1>4. Problems(doc) = p1 \o p2 \o p3 \o p4 \o FlattenSeq(s5) \o FlattenSeq(s6) \o FlattenSeq(s7)
                        \o p8 \o p9 \o p10
  BY Zenon DEF Problems
<1>5. /\ IsList(p1) /\ (p1 = <<>> <=> doc.version = "1")
      /\ IsList(p10) /\ (p10 = <<>> <=> ~Cyclic(Edges(doc)))
  <2>1. Cyclic(Edges(doc)) \in BOOLEAN
    BY DEF Cyclic
  <2> QED
    BY <2>1, WhenList
<1>6. /\ IsList(p2) /\ (p2 = <<>> <=> Identifying(doc.required))
      /\ IsList(p3) /\ (p3 = <<>> <=> ConfigsFit(doc))
      /\ IsList(p4) /\ (p4 = <<>> <=> DeclarationsFit(doc))
      /\ IsList(p8) /\ (p8 = <<>> <=> MovesFit(doc, known))
      /\ IsList(p9) /\ (p9 = <<>> <=> ImportsFit(doc, known))
  BY <1>1, PathFits, ConfigsFitIs, DeclarationsFitIs, MovesFitIs, ImportsFitIs
<1>7. /\ s5 = [i \in DOMAIN blocks |-> s5[i]]
      /\ s6 = [i \in DOMAIN doc.outputs |-> s6[i]]
      /\ s7 = [i \in DOMAIN doc.configs |-> s7[i]]
  OBVIOUS
<1>8. ASSUME NEW i \in 1..Len(blocks)
      PROVE  IsList(s5[i]) /\ (s5[i] = <<>> <=> BlockFits(blocks[i], known, doc.configs))
  <2>1. IsList(block(i)) /\ (block(i) = <<>> <=> BlockFits(blocks[i], known, doc.configs))
    <3> HIDE DEF blocks, known
    <3> QED
      BY <1>3, BlockFitsIs
  <2> HIDE DEF block, blocks, known
  <2> QED
    BY <1>2, <2>1
<1>9. ASSUME NEW i \in 1..Len(doc.outputs)
      PROVE  IsList(s6[i]) /\ (s6[i] = <<>> <=> ExprFits(doc.outputs[i].value, known))
  <2>1. s6[i] = ExprProblems(doc.outputs[i].value, known)
    BY <1>2
  <2> HIDE DEF s6, known
  <2> QED
    BY <1>3, <2>1, ExprFitsIs
<1>10. ASSUME NEW i \in 1..Len(doc.configs)
       PROVE  IsList(s7[i]) /\ (s7[i] = <<>> <=> ArgumentsFit(doc.configs[i].arguments, known))
  <2>1. s7[i] = ArgumentProblems(doc.configs[i].arguments, known)
    BY <1>2
  <2> HIDE DEF s7, known
  <2> QED
    BY <1>3, <2>1, ArgumentsFitIs
<1> HIDE DEF s5, s6, s7
<1>11. /\ IsList(FlattenSeq(s5))
       /\ FlattenSeq(s5) = <<>> <=> \A b \in ToSet(blocks) : BlockFits(b, known, doc.configs)
  <2>1. IsList(FlattenSeq(s5)) /\ (FlattenSeq(s5) = <<>> <=> \A i \in 1..Len(blocks) : s5[i] = <<>>)
    <3> HIDE DEF blocks
    <3> QED
      BY <1>1, <1>7, <1>8, EachPlace
  <2>2. (\A b \in ToSet(blocks) : BlockFits(b, known, doc.configs))
          <=> \A i \in 1..Len(blocks) : BlockFits(blocks[i], known, doc.configs)
    <3> HIDE DEF blocks, known
    <3> QED
      BY <1>2 DEF ToSet
  <2> QED
    BY <1>8, <2>1, <2>2
<1>12. /\ IsList(FlattenSeq(s6))
       /\ FlattenSeq(s6) = <<>> <=> \A o \in ToSet(doc.outputs) : ExprFits(o.value, known)
  <2>1. IsList(FlattenSeq(s6))
        /\ (FlattenSeq(s6) = <<>> <=> \A i \in 1..Len(doc.outputs) : s6[i] = <<>>)
    BY <1>1, <1>7, <1>9, EachPlace
  <2>2. (\A o \in ToSet(doc.outputs) : ExprFits(o.value, known))
          <=> \A i \in 1..Len(doc.outputs) : ExprFits(doc.outputs[i].value, known)
    BY <1>2 DEF ToSet
  <2> QED
    BY <1>9, <2>1, <2>2
<1>13. /\ IsList(FlattenSeq(s7))
       /\ FlattenSeq(s7) = <<>> <=> \A c \in ToSet(doc.configs) : ArgumentsFit(c.arguments, known)
  <2>1. IsList(FlattenSeq(s7))
        /\ (FlattenSeq(s7) = <<>> <=> \A i \in 1..Len(doc.configs) : s7[i] = <<>>)
    BY <1>1, <1>7, <1>10, EachPlace
  <2>2. (\A c \in ToSet(doc.configs) : ArgumentsFit(c.arguments, known))
          <=> \A i \in 1..Len(doc.configs) : ArgumentsFit(doc.configs[i].arguments, known)
    BY <1>2 DEF ToSet
  <2> QED
    BY <1>10, <2>1, <2>2
<1> DEFINE p5 == FlattenSeq(s5)  p6 == FlattenSeq(s6)  p7 == FlattenSeq(s7)
<1>14. /\ IsList(p1) /\ IsList(p2) /\ IsList(p3) /\ IsList(p4) /\ IsList(p5)
       /\ IsList(p6) /\ IsList(p7) /\ IsList(p8) /\ IsList(p9) /\ IsList(p10)
  BY <1>5, <1>6, <1>11, <1>12, <1>13
<1>15. Problems(doc) = p1 \o p2 \o p3 \o p4 \o p5 \o p6 \o p7 \o p8 \o p9 \o p10
  BY <1>4 DEF s5, s6, s7
<1>16. Problems(doc) = <<>> <=>
         /\ p1 = <<>> /\ p2 = <<>> /\ p3 = <<>> /\ p4 = <<>> /\ p5 = <<>>
         /\ p6 = <<>> /\ p7 = <<>> /\ p8 = <<>> /\ p9 = <<>> /\ p10 = <<>>
  <2> HIDE DEF p1, p2, p3, p4, p5, p6, p7, p8, p9, p10
  <2> DEFINE q2 == p1 \o p2
             q3 == q2 \o p3
             q4 == q3 \o p4
             q5 == q4 \o p5
             q6 == q5 \o p6
             q7 == q6 \o p7
             q8 == q7 \o p8
             q9 == q8 \o p9
             q10 == q9 \o p10
  <2>1. IsList(q2) /\ (q2 = <<>> <=> p1 = <<>> /\ p2 = <<>>)
    BY <1>14, ListConcat
  <2> HIDE DEF q2
  <2>2. IsList(q3) /\ (q3 = <<>> <=> q2 = <<>> /\ p3 = <<>>)
    BY <1>14, <2>1, ListConcat
  <2> HIDE DEF q3
  <2>3. IsList(q4) /\ (q4 = <<>> <=> q3 = <<>> /\ p4 = <<>>)
    BY <1>14, <2>2, ListConcat
  <2> HIDE DEF q4
  <2>4. IsList(q5) /\ (q5 = <<>> <=> q4 = <<>> /\ p5 = <<>>)
    BY <1>14, <2>3, ListConcat
  <2> HIDE DEF q5
  <2>5. IsList(q6) /\ (q6 = <<>> <=> q5 = <<>> /\ p6 = <<>>)
    BY <1>14, <2>4, ListConcat
  <2> HIDE DEF q6
  <2>6. IsList(q7) /\ (q7 = <<>> <=> q6 = <<>> /\ p7 = <<>>)
    BY <1>14, <2>5, ListConcat
  <2> HIDE DEF q7
  <2>7. IsList(q8) /\ (q8 = <<>> <=> q7 = <<>> /\ p8 = <<>>)
    BY <1>14, <2>6, ListConcat
  <2> HIDE DEF q8
  <2>8. IsList(q9) /\ (q9 = <<>> <=> q8 = <<>> /\ p9 = <<>>)
    BY <1>14, <2>7, ListConcat
  <2> HIDE DEF q9
  <2>9. q10 = <<>> <=> q9 = <<>> /\ p10 = <<>>
    BY <1>14, <2>8, ListConcat
  <2>10. Problems(doc) = q10
    BY <1>15 DEF q2, q3, q4, q5, q6, q7, q8, q9
  <2> QED
    BY <2>1, <2>2, <2>3, <2>4, <2>5, <2>6, <2>7, <2>8, <2>9, <2>10
<1> HIDE DEF p1, p2, p3, p4, p5, p6, p7, p8, p9, p10
<1> QED
  BY <1>5, <1>6, <1>11, <1>12, <1>13, <1>16 DEF Valid, RustAccepts, p5, p6, p7

-----------------------------------------------------------------------------
\* The checks of an expression, node by node.
NodeFitsIn(n, known) == NodeFits(n) /\ (n.kind \in {"ref", "dataRef"} => n.at \in known)

LEMMA ExprFitsNodes ==
  ASSUME NEW e, NEW known
  PROVE  ExprFits(e, known) <=> \A n \in Parts(e) : NodeFitsIn(n, known)
BY DEF ExprFits, References, Parts, NodeFitsIn

LEMMA LeanExprMeans ==
  ASSUME NEW e \in Expr, NEW known
  PROVE  LeanAcceptsExpr(e, known) <=> ExprFits(e, known) /\ KeysDistinct(e)
<1>1. ASSUME NEW n \in Parts(e)
      PROVE  LeanAcceptsNode(n) <=> NodeFits(n) /\ (IsMap(n) => Distinct(Keys(n)))
  <2>1. n.at.managed \in BOOLEAN
    BY PartsInExpr, ExprNode DEF Fields, AnyAddress
  <2>2. (n.kind = "ref" => n.at.managed) /\ (n.kind = "dataRef" => ~n.at.managed)
          <=> (n.kind \in {"ref", "dataRef"} => n.at.managed = (n.kind = "ref"))
    BY <2>1
  <2> QED
    BY <2>2, Zenon DEF LeanAcceptsNode, NodeFits, IsMap, Identifying
<1> QED
  BY <1>1, Zenon DEF LeanAcceptsExpr, ExprFits, KeysDistinct, Parts

\* The nodes of arguments: the object, its keys and the nodes of its values.
LEMMA ArgumentParts ==
  ASSUME NEW arguments \in Objects
  PROVE  /\ arguments \in Parts(arguments)
         /\ \A value \in ToSet(Values(arguments)) : Parts(value) \subseteq Parts(arguments)
         /\ \A n \in Parts(arguments) :
              \/ n = arguments \/ \E key : n = String(key)
              \/ \E value \in ToSet(Values(arguments)) : n \in Parts(value)
<1>1. arguments \in Expr /\ IsMap(arguments)
  BY ValuesAre DEF Objects
<1>2. Fields(arguments) /\ IsList(arguments.sub) /\ ToSet(arguments.sub) \subseteq Expr
  BY <1>1, ExprNode
<1>3. Parts(arguments) = {arguments} \cup UNION {Parts(s) : s \in ToSet(arguments.sub)}
  BY <1>1, PartsAre
<1>4. /\ IsList(Values(arguments)) /\ Len(Values(arguments)) = Len(Keys(arguments))
      /\ \A i \in 1..Len(Keys(arguments)) :
           /\ Values(arguments)[i] = Value(arguments, i)
           /\ Value(arguments, i) \in ToSet(arguments.sub)
  BY ValuesAre
<1>5. /\ \A value \in ToSet(Values(arguments)) : value \in ToSet(arguments.sub)
      /\ \A i \in 1..Len(Keys(arguments)) : Value(arguments, i) \in ToSet(Values(arguments))
  <2>1. \A v \in ToSet(Values(arguments)) :
          \E i \in 1..Len(Values(arguments)) : v = Values(arguments)[i]
    BY <1>4, ListLen
  <2>2. \A i \in 1..Len(Values(arguments)) : Values(arguments)[i] \in ToSet(Values(arguments))
    BY <1>4, ListLen
  <2>3. \A value \in ToSet(Values(arguments)) : value \in ToSet(arguments.sub)
    BY <1>4, <2>1
  <2>4. \A i \in 1..Len(Keys(arguments)) : Value(arguments, i) \in ToSet(Values(arguments))
    BY <1>4, <2>2
  <2> QED
    BY <2>3, <2>4
<1>6. ASSUME NEW s \in ToSet(arguments.sub), NEW n \in Parts(s)
      PROVE  \/ \E key : n = String(key)
             \/ \E value \in ToSet(Values(arguments)) : n \in Parts(value)
  <2>1. PICK i \in 1..Len(Keys(arguments)) :
          s = String(Keys(arguments)[i]) \/ s = Value(arguments, i)
    BY <1>1, <1>2, Places
  <2>2. CASE s = String(Keys(arguments)[i])
    <3>1. s \in Expr /\ s.sub = <<>>
      BY <1>2, <2>2, StringIs
    <3>2. Parts(s) = {s} \cup UNION {Parts(x) : x \in ToSet(s.sub)}
      BY <3>1, PartsAre
    <3>3. ToSet(s.sub) = {}
      BY <3>1, ListEmpty
    <3>4. n = s
      BY <1>6, <3>2, <3>3
    <3> QED
      BY <2>2, <3>4
  <2>3. CASE s = Value(arguments, i)
    BY <1>5, <1>6, <2>3
  <2> QED
    BY <2>1, <2>2, <2>3
<1> QED
  BY <1>3, <1>5, <1>6

\* Arguments fit as the expression they are.
LEMMA ArgumentsAsExpr ==
  ASSUME NEW arguments \in Objects, NEW known
  PROVE  /\ ArgumentsFit(arguments, known) <=> ExprFits(arguments, known)
         /\ LeanAcceptsArguments(arguments, known)
              <=> ExprFits(arguments, known) /\ KeysDistinct(arguments)
<1>1. arguments.kind = "object" /\ IsMap(arguments)
  BY ValuesAre DEF Objects
<1>2. NodeFitsIn(arguments, known)
  BY <1>1 DEF NodeFitsIn, NodeFits
<1>3. \A key : NodeFitsIn(String(key), known) /\ ~IsMap(String(key))
  BY StringIs DEF NodeFitsIn, NodeFits, IsMap
<1>4. ArgumentsFit(arguments, known) <=> ExprFits(arguments, known)
  <2>1. ArgumentsFit(arguments, known)
          <=> \A value \in ToSet(Values(arguments)) : \A n \in Parts(value) : NodeFitsIn(n, known)
    BY ExprFitsNodes, Zenon DEF ArgumentsFit
  <2>2. ExprFits(arguments, known) <=> \A n \in Parts(arguments) : NodeFitsIn(n, known)
    BY ExprFitsNodes
  <2> QED
    BY <1>2, <1>3, <2>1, <2>2, ArgumentParts
<1>5. KeysDistinct(arguments)
        <=> Distinct(Keys(arguments)) /\ \A value \in ToSet(Values(arguments)) : KeysDistinct(value)
  <2>1. ASSUME KeysDistinct(arguments)
        PROVE  /\ Distinct(Keys(arguments))
               /\ \A value \in ToSet(Values(arguments)) : KeysDistinct(value)
    BY <1>1, <2>1, ArgumentParts DEF KeysDistinct
  <2>2. ASSUME Distinct(Keys(arguments)),
               \A value \in ToSet(Values(arguments)) : KeysDistinct(value),
               NEW n \in Parts(arguments), IsMap(n)
        PROVE  Distinct(Keys(n))
    <3>1. \/ n = arguments
          \/ \E value \in ToSet(Values(arguments)) : n \in Parts(value)
      BY <1>3, <2>2, ArgumentParts
    <3> QED
      BY <2>2, <3>1 DEF KeysDistinct
  <2> QED
    BY <2>1, <2>2 DEF KeysDistinct
<1>6. LeanAcceptsArguments(arguments, known)
        <=> /\ Distinct(Keys(arguments))
            /\ \A value \in ToSet(Values(arguments)) :
                 ExprFits(value, known) /\ KeysDistinct(value)
  <2>1. \A value \in ToSet(Values(arguments)) : value \in Expr
    BY ValuesAre, ListLen
  <2> QED
    BY <2>1, LeanExprMeans, Zenon DEF LeanAcceptsArguments
<1> QED
  BY <1>4, <1>5, <1>6, Zenon DEF ArgumentsFit

\* The encoder changes nothing a validator sees, where no key is repeated.
LEMMA EncodedFits ==
  ASSUME NEW e \in Expr, KeysDistinct(e), NEW known
  PROVE  ExprFits(Encoded(e), known) <=> ExprFits(e, known)
<1>1. ASSUME NEW m, NEW n, Like(m, n)
      PROVE  NodeFitsIn(m, known) <=> NodeFitsIn(n, known)
  BY <1>1 DEF Like, NodeFitsIn, NodeFits, Identifying
<1>2. /\ \A m \in Parts(Encoded(e)) : \E n \in Parts(e) : Like(m, n)
      /\ \A n \in Parts(e) : \E m \in Parts(Encoded(e)) : Like(m, n)
  BY EncodedImages, EncodedKeepsAll
<1> QED
  BY <1>1, <1>2, ExprFitsNodes, Zenon

-----------------------------------------------------------------------------
\* Every expression of a graph has distinct keys.
AllKeysDistinct(g) == \A e \in Expressions(g) : KeysDistinct(e)
OutputNames(g) == [i \in DOMAIN g.outputs |-> g.outputs[i].name]

LEMMA GraphIsDocument == Graphs \subseteq AnyDocument
  BY DEF Graphs, AnyDocument, Documents

LEMMA LeanBlockMeans ==
  ASSUME NEW block \in AnyBlock, NEW known, NEW configs,
         \A setup \in ToSet(configs) : Identifying(ConfigAddress(setup))
  PROVE  LeanAcceptsBlock(block, known, configs)
           <=> BlockFits(block, known, configs) /\ KeysDistinct(block.arguments)
<1>1. block.arguments \in Objects
  BY DEF AnyBlock
<1> DEFINE arguments == ExprFits(block.arguments, known) /\ KeysDistinct(block.arguments)
           free == \A target \in ToSet(block.dependsOn) : target # block.at /\ target \in known
           provided == \/ block.provider = <<>>
                       \/ /\ Len(block.provider) <= 2
                          /\ \E setup \in ToSet(configs) : ConfigAddress(setup) = block.provider
<1>2. LeanAcceptsArguments(block.arguments, known) <=> arguments
  BY <1>1, ArgumentsAsExpr
<1>3. OwnerFits(block, known) /\ KeysDistinct(block.arguments) <=> arguments /\ free
  BY <1>1, ArgumentsAsExpr DEF OwnerFits
<1>4. SelectedFits(block, configs) <=> provided
  BY DEF SelectedFits
<1>5. (block.provider \in {ConfigAddress(setup) : setup \in ToSet(configs)})
        <=> \E setup \in ToSet(configs) : ConfigAddress(setup) = block.provider
  OBVIOUS
<1>6. LeanAcceptsBlock(block, known, configs)
        <=> /\ arguments /\ provided
            /\ block.at \notin ToSet(block.dependsOn)
            /\ ToSet(block.dependsOn) \cup ToSet(block.triggers) \subseteq known
            /\ \A target \in ToSet(block.triggers) : target.managed
  BY <1>2, <1>5, Zenon DEF LeanAcceptsBlock
<1> HIDE DEF arguments, provided
<1>7. LeanAcceptsBlock(block, known, configs)
        <=> arguments /\ provided /\ free /\ TriggersFit(block, known)
  BY <1>6 DEF TriggersFit
<1> QED
  BY <1>3, <1>4, <1>7, Zenon DEF BlockFits

\* What Lean accepts, in the terms of the CLI: nothing is repeated, outputs have
\* names, and an import id is blank only as far as Lean knows.
LEMMA LeanMeans ==
  ASSUME NEW g \in Graphs
  PROVE  /\ /\ LeanAccepts(g)
            /\ \A import \in ToSet(g.imports) : import.id \notin RustBlank
            => RustAccepts(g) /\ AllKeysDistinct(g)
         /\ /\ RustAccepts(g) /\ AllKeysDistinct(g)
            /\ Distinct(g.required) /\ Distinct(OutputNames(g)) /\ Identifying(OutputNames(g))
            => LeanAccepts(g)
<1> DEFINE known == ToSet(Addresses(g))
           block(b) == LeanAcceptsBlock(b, known, g.configs)
           named == \A setup \in ToSet(g.configs) : Identifying(ConfigAddress(setup))
           provided == \A setup \in ToSet(g.configs) : LeanAcceptsArguments(setup.arguments, known)
           placed == \A at \in known : {at.type, at.name} \subseteq Identifiers
           shown == \A output \in ToSet(g.outputs) : LeanAcceptsExpr(output.value, known)
           imported == \A import \in ToSet(g.imports) :
                         import.to.managed /\ import.to \in known /\ import.id \notin LeanBlank
<1>0. g \in AnyDocument /\ g.version = "1"
  BY GraphIsDocument DEF Graphs, Documents
<1>1. LeanAccepts(g) <=>
        /\ Identifying(g.required) /\ Distinct(g.required)
        /\ Distinct(ConfigAddresses(g)) /\ named /\ provided
        /\ Distinct(Addresses(g)) /\ placed
        /\ \A b \in ToSet(Blocks(g)) : block(b)
        /\ Identifying(OutputNames(g)) /\ Distinct(OutputNames(g)) /\ shown
        /\ ToSet(Targets(g.moves)) \subseteq known /\ Distinct(Targets(g.moves))
        /\ Distinct(Targets(g.imports)) /\ imported
        /\ ~Cyclic(Edges(g))
  <2>1. (named /\ provided) <=>
          \A setup \in ToSet(g.configs) : /\ ToSet(ConfigAddress(setup)) \subseteq Identifiers
                                           /\ LeanAcceptsArguments(setup.arguments, known)
    BY Zenon DEF Identifying
  <2> HIDE DEF named, provided
  <2> QED
    BY <2>1, Zenon DEF LeanAccepts, Identifying, ConfigAddresses, OutputNames, Targets
<1>2. /\ IsList(g.configs) /\ IsList(g.outputs) /\ IsList(g.moves) /\ IsList(g.imports)
      /\ \A b \in ToSet(Blocks(g)) : b \in AnyBlock
      /\ \A c \in ToSet(g.configs) : c.arguments \in Objects
      /\ \A o \in ToSet(g.outputs) : o.value \in Expr
  <2>1. /\ IsList(g.configs) /\ IsList(g.outputs) /\ IsList(g.moves) /\ IsList(g.imports)
        /\ ToSet(Blocks(g)) \subseteq AnyBlock /\ ToSet(g.configs) \subseteq AnyConfig
        /\ ToSet(g.outputs) \subseteq AnyOutput
    BY <1>0, DocumentTyped, ListOf
  <2> QED
    BY <2>1 DEF AnyConfig, AnyOutput
<1>3. /\ Distinct(Addresses(g)) <=> Apart(Addresses(g))
      /\ Distinct(Targets(g.moves)) <=> Apart(Targets(g.moves))
      /\ Distinct(Targets(g.imports)) <=> Apart(Targets(g.imports))
      /\ Distinct(ConfigAddresses(g)) <=> Apart(ConfigAddresses(g))
  <2>1. IsList(ConfigAddresses(g))
    <3> DEFINE all == ConfigAddresses(g)
    <3>1. Len(g.configs) \in Nat /\ DOMAIN g.configs = 1..Len(g.configs)
      BY <1>2, ListLen
    <3>2. all = [i \in 1..Len(g.configs) |-> all[i]]
      BY <3>1 DEF ConfigAddresses
    <3> HIDE DEF all
    <3>3. IsList(all)
      BY <3>1, <3>2, ListMade
    <3> QED
      BY <3>3 DEF all
  <2>2. IsList(Addresses(g)) /\ IsList(Targets(g.moves)) /\ IsList(Targets(g.imports))
    BY <1>0, <1>2, AddressesAre, TargetsList
  <2> QED
    BY <2>1, <2>2, ApartIsDistinct
<1>4. AllKeysDistinct(g) <=> /\ \A b \in ToSet(Blocks(g)) : KeysDistinct(b.arguments)
                             /\ \A c \in ToSet(g.configs) : KeysDistinct(c.arguments)
                             /\ \A o \in ToSet(g.outputs) : KeysDistinct(o.value)
  BY DEF AllKeysDistinct, Expressions
<1>5. /\ provided <=> \A c \in ToSet(g.configs) : ArgumentsFit(c.arguments, known)
                                                   /\ KeysDistinct(c.arguments)
      /\ shown <=> \A o \in ToSet(g.outputs) : ExprFits(o.value, known) /\ KeysDistinct(o.value)
      /\ named => \A b \in ToSet(Blocks(g)) :
                    block(b) <=> BlockFits(b, known, g.configs) /\ KeysDistinct(b.arguments)
  <2> HIDE DEF known
  <2>1. \A c \in ToSet(g.configs) :
          LeanAcceptsArguments(c.arguments, known)
            <=> ArgumentsFit(c.arguments, known) /\ KeysDistinct(c.arguments)
    BY <1>2, ArgumentsAsExpr
  <2>2. \A o \in ToSet(g.outputs) :
          LeanAcceptsExpr(o.value, known) <=> ExprFits(o.value, known) /\ KeysDistinct(o.value)
    BY <1>2, LeanExprMeans
  <2>3. ASSUME named, NEW b \in ToSet(Blocks(g))
        PROVE  block(b) <=> BlockFits(b, known, g.configs) /\ KeysDistinct(b.arguments)
    BY <1>2, <2>3, LeanBlockMeans
  <2> QED
    BY <2>1, <2>2, <2>3, Zenon
<1>6. /\ ConfigsFit(g) <=> named /\ Distinct(ConfigAddresses(g))
      /\ DeclarationsFit(g) <=> placed /\ Distinct(Addresses(g))
      /\ MovesFit(g, known) <=> /\ ToSet(Targets(g.moves)) \subseteq known
                                /\ Distinct(Targets(g.moves))
  <2>1. ToSet(Targets(g.moves)) = {move.to : move \in ToSet(g.moves)}
    BY <1>2, TargetsList
  <2>2. ToSet(Targets(g.moves)) \subseteq known
          <=> \A move \in ToSet(g.moves) : move.to \in known
    BY <2>1
  <2> HIDE DEF known
  <2> QED
    BY <1>3, <2>2 DEF ConfigsFit, DeclarationsFit, MovesFit, known
<1>7. /\ ImportsFit(g, known) => imported /\ Distinct(Targets(g.imports))
      /\ /\ imported /\ Distinct(Targets(g.imports))
         /\ \A import \in ToSet(g.imports) : import.id \notin RustBlank
         => ImportsFit(g, known)
  BY <1>3 DEF ImportsFit, RustBlank
<1>8. RustAccepts(g) <=>
        /\ Identifying(g.required) /\ ConfigsFit(g) /\ DeclarationsFit(g)
        /\ \A b \in ToSet(Blocks(g)) : BlockFits(b, known, g.configs)
        /\ \A o \in ToSet(g.outputs) : ExprFits(o.value, known)
        /\ \A c \in ToSet(g.configs) : ArgumentsFit(c.arguments, known)
        /\ MovesFit(g, known) /\ ImportsFit(g, known) /\ ~Cyclic(Edges(g))
  BY <1>0, Zenon DEF RustAccepts
<1> HIDE DEF known, block, named, provided, placed, shown, imported
<1>9. ASSUME LeanAccepts(g), \A import \in ToSet(g.imports) : import.id \notin RustBlank
      PROVE  RustAccepts(g) /\ AllKeysDistinct(g)
  <2>1. \A b \in ToSet(Blocks(g)) : BlockFits(b, known, g.configs) /\ KeysDistinct(b.arguments)
    BY <1>1, <1>5, <1>9, Zenon
  <2>2. \A c \in ToSet(g.configs) : ArgumentsFit(c.arguments, known) /\ KeysDistinct(c.arguments)
    BY <1>1, <1>5, <1>9, Zenon
  <2>3. \A o \in ToSet(g.outputs) : ExprFits(o.value, known) /\ KeysDistinct(o.value)
    BY <1>1, <1>5, <1>9, Zenon
  <2>4. ConfigsFit(g) /\ DeclarationsFit(g) /\ MovesFit(g, known) /\ ImportsFit(g, known)
    BY <1>1, <1>6, <1>7, <1>9, Zenon
  <2> QED
    BY <1>1, <1>4, <1>8, <1>9, <2>1, <2>2, <2>3, <2>4, Zenon
<1>10. ASSUME RustAccepts(g), AllKeysDistinct(g), Distinct(g.required),
              Distinct(OutputNames(g)), Identifying(OutputNames(g))
       PROVE  LeanAccepts(g)
  <2>1. named /\ provided /\ shown
    BY <1>4, <1>5, <1>6, <1>8, <1>10, Zenon
  <2>2. \A b \in ToSet(Blocks(g)) : block(b)
    BY <1>4, <1>5, <1>8, <1>10, <2>1, Zenon
  <2>3. /\ Distinct(ConfigAddresses(g)) /\ Distinct(Addresses(g)) /\ placed
        /\ ToSet(Targets(g.moves)) \subseteq known /\ Distinct(Targets(g.moves))
        /\ Distinct(Targets(g.imports)) /\ imported
    BY <1>6, <1>7, <1>8, <1>10, Zenon
  <2> QED
    BY <1>1, <1>8, <1>10, <2>1, <2>2, <2>3, Zenon
<1> QED
  BY <1>9, <1>10, Zenon

-----------------------------------------------------------------------------
\* The encoder block by block.
LEMMA EncodedBlockIs ==
  ASSUME NEW b \in AnyBlock
  PROVE  LET c == EncodedOwner(b) IN
         /\ c \in AnyBlock /\ c.arguments = Encoded(b.arguments)
         /\ c.at = b.at /\ c.dependsOn = b.dependsOn /\ c.provider = b.provider
         /\ c.triggers = b.triggers
<1>1. Encoded(b.arguments) \in Objects
  BY EncodedInExpr DEF AnyBlock, Objects
<1> QED
  BY <1>1 DEF EncodedOwner, AnyBlock

LEMMA EncodedConfigIs ==
  ASSUME NEW setup \in AnyConfig
  PROVE  LET c == EncodedOwner(setup) IN
         /\ c \in AnyConfig /\ c.arguments = Encoded(setup.arguments)
         /\ ConfigAddress(c) = ConfigAddress(setup)
<1>1. Encoded(setup.arguments) \in Objects
  BY EncodedInExpr DEF AnyConfig, Objects
<1> QED
  BY <1>1 DEF EncodedOwner, AnyConfig, ConfigAddress

\* The last output of a name is one of that name.
LEMMA LastOutput ==
  ASSUME NEW list, IsList(list), NEW name \in {o.name : o \in ToSet(list)}
  PROVE  LET i == SelectLastInSeq(list, LAMBDA o : o.name = name) IN
         i \in 1..Len(list) /\ list[i].name = name
<1> DEFINE I == {i \in 1..Len(list) : list[i].name = name}
<1>1. Len(list) \in Nat
  BY ListLen
<1>2. I # {} /\ I \subseteq 1..Len(list)
  BY ListLen
<1>3. SelectLastInSeq(list, LAMBDA o : o.name = name) = Max(I)
  BY <1>2, Zenon DEF SelectLastInSeq
<1>4. Max(I) \in I
  <2> HIDE DEF I
  <2> QED
    BY <1>1, <1>2, LastPlace
<1> QED
  BY <1>3, <1>4

\* What the CLI decodes: the sets and the lists of the graph, with encoded
\* arguments and values; of the outputs of a name the last.
LEMMA EncodedGraphIs ==
  ASSUME NEW g \in Graphs
  PROVE  LET d == EncodedGraph(g) IN
         /\ d \in Graphs
         /\ ToSet(d.required) = ToSet(g.required)
         /\ DOMAIN d.configs = DOMAIN g.configs
         /\ \A i \in DOMAIN g.configs :
              d.configs[i] = EncodedOwner(g.configs[i])
         /\ Len(Blocks(d)) = Len(Blocks(g))
         /\ \A i \in 1..Len(Blocks(g)) : Blocks(d)[i] = EncodedOwner(Blocks(g)[i])
         /\ \A o \in ToSet(d.outputs) : \E p \in ToSet(g.outputs) :
              o.name = p.name /\ o.value = Encoded(p.value)
         /\ \A p \in ToSet(g.outputs) : \E o \in ToSet(d.outputs) : o.name = p.name
         /\ d.moves = g.moves /\ d.imports = g.imports /\ d.stacks = g.stacks
<1> DEFINE d == EncodedGraph(g)
           names == SetToSeq({o.name : o \in ToSet(g.outputs)})
           last(name) == SelectLastInSeq(g.outputs, LAMBDA o : o.name = name)
           required == SetToSeq(ToSet(g.required))
           configs == [i \in DOMAIN g.configs |-> EncodedOwner(g.configs[i])]
           resources == [i \in DOMAIN g.resources |-> EncodedOwner(g.resources[i])]
           dataSources == [i \in DOMAIN g.dataSources |-> EncodedOwner(g.dataSources[i])]
           outputs == [i \in DOMAIN names |->
                         [name |-> names[i], value |-> Encoded(g.outputs[last(names[i])].value)]]
<1>1. g \in AnyDocument /\ g.version = "1"
  BY GraphIsDocument DEF Graphs, Documents
<1>2. /\ IsList(g.required) /\ ToSet(g.required) \subseteq STRING
      /\ IsList(g.configs) /\ ToSet(g.configs) \subseteq AnyConfig
      /\ IsList(g.resources) /\ ToSet(g.resources) \subseteq AnyBlock
      /\ IsList(g.dataSources) /\ ToSet(g.dataSources) \subseteq AnyBlock
      /\ IsList(g.outputs) /\ ToSet(g.outputs) \subseteq AnyOutput
  BY <1>1, DocumentTyped, ListOf
<1>3. d = [g EXCEPT !.required = required, !.configs = configs, !.resources = resources,
                    !.dataSources = dataSources, !.outputs = outputs]
  BY Zenon DEF EncodedGraph
<1>4. required \in Seq(STRING) /\ ToSet(required) = ToSet(g.required)
  <2>1. IsList(required) /\ ToSet(required) = ToSet(g.required)
    BY <1>2, ListFinite, SetList
  <2> QED
    BY <1>2, <2>1, ListIn
<1>5. configs \in Seq(AnyConfig)
  <2>1. Len(g.configs) \in Nat /\ DOMAIN g.configs = 1..Len(g.configs)
    BY <1>2, ListLen
  <2>2. \A i \in DOMAIN g.configs : configs[i] \in AnyConfig
    BY <1>2, EncodedConfigIs DEF ToSet
  <2>3. configs \in [1..Len(g.configs) -> AnyConfig]
    BY <2>1, <2>2
  <2> HIDE DEF configs
  <2> QED
    BY <2>1, <2>3, SeqDef
<1>6. ASSUME NEW list, IsList(list), ToSet(list) \subseteq AnyBlock,
             NEW coded, coded = [i \in DOMAIN list |-> EncodedOwner(list[i])]
      PROVE  /\ coded \in Seq(AnyBlock) /\ IsList(coded) /\ Len(coded) = Len(list)
             /\ \A i \in 1..Len(list) : coded[i] = EncodedOwner(list[i])
  <2>1. Len(list) \in Nat /\ DOMAIN list = 1..Len(list)
    BY <1>6, ListLen
  <2>2. \A i \in DOMAIN list : coded[i] = EncodedOwner(list[i]) /\ coded[i] \in AnyBlock
    BY <1>6, EncodedBlockIs DEF ToSet
  <2>3. coded \in [1..Len(list) -> AnyBlock] /\ coded = [i \in 1..Len(list) |-> coded[i]]
    BY <1>6, <2>1, <2>2
  <2>4. coded \in Seq(AnyBlock)
    BY <2>1, <2>3, SeqDef
  <2>5. IsList(coded) /\ Len(coded) = Len(list)
    BY <2>1, <2>3, ListMade
  <2> QED
    BY <2>1, <2>2, <2>4, <2>5
<1>7. /\ resources \in Seq(AnyBlock) /\ IsList(resources) /\ Len(resources) = Len(g.resources)
      /\ \A i \in 1..Len(g.resources) : resources[i] = EncodedOwner(g.resources[i])
      /\ dataSources \in Seq(AnyBlock) /\ IsList(dataSources)
      /\ Len(dataSources) = Len(g.dataSources)
      /\ \A i \in 1..Len(g.dataSources) : dataSources[i] = EncodedOwner(g.dataSources[i])
  <2> HIDE DEF resources, dataSources
  <2>1. /\ resources = [i \in DOMAIN g.resources |-> EncodedOwner(g.resources[i])]
        /\ dataSources = [i \in DOMAIN g.dataSources |-> EncodedOwner(g.dataSources[i])]
    BY DEF resources, dataSources
  <2> QED
    BY <1>2, <1>6, <2>1
<1>8. /\ IsList(names) /\ ToSet(names) = {o.name : o \in ToSet(g.outputs)}
  <2> DEFINE all == {o.name : o \in ToSet(g.outputs)}
             f == [o \in ToSet(g.outputs) |-> o.name]
  <2>1. f \in Surjection(ToSet(g.outputs), all)
    BY DEF Surjection
  <2> HIDE DEF all, f
  <2>2. IsFiniteSet(all)
    BY <1>2, <2>1, ListFinite, FS_Surjection
  <2>3. IsList(SetToSeq(all)) /\ ToSet(SetToSeq(all)) = all
    BY <2>2, SetList
  <2> QED
    BY <2>3 DEF all
<1>9. /\ Len(names) \in Nat /\ DOMAIN names = 1..Len(names)
      /\ Len(g.outputs) \in Nat /\ DOMAIN g.outputs = 1..Len(g.outputs)
  <2> HIDE DEF names
  <2> QED
    BY <1>2, <1>8, ListLen
<1>10. ASSUME NEW i \in DOMAIN names
       PROVE  \E p \in ToSet(g.outputs) :
                /\ p \in AnyOutput
                /\ outputs[i] = [name |-> p.name, value |-> Encoded(p.value)]
  <2>1. names[i] \in {o.name : o \in ToSet(g.outputs)}
    <3> HIDE DEF names
    <3> QED
      BY <1>8 DEF ToSet
  <2> DEFINE k == last(names[i])
  <2>2. k \in 1..Len(g.outputs) /\ g.outputs[k].name = names[i]
    <3> HIDE DEF names
    <3> QED
      BY <1>2, <2>1, LastOutput
  <2>3. outputs[i] = [name |-> names[i], value |-> Encoded(g.outputs[k].value)]
    BY Zenon
  <2> HIDE DEF outputs, k
  <2>4. g.outputs[k] \in ToSet(g.outputs)
    BY <1>9, <2>2 DEF ToSet
  <2> QED
    BY <1>2, <2>2, <2>3, <2>4, Zenon
<1>11. DOMAIN outputs = 1..Len(names)
  BY <1>9
<1> HIDE DEF outputs
<1>12. /\ \A o \in ToSet(outputs) : \E p \in ToSet(g.outputs) :
            /\ p \in AnyOutput /\ o = [name |-> p.name, value |-> Encoded(p.value)]
       /\ \A p \in ToSet(g.outputs) : \E o \in ToSet(outputs) : o.name = p.name
  <2>1. \A o \in ToSet(outputs) : \E i \in DOMAIN names : o = outputs[i]
    BY <1>9, <1>11 DEF ToSet
  <2>2. ASSUME NEW p \in ToSet(g.outputs)
        PROVE  \E o \in ToSet(outputs) : o.name = p.name
    <3>1. p.name \in ToSet(names)
      BY <1>8
    <3>2. PICK i \in DOMAIN names : p.name = names[i]
      BY <3>1 DEF ToSet
    <3>3. outputs[i].name = names[i]
      BY DEF outputs
    <3>4. outputs[i] \in ToSet(outputs)
      BY <1>9, <1>11 DEF ToSet
    <3> QED
      BY <3>2, <3>3, <3>4, Zenon
  <2> HIDE DEF names, last, required, configs, resources, dataSources, d
  <2>3. ASSUME NEW o \in ToSet(outputs)
        PROVE  \E p \in ToSet(g.outputs) :
                 p \in AnyOutput /\ o = [name |-> p.name, value |-> Encoded(p.value)]
    <3>1. PICK i \in DOMAIN names : o = outputs[i]
      BY <2>1, Zenon
    <3> QED
      BY <1>10, <3>1, Zenon
  <2> QED
    BY <2>2, <2>3, Zenon
<1>13. outputs \in Seq(AnyOutput)
  <2>1. \A o \in ToSet(outputs) : o \in AnyOutput
    BY <1>12, EncodedInExpr DEF AnyOutput
  <2>2. \A i \in 1..Len(names) : outputs[i] \in AnyOutput
    BY <1>11, <2>1 DEF ToSet
  <2>3. outputs = [i \in 1..Len(names) |-> outputs[i]]
    BY <1>9 DEF outputs
  <2> HIDE DEF names
  <2>4. outputs \in [1..Len(names) -> AnyOutput]
    BY <2>2, <2>3
  <2> QED
    BY <1>9, <2>4, SeqDef
<1> HIDE DEF required, configs, resources, dataSources, d
<1>14. /\ d.required = required /\ d.configs = configs /\ d.resources = resources
       /\ d.dataSources = dataSources /\ d.outputs = outputs
       /\ d.moves = g.moves /\ d.imports = g.imports /\ d.stacks = g.stacks
       /\ d \in Graphs
  BY <1>3, <1>4, <1>5, <1>7, <1>13 DEF Graphs, Documents
<1>15. /\ DOMAIN d.configs = DOMAIN g.configs
       /\ \A i \in DOMAIN g.configs :
            d.configs[i] = EncodedOwner(g.configs[i])
  BY <1>14, Zenon DEF configs
<1>16. /\ Len(Blocks(d)) = Len(Blocks(g))
       /\ \A i \in 1..Len(Blocks(g)) : Blocks(d)[i] = EncodedOwner(Blocks(g)[i])
  <2> DEFINE r == Len(g.resources)  s == Len(g.dataSources)
             from == Blocks(g)  into == Blocks(d)
             a == g.resources  b == g.dataSources
  <2>1. r \in Nat /\ s \in Nat
    BY <1>2, ListLen
  <2>2. from = g.resources \o g.dataSources /\ into = resources \o dataSources
    BY <1>14 DEF Blocks
  <2> HIDE DEF from, into
  <2>3. /\ Len(from) = r + s
        /\ \A i \in 1..r : from[i] = g.resources[i]
        /\ \A i \in 1..s : from[r + i] = g.dataSources[i]
    <3>1. from = a \o b /\ IsList(a) /\ IsList(b) /\ r = Len(a) /\ s = Len(b)
      BY <1>2, <2>2
    <3> HIDE DEF a, b
    <3>2. /\ Len(from) = r + s
          /\ \A i \in 1..r : from[i] = a[i]
          /\ \A i \in 1..s : from[r + i] = b[i]
      BY <3>1, ListConcat
    <3> QED
      BY <3>2 DEF a, b
  <2>4. /\ Len(into) = Len(resources) + Len(dataSources)
        /\ \A i \in 1..Len(resources) : into[i] = resources[i]
        /\ \A i \in 1..Len(dataSources) : into[Len(resources) + i] = dataSources[i]
    <3>1. into = resources \o dataSources /\ IsList(resources) /\ IsList(dataSources)
      BY <1>7, <2>2
    <3> QED
      BY <3>1, ListConcat
  <2>5. /\ Len(into) = r + s
        /\ \A i \in 1..r : into[i] = EncodedOwner(from[i])
        /\ \A i \in 1..s : into[r + i] = EncodedOwner(from[r + i])
    BY <1>7, <2>3, <2>4, Zenon
  <2> HIDE DEF r, s
  <2>6. ASSUME NEW i \in 1..(r + s)
        PROVE  into[i] = EncodedOwner(from[i])
    <3>1. CASE i <= r
      <4>1. i \in 1..r
        BY <2>1, <3>1
      <4> QED
        BY <2>5, <4>1
    <3>2. CASE ~(i <= r)
      <4>1. i - r \in 1..s /\ r + (i - r) = i
        BY <2>1, <3>2
      <4> QED
        BY <2>5, <4>1
    <3> QED
      BY <3>1, <3>2
  <2> QED
    BY <2>3, <2>5, <2>6 DEF from, into, r, s
<1> QED
  BY <1>4, <1>12, <1>14, <1>15, <1>16 DEF d

\* A block fits as the encoder leaves it, where no key is repeated.
LEMMA EncodedBlockFits ==
  ASSUME NEW b \in AnyBlock, KeysDistinct(b.arguments), NEW known, NEW configs, NEW coded,
         {ConfigAddress(c) : c \in ToSet(coded)} = {ConfigAddress(c) : c \in ToSet(configs)}
  PROVE  BlockFits(EncodedOwner(b), known, coded) <=> BlockFits(b, known, configs)
<1> DEFINE c == EncodedOwner(b)
<1>1. /\ c \in AnyBlock /\ c.arguments = Encoded(b.arguments)
      /\ c.at = b.at /\ c.dependsOn = b.dependsOn /\ c.provider = b.provider
      /\ c.triggers = b.triggers
  BY EncodedBlockIs
<1>2. b.arguments \in Objects /\ b.arguments \in Expr /\ c.arguments \in Objects
  BY <1>1 DEF AnyBlock, Objects
<1> HIDE DEF c
<1>3. ArgumentsFit(c.arguments, known) <=> ArgumentsFit(b.arguments, known)
  <2>1. ExprFits(c.arguments, known) <=> ExprFits(b.arguments, known)
    BY <1>1, <1>2, EncodedFits
  <2> QED
    BY <1>2, <2>1, ArgumentsAsExpr
<1>4. OwnerFits(c, known) <=> OwnerFits(b, known)
  BY <1>1, <1>3, Zenon DEF OwnerFits
<1>5. SelectedFits(c, coded) <=> SelectedFits(b, configs)
  <2>1. (\E setup \in ToSet(coded) : ConfigAddress(setup) = b.provider)
          <=> \E setup \in ToSet(configs) : ConfigAddress(setup) = b.provider
    OBVIOUS
  <2> QED
    BY <1>1, <2>1, Zenon DEF SelectedFits
<1>6. TriggersFit(c, known) <=> TriggersFit(b, known)
  BY <1>1, Zenon DEF TriggersFit
<1> QED
  BY <1>4, <1>5, <1>6, Zenon DEF BlockFits, c

EdgesOf(b) == {<<from, b.at>> : from \in References(b.arguments) \cup ToSet(b.dependsOn)
                                           \cup ToSet(b.triggers)}

LEMMA EncodedEdges ==
  ASSUME NEW b \in AnyBlock, KeysDistinct(b.arguments)
  PROVE  EdgesOf(EncodedOwner(b)) = EdgesOf(b)
<1> DEFINE c == EncodedOwner(b)
<1>1. /\ c.arguments = Encoded(b.arguments)
      /\ c.at = b.at /\ c.dependsOn = b.dependsOn /\ c.triggers = b.triggers
  BY EncodedBlockIs
<1>2. References(c.arguments) = References(b.arguments)
  BY <1>1, EncodedReferences DEF AnyBlock, Objects
<1> HIDE DEF c
<1>3. EdgesOf(c) = EdgesOf(b)
  BY <1>1, <1>2, Zenon DEF EdgesOf
<1> QED
  BY <1>3 DEF c

\* Outputs of different names are different, and there is one of each.
LEMMA OutputsApart ==
  ASSUME NEW list, IsList(list), Distinct([i \in DOMAIN list |-> list[i].name]),
         NEW o \in ToSet(list), NEW p \in ToSet(list), o.name = p.name
  PROVE  o = p
<1> DEFINE names == [i \in DOMAIN list |-> list[i].name]
<1>1. Len(list) \in Nat /\ DOMAIN list = 1..Len(list)
  BY ListLen
<1>2. names = [i \in 1..Len(list) |-> names[i]] /\ \A i \in 1..Len(list) : names[i] = list[i].name
  BY <1>1
<1>3. Distinct(names)
  OBVIOUS
<1> HIDE DEF names
<1>4. IsList(names) /\ Len(names) = Len(list)
  BY <1>1, <1>2, ListMade
<1>5. \A i, j \in 1..Len(list) : names[i] = names[j] => i = j
  BY <1>3, <1>4, DistinctApart
<1>6. PICK i \in 1..Len(list) : o = list[i]
  BY <1>1 DEF ToSet
<1>7. PICK j \in 1..Len(list) : p = list[j]
  BY <1>1 DEF ToSet
<1> QED
  BY <1>2, <1>5, <1>6, <1>7

\* What the encoder keeps: the addresses, the edges and what fits.
LEMMA SameForRust ==
  ASSUME NEW g \in Graphs, AllKeysDistinct(g), Distinct(OutputNames(g))
  PROVE  RustAccepts(EncodedGraph(g)) <=> RustAccepts(g)
<1> DEFINE d == EncodedGraph(g)
<1>1. /\ d \in Graphs
      /\ ToSet(d.required) = ToSet(g.required)
      /\ DOMAIN d.configs = DOMAIN g.configs
      /\ \A i \in DOMAIN g.configs : d.configs[i] = EncodedOwner(g.configs[i])
      /\ Len(Blocks(d)) = Len(Blocks(g))
      /\ \A i \in 1..Len(Blocks(g)) : Blocks(d)[i] = EncodedOwner(Blocks(g)[i])
      /\ \A o \in ToSet(d.outputs) : \E p \in ToSet(g.outputs) :
           o.name = p.name /\ o.value = Encoded(p.value)
      /\ \A p \in ToSet(g.outputs) : \E o \in ToSet(d.outputs) : o.name = p.name
      /\ d.moves = g.moves /\ d.imports = g.imports /\ d.stacks = g.stacks
  BY EncodedGraphIs
<1> HIDE DEF d
<1>2. g \in AnyDocument /\ d \in AnyDocument /\ g.version = "1" /\ d.version = "1"
  BY <1>1, GraphIsDocument DEF Graphs, Documents
<1>3. /\ IsList(Blocks(g)) /\ ToSet(Blocks(g)) \subseteq AnyBlock /\ IsList(Blocks(d))
      /\ IsList(g.configs) /\ ToSet(g.configs) \subseteq AnyConfig /\ IsList(d.configs)
      /\ IsList(g.outputs) /\ ToSet(g.outputs) \subseteq AnyOutput
  BY <1>2, DocumentTyped, ListOf
<1>4. /\ DOMAIN Blocks(g) = 1..Len(Blocks(g)) /\ DOMAIN Blocks(d) = 1..Len(Blocks(g))
      /\ DOMAIN g.configs = 1..Len(g.configs) /\ DOMAIN g.outputs = 1..Len(g.outputs)
  <2>1. DOMAIN Blocks(d) = 1..Len(Blocks(d))
    BY <1>3, ListLen
  <2> QED
    BY <1>1, <1>3, <2>1, ListLen
<1>5. /\ \A b \in ToSet(Blocks(g)) : KeysDistinct(b.arguments)
      /\ \A c \in ToSet(g.configs) : KeysDistinct(c.arguments)
      /\ \A o \in ToSet(g.outputs) : KeysDistinct(o.value)
  BY DEF AllKeysDistinct, Expressions
<1>6. ToSet(Blocks(d)) = {EncodedOwner(b) : b \in ToSet(Blocks(g))}
  BY <1>1, <1>4 DEF ToSet
<1>7. ToSet(d.configs) = {EncodedOwner(c) : c \in ToSet(g.configs)}
  BY <1>1, <1>4 DEF ToSet
<1>8. Addresses(d) = Addresses(g)
  <2>1. \A i \in 1..Len(Blocks(g)) : Blocks(d)[i].at = Blocks(g)[i].at
    <3>1. \A i \in 1..Len(Blocks(g)) : Blocks(g)[i] \in AnyBlock
      BY <1>3, <1>4 DEF ToSet
    <3> QED
      BY <1>1, <3>1, EncodedBlockIs
  <2>2. [i \in DOMAIN Blocks(d) |-> Blocks(d)[i].at] = [i \in DOMAIN Blocks(g) |-> Blocks(g)[i].at]
    BY <1>4, <2>1
  <2> QED
    BY <1>1, <2>2, Zenon DEF Addresses
<1>9. ConfigAddresses(d) = ConfigAddresses(g)
  <2>1. \A i \in DOMAIN g.configs : ConfigAddress(d.configs[i]) = ConfigAddress(g.configs[i])
    <3>1. \A i \in DOMAIN g.configs : g.configs[i] \in AnyConfig
      BY <1>3 DEF ToSet
    <3> QED
      BY <1>1, <3>1, EncodedConfigIs
  <2> QED
    BY <1>1, <2>1 DEF ConfigAddresses
<1>10. /\ {ConfigAddress(c) : c \in ToSet(d.configs)} = {ConfigAddress(c) : c \in ToSet(g.configs)}
       /\ (\A c \in ToSet(d.configs) : Identifying(ConfigAddress(c)))
            <=> \A c \in ToSet(g.configs) : Identifying(ConfigAddress(c))
  <2>1. \A c \in ToSet(g.configs) : ConfigAddress(EncodedOwner(c)) = ConfigAddress(c)
    BY <1>3, EncodedConfigIs
  <2> QED
    BY <1>7, <2>1
<1>11. Edges(d) = Edges(g)
  <2>1. Edges(d) = UNION {EdgesOf(b) : b \in ToSet(Blocks(d))}
    BY Zenon DEF Edges, EdgesOf
  <2>2. Edges(g) = UNION {EdgesOf(b) : b \in ToSet(Blocks(g))}
    BY Zenon DEF Edges, EdgesOf
  <2>3. \A b \in ToSet(Blocks(g)) : EdgesOf(EncodedOwner(b)) = EdgesOf(b)
    BY <1>3, <1>5, EncodedEdges
  <2> QED
    BY <1>6, <2>1, <2>2, <2>3
<1> DEFINE known == ToSet(Addresses(g))
<1>12. (\A b \in ToSet(Blocks(d)) : BlockFits(b, known, d.configs))
         <=> \A b \in ToSet(Blocks(g)) : BlockFits(b, known, g.configs)
  <2> HIDE DEF known
  <2>1. \A b \in ToSet(Blocks(g)) :
          BlockFits(EncodedOwner(b), known, d.configs) <=> BlockFits(b, known, g.configs)
    BY <1>3, <1>5, <1>10, EncodedBlockFits
  <2> QED
    BY <1>6, <2>1
<1>13. (\A c \in ToSet(d.configs) : ArgumentsFit(c.arguments, known))
         <=> \A c \in ToSet(g.configs) : ArgumentsFit(c.arguments, known)
  <2> HIDE DEF known
  <2>1. ASSUME NEW c \in ToSet(g.configs)
        PROVE  ArgumentsFit(EncodedOwner(c).arguments, known) <=> ArgumentsFit(c.arguments, known)
    <3> DEFINE x == EncodedOwner(c)
    <3>1. /\ x.arguments = Encoded(c.arguments) /\ x.arguments \in Objects
          /\ c.arguments \in Objects /\ c.arguments \in Expr
      BY <1>3, EncodedConfigIs DEF AnyConfig, Objects
    <3> HIDE DEF x
    <3>2. ExprFits(x.arguments, known) <=> ExprFits(c.arguments, known)
      BY <1>5, <3>1, EncodedFits
    <3>3. ArgumentsFit(x.arguments, known) <=> ArgumentsFit(c.arguments, known)
      BY <3>1, <3>2, ArgumentsAsExpr
    <3> QED
      BY <3>3 DEF x
  <2> QED
    BY <1>7, <2>1
<1>14. (\A o \in ToSet(d.outputs) : ExprFits(o.value, known))
         <=> \A p \in ToSet(g.outputs) : ExprFits(p.value, known)
  <2> HIDE DEF known
  <2>1. \A p \in ToSet(g.outputs) : ExprFits(Encoded(p.value), known) <=> ExprFits(p.value, known)
    BY <1>3, <1>5, EncodedFits DEF AnyOutput
  <2>2. \A p \in ToSet(g.outputs) : \E o \in ToSet(d.outputs) : o.value = Encoded(p.value)
    <3> TAKE p \in ToSet(g.outputs)
    <3>1. PICK o \in ToSet(d.outputs) : o.name = p.name
      BY <1>1
    <3>2. PICK q \in ToSet(g.outputs) : o.name = q.name /\ o.value = Encoded(q.value)
      BY <1>1
    <3>3. Distinct([i \in DOMAIN g.outputs |-> g.outputs[i].name])
      BY Zenon DEF OutputNames
    <3>4. q = p
      BY <1>3, <3>1, <3>2, <3>3, OutputsApart
    <3> QED
      BY <3>2, <3>4
  <2> QED
    BY <1>1, <2>1, <2>2
<1>15. /\ DeclarationsFit(d) <=> DeclarationsFit(g)
       /\ MovesFit(d, known) <=> MovesFit(g, known)
       /\ ImportsFit(d, known) <=> ImportsFit(g, known)
  BY <1>1, <1>8, Zenon DEF DeclarationsFit, MovesFit, ImportsFit
<1>16. ConfigsFit(d) <=> ConfigsFit(g)
  BY <1>9, <1>10, Zenon DEF ConfigsFit
<1>17. Identifying(d.required) <=> Identifying(g.required)
  BY <1>1 DEF Identifying
<1>18. known = ToSet(Addresses(d))
  BY <1>8
<1> QED
  BY <1>2, <1>8, <1>11, <1>12, <1>13, <1>14, <1>15, <1>16, <1>17, <1>18, Zenon DEF RustAccepts, d

-----------------------------------------------------------------------------
\* What the CLI decodes of a document, list by list.
LEMMA ListMapped ==
  ASSUME NEW S, NEW T, NEW list \in Seq(S), NEW into, into = [i \in DOMAIN list |-> into[i]],
         \A i \in DOMAIN list : into[i] \in T
  PROVE  /\ into \in Seq(T)
         /\ (\A i \in DOMAIN list : into[i] = list[i]) => into = list
<1>1. /\ Len(list) \in Nat /\ DOMAIN list = 1..Len(list)
      /\ list = [i \in 1..Len(list) |-> list[i]]
  BY LenProperties
<1>2. into \in [1..Len(list) -> T]
  BY <1>1
<1> QED
  BY <1>1, <1>2, SeqDef

LEMMA ParsedList ==
  ASSUME NEW list \in Seq(AnyAddress)
  PROVE  /\ Each(list, Parse) \in Seq(AnyAddress)
         /\ ReadAlike(ToSet(list)) => Each(list, Parse) = list
<1> DEFINE into == Each(list, Parse)
<1>1. into = [i \in DOMAIN list |-> Parse(list[i])]
  BY Zenon DEF Each
<1> HIDE DEF into
<1>2. \A i \in DOMAIN list : into[i] = Parse(list[i]) /\ into[i] \in AnyAddress
  BY <1>1, ParseTyped
<1>3. into = [i \in DOMAIN list |-> into[i]]
  BY <1>1
<1>4. /\ into \in Seq(AnyAddress)
      /\ (\A i \in DOMAIN list : into[i] = list[i]) => into = list
  BY <1>2, <1>3, ListMapped
<1>5. ReadAlike(ToSet(list)) => \A i \in DOMAIN list : Parse(list[i]) = list[i]
  BY DEF ReadAlike, ToSet
<1> QED
  BY <1>2, <1>4, <1>5 DEF into

LEMMA DecodedObject ==
  ASSUME NEW arguments \in Objects
  PROVE  /\ Decoded(arguments) \in Objects
         /\ ReadAlike(References(arguments)) => Decoded(arguments) = arguments
BY DecodedInExpr, DecodedSelf DEF Objects

LEMMA DecodedBlockIs ==
  ASSUME NEW b \in AnyBlock
  PROVE  /\ DecodedBlock(b) \in AnyBlock
         /\ ReadAlike(References(b.arguments) \cup ToSet(b.dependsOn) \cup ToSet(b.triggers))
              => DecodedBlock(b) = b
<1> DEFINE arguments == Decoded(b.arguments)
           dependsOn == Each(b.dependsOn, Parse)
           triggers == Each(b.triggers, Parse)
<1>1. /\ b.arguments \in Objects /\ b.dependsOn \in Seq(AnyAddress)
      /\ b.triggers \in Seq(AnyAddress)
  BY DEF AnyBlock
<1>2. /\ arguments \in Objects
      /\ ReadAlike(References(b.arguments)) => arguments = b.arguments
  BY <1>1, DecodedObject
<1>3. /\ dependsOn \in Seq(AnyAddress)
      /\ ReadAlike(ToSet(b.dependsOn)) => dependsOn = b.dependsOn
  BY <1>1, ParsedList
<1>4. /\ triggers \in Seq(AnyAddress)
      /\ ReadAlike(ToSet(b.triggers)) => triggers = b.triggers
  BY <1>1, ParsedList
<1>5. DecodedBlock(b) = [b EXCEPT !.arguments = arguments, !.dependsOn = dependsOn,
                                  !.triggers = triggers]
  BY Zenon DEF DecodedBlock
<1> HIDE DEF arguments, dependsOn, triggers
<1>6. DecodedBlock(b) \in AnyBlock
  BY <1>2, <1>3, <1>4, <1>5 DEF AnyBlock
<1>7. ASSUME ReadAlike(References(b.arguments) \cup ToSet(b.dependsOn) \cup ToSet(b.triggers))
      PROVE  DecodedBlock(b) = b
  <2>1. arguments = b.arguments /\ dependsOn = b.dependsOn /\ triggers = b.triggers
    BY <1>2, <1>3, <1>4, <1>7 DEF ReadAlike
  <2> QED
    BY <1>5, <2>1 DEF AnyBlock
<1> QED
  BY <1>6, <1>7

LEMMA DecodedConfigIs ==
  ASSUME NEW setup \in AnyConfig
  PROVE  /\ DecodedConfig(setup) \in AnyConfig
         /\ ReadAlike(References(setup.arguments)) => DecodedConfig(setup) = setup
BY DecodedObject DEF DecodedConfig, AnyConfig

LEMMA DecodedOutputIs ==
  ASSUME NEW output \in AnyOutput
  PROVE  /\ DecodedOutput(output) \in AnyOutput
         /\ ReadAlike(References(output.value)) => DecodedOutput(output) = output
BY DecodedInExpr, DecodedSelf DEF DecodedOutput, AnyOutput

LEMMA DecodedMoveIs ==
  ASSUME NEW move \in AnyMove
  PROVE  DecodedMove(move) \in AnyMove /\ DecodedMove(move).to = Parse(move.to)
BY ParseTyped DEF DecodedMove, AnyMove

LEMMA DecodedImportIs ==
  ASSUME NEW import \in AnyImport
  PROVE  /\ DecodedImport(import) \in AnyImport
         /\ Parse(import.to) = import.to => DecodedImport(import) = import
BY ParseTyped DEF DecodedImport, AnyImport

\* What is mentioned, place by place.
LEMMA MentionedIn ==
  ASSUME NEW doc, NEW S
  PROVE  Mentioned(doc) \subseteq S <=>
           /\ \A b \in ToSet(Blocks(doc)) : /\ References(b.arguments) \subseteq S
                                            /\ ToSet(b.dependsOn) \cup ToSet(b.triggers) \subseteq S
           /\ \A c \in ToSet(doc.configs) : References(c.arguments) \subseteq S
           /\ \A o \in ToSet(doc.outputs) : References(o.value) \subseteq S
           /\ \A move \in ToSet(doc.moves) : move.to \in S
           /\ \A import \in ToSet(doc.imports) : import.to \in S
<1> DEFINE lists(b) == ToSet(b.dependsOn) \cup ToSet(b.triggers)
           w == UNION {References(e) : e \in Expressions(doc)}
           x == UNION {lists(b) : b \in ToSet(Blocks(doc))}
           y == {move.to : move \in ToSet(doc.moves)}
           z == {import.to : import \in ToSet(doc.imports)}
<1>1. Mentioned(doc) = w \cup x \cup y \cup z
  BY Zenon DEF Mentioned
<1>2. w \subseteq S <=> \A e \in Expressions(doc) : References(e) \subseteq S
  OBVIOUS
<1>3. (\A e \in Expressions(doc) : References(e) \subseteq S) <=>
        /\ \A b \in ToSet(Blocks(doc)) : References(b.arguments) \subseteq S
        /\ \A c \in ToSet(doc.configs) : References(c.arguments) \subseteq S
        /\ \A o \in ToSet(doc.outputs) : References(o.value) \subseteq S
  BY DEF Expressions
<1>4. x \subseteq S <=> \A b \in ToSet(Blocks(doc)) : lists(b) \subseteq S
  <2> HIDE DEF lists
  <2> QED
    OBVIOUS
<1>5. y \subseteq S <=> \A move \in ToSet(doc.moves) : move.to \in S
  OBVIOUS
<1>6. z \subseteq S <=> \A import \in ToSet(doc.imports) : import.to \in S
  OBVIOUS
<1> HIDE DEF w, x, y, z
<1>7. Mentioned(doc) \subseteq S <=> w \subseteq S /\ x \subseteq S /\ y \subseteq S /\ z \subseteq S
  BY <1>1
<1> QED
  BY <1>2, <1>3, <1>4, <1>5, <1>6, <1>7, Zenon DEF lists

LEMMA DecodedLists ==
  ASSUME NEW doc \in Graphs
  PROVE  LET d == DecodedGraph(doc) IN
         /\ d \in Graphs
         /\ d.required = doc.required /\ d.stacks = doc.stacks
         /\ ReadAlike(Mentioned(doc)) =>
              /\ d.configs = doc.configs /\ d.resources = doc.resources
              /\ d.dataSources = doc.dataSources /\ d.outputs = doc.outputs
              /\ d.imports = doc.imports /\ Targets(d.moves) = Targets(doc.moves)
<1> DEFINE d == DecodedGraph(doc)
           configs == [i \in DOMAIN doc.configs |-> DecodedConfig(doc.configs[i])]
           resources == [i \in DOMAIN doc.resources |-> DecodedBlock(doc.resources[i])]
           dataSources == [i \in DOMAIN doc.dataSources |-> DecodedBlock(doc.dataSources[i])]
           outputs == [i \in DOMAIN doc.outputs |-> DecodedOutput(doc.outputs[i])]
           moves == [i \in DOMAIN doc.moves |-> DecodedMove(doc.moves[i])]
           imports == [i \in DOMAIN doc.imports |-> DecodedImport(doc.imports[i])]
<1>1. d = [doc EXCEPT !.configs = configs, !.resources = resources,
                      !.dataSources = dataSources, !.outputs = outputs, !.moves = moves,
                      !.imports = imports]
  BY Zenon DEF DecodedGraph, Each
<1>2. /\ doc.configs \in Seq(AnyConfig) /\ doc.resources \in Seq(AnyBlock)
      /\ doc.dataSources \in Seq(AnyBlock) /\ doc.outputs \in Seq(AnyOutput)
      /\ doc.moves \in Seq(AnyMove) /\ doc.imports \in Seq(AnyImport)
  BY DEF Graphs, Documents
<1>3. /\ ToSet(doc.resources) \subseteq ToSet(Blocks(doc))
      /\ ToSet(doc.dataSources) \subseteq ToSet(Blocks(doc))
  BY <1>2, ListOf, ListConcat DEF Blocks
<1> DEFINE Read(b) == References(b.arguments) \cup ToSet(b.dependsOn) \cup ToSet(b.triggers)
<1>4. ReadAlike(Mentioned(doc)) =>
        /\ \A b \in ToSet(Blocks(doc)) : ReadAlike(Read(b))
        /\ \A c \in ToSet(doc.configs) : ReadAlike(References(c.arguments))
        /\ \A o \in ToSet(doc.outputs) : ReadAlike(References(o.value))
        /\ \A move \in ToSet(doc.moves) : Parse(move.to) = move.to
        /\ \A import \in ToSet(doc.imports) : Parse(import.to) = import.to
  <2> DEFINE all == Mentioned(doc)
  <2>1. all \subseteq all
    OBVIOUS
  <2>2. /\ \A b \in ToSet(Blocks(doc)) : /\ References(b.arguments) \subseteq all
                                         /\ ToSet(b.dependsOn) \cup ToSet(b.triggers) \subseteq all
        /\ \A c \in ToSet(doc.configs) : References(c.arguments) \subseteq all
        /\ \A o \in ToSet(doc.outputs) : References(o.value) \subseteq all
        /\ \A move \in ToSet(doc.moves) : move.to \in all
        /\ \A import \in ToSet(doc.imports) : import.to \in all
    <3> HIDE DEF all
    <3> QED
      BY <2>1, MentionedIn DEF all
  <2> HIDE DEF all
  <2>3. \A b \in ToSet(Blocks(doc)) : Read(b) \subseteq all
    BY <2>2
  <2> HIDE DEF Read
  <2> QED
    BY <2>2, <2>3 DEF ReadAlike, all
<1>5. ASSUME NEW list \in Seq(AnyBlock), ToSet(list) \subseteq ToSet(Blocks(doc)),
             NEW into, into = [i \in DOMAIN list |-> DecodedBlock(list[i])]
      PROVE  into \in Seq(AnyBlock) /\ (ReadAlike(Mentioned(doc)) => into = list)
  <2>1. \A i \in DOMAIN list : list[i] \in AnyBlock /\ list[i] \in ToSet(Blocks(doc))
    BY <1>5, ListOf DEF ToSet
  <2>2. \A i \in DOMAIN list : into[i] = DecodedBlock(list[i]) /\ into[i] \in AnyBlock
    BY <1>5, <2>1, DecodedBlockIs
  <2>3. into = [i \in DOMAIN list |-> into[i]]
    BY <1>5
  <2>4. /\ into \in Seq(AnyBlock)
        /\ (\A i \in DOMAIN list : into[i] = list[i]) => into = list
    BY <2>2, <2>3, ListMapped
  <2> QED
    BY <1>4, <2>1, <2>2, <2>4, DecodedBlockIs
<1>6. /\ resources \in Seq(AnyBlock)
      /\ ReadAlike(Mentioned(doc)) => resources = doc.resources
  BY <1>2, <1>3, <1>5
<1>7. /\ dataSources \in Seq(AnyBlock)
      /\ ReadAlike(Mentioned(doc)) => dataSources = doc.dataSources
  BY <1>2, <1>3, <1>5
<1>8. configs \in Seq(AnyConfig) /\ (ReadAlike(Mentioned(doc)) => configs = doc.configs)
  <2> DEFINE list == doc.configs
  <2>1. \A i \in DOMAIN list : list[i] \in AnyConfig /\ list[i] \in ToSet(list)
    BY <1>2, ListOf DEF ToSet
  <2>2. \A i \in DOMAIN list : configs[i] = DecodedConfig(list[i]) /\ configs[i] \in AnyConfig
    BY <2>1, DecodedConfigIs
  <2>3. configs = [i \in DOMAIN list |-> configs[i]] /\ list \in Seq(AnyConfig)
    BY <1>2
  <2> HIDE DEF configs, list
  <2>4. /\ configs \in Seq(AnyConfig)
        /\ (\A i \in DOMAIN list : configs[i] = list[i]) => configs = list
    BY <2>2, <2>3, ListMapped
  <2> QED
    BY <1>4, <2>1, <2>2, <2>4, DecodedConfigIs DEF list
<1>9. outputs \in Seq(AnyOutput) /\ (ReadAlike(Mentioned(doc)) => outputs = doc.outputs)
  <2> DEFINE list == doc.outputs
  <2>1. \A i \in DOMAIN list : list[i] \in AnyOutput /\ list[i] \in ToSet(list)
    BY <1>2, ListOf DEF ToSet
  <2>2. \A i \in DOMAIN list : outputs[i] = DecodedOutput(list[i]) /\ outputs[i] \in AnyOutput
    BY <2>1, DecodedOutputIs
  <2>3. outputs = [i \in DOMAIN list |-> outputs[i]] /\ list \in Seq(AnyOutput)
    BY <1>2
  <2> HIDE DEF outputs, list
  <2>4. /\ outputs \in Seq(AnyOutput)
        /\ (\A i \in DOMAIN list : outputs[i] = list[i]) => outputs = list
    BY <2>2, <2>3, ListMapped
  <2> QED
    BY <1>4, <2>1, <2>2, <2>4, DecodedOutputIs DEF list
<1>10. imports \in Seq(AnyImport) /\ (ReadAlike(Mentioned(doc)) => imports = doc.imports)
  <2> DEFINE list == doc.imports
  <2>1. \A i \in DOMAIN list : list[i] \in AnyImport /\ list[i] \in ToSet(list)
    BY <1>2, ListOf DEF ToSet
  <2>2. \A i \in DOMAIN list : imports[i] = DecodedImport(list[i]) /\ imports[i] \in AnyImport
    BY <2>1, DecodedImportIs
  <2>3. imports = [i \in DOMAIN list |-> imports[i]] /\ list \in Seq(AnyImport)
    BY <1>2
  <2> HIDE DEF imports, list
  <2>4. /\ imports \in Seq(AnyImport)
        /\ (\A i \in DOMAIN list : imports[i] = list[i]) => imports = list
    BY <2>2, <2>3, ListMapped
  <2> QED
    BY <1>4, <2>1, <2>2, <2>4, DecodedImportIs DEF list
<1>11. moves \in Seq(AnyMove) /\ (ReadAlike(Mentioned(doc)) => Targets(moves) = Targets(doc.moves))
  <2> DEFINE list == doc.moves
  <2>1. \A i \in DOMAIN list : list[i] \in AnyMove /\ list[i] \in ToSet(list)
    BY <1>2, ListOf DEF ToSet
  <2>2. \A i \in DOMAIN list : moves[i] \in AnyMove /\ moves[i].to = Parse(list[i].to)
    BY <2>1, DecodedMoveIs
  <2>3. moves = [i \in DOMAIN list |-> moves[i]] /\ list \in Seq(AnyMove)
    BY <1>2
  <2>4. DOMAIN moves = DOMAIN list
    OBVIOUS
  <2> HIDE DEF moves, list
  <2>5. moves \in Seq(AnyMove)
    BY <2>2, <2>3, ListMapped
  <2>6. ReadAlike(Mentioned(doc)) => \A i \in DOMAIN list : moves[i].to = list[i].to
    BY <1>4, <2>1, <2>2 DEF list
  <2>7. ReadAlike(Mentioned(doc)) => Targets(moves) = Targets(list)
    BY <2>4, <2>6, Zenon DEF Targets
  <2> QED
    BY <2>5, <2>7 DEF list
<1> HIDE DEF configs, resources, dataSources, outputs, moves, imports, d
<1>12. /\ d.configs = configs /\ d.resources = resources /\ d.dataSources = dataSources
       /\ d.outputs = outputs /\ d.moves = moves /\ d.imports = imports
       /\ d.required = doc.required /\ d.stacks = doc.stacks /\ d \in Graphs
  BY <1>1, <1>6, <1>7, <1>8, <1>9, <1>10, <1>11 DEF Graphs, Documents
<1> QED
  BY <1>6, <1>7, <1>8, <1>9, <1>10, <1>11, <1>12, Zenon DEF d

\* Where the addresses the validators look at are read as themselves, decoding
\* changes nothing they see.
LEMMA DecodedFits ==
  ASSUME NEW doc \in Graphs, ReadAlike(Mentioned(doc))
  PROVE  RustAccepts(DecodedGraph(doc)) <=> RustAccepts(doc)
<1> DEFINE d == DecodedGraph(doc)
<1>1. /\ d \in Graphs /\ d.required = doc.required /\ d.stacks = doc.stacks
      /\ d.configs = doc.configs /\ d.resources = doc.resources
      /\ d.dataSources = doc.dataSources /\ d.outputs = doc.outputs
      /\ d.imports = doc.imports /\ Targets(d.moves) = Targets(doc.moves)
  BY DecodedLists
<1> HIDE DEF d
<1>2. Blocks(d) = Blocks(doc)
  BY <1>1 DEF Blocks
<1>3. Addresses(d) = Addresses(doc) /\ Edges(d) = Edges(doc)
  BY <1>1, <1>2, Zenon DEF Addresses, Edges
<1>4. d.version = doc.version
  BY <1>1 DEF Graphs, Documents
<1>5. ConfigsFit(d) <=> ConfigsFit(doc)
  BY <1>1, Zenon DEF ConfigsFit, ConfigAddresses
<1>6. DeclarationsFit(d) <=> DeclarationsFit(doc)
  BY <1>3, Zenon DEF DeclarationsFit
<1> DEFINE known == ToSet(Addresses(doc))
<1>7. ImportsFit(d, known) <=> ImportsFit(doc, known)
  BY <1>1, Zenon DEF ImportsFit
<1>8. MovesFit(d, known) <=> MovesFit(doc, known)
  <2>1. IsList(d.moves) /\ IsList(doc.moves)
    BY <1>1, GraphIsDocument, DocumentTyped, ListOf
  <2>2. /\ ToSet(Targets(d.moves)) = {x.to : x \in ToSet(d.moves)}
        /\ ToSet(Targets(doc.moves)) = {x.to : x \in ToSet(doc.moves)}
    BY <2>1, TargetsList
  <2> HIDE DEF known
  <2>3. (\A move \in ToSet(d.moves) : move.to \in known)
          <=> \A move \in ToSet(doc.moves) : move.to \in known
    BY <1>1, <2>2
  <2> QED
    BY <1>1, <2>3, Zenon DEF MovesFit
<1> QED
  BY <1>1, <1>2, <1>3, <1>4, <1>5, <1>6, <1>7, <1>8, Zenon DEF RustAccepts, d

\* All that an accepted document mentions is declared in it, hence is read as itself.
LEMMA AcceptedReadAlike ==
  ASSUME NEW doc \in AnyDocument, RustAccepts(doc)
  PROVE  ReadAlike(Mentioned(doc)) /\ Nowhere \notin Mentioned(doc)
<1> DEFINE known == ToSet(Addresses(doc))
<1>1. /\ \A b \in ToSet(Blocks(doc)) : BlockFits(b, known, doc.configs)
      /\ \A output \in ToSet(doc.outputs) : ExprFits(output.value, known)
      /\ \A setup \in ToSet(doc.configs) : ArgumentsFit(setup.arguments, known)
      /\ MovesFit(doc, known) /\ ImportsFit(doc, known) /\ DeclarationsFit(doc)
  BY Zenon DEF RustAccepts
<1>2. /\ ToSet(Blocks(doc)) \subseteq AnyBlock /\ ToSet(doc.configs) \subseteq AnyConfig
      /\ ToSet(doc.stacks) \subseteq STRING
  BY DocumentTyped, ListOf
<1>3. \A at \in known : at \in AnyAddress /\ {at.type, at.name} \subseteq Identifiers
  <2>1. known = {b.at : b \in ToSet(Blocks(doc))} \cup {StackAddress(s) : s \in ToSet(doc.stacks)}
    BY AddressesAre
  <2>2. \A b \in ToSet(Blocks(doc)) : b.at \in AnyAddress
    BY <1>2 DEF AnyBlock
  <2>3. \A s \in ToSet(doc.stacks) : StackAddress(s) \in AnyAddress
    BY <1>2, NamesAssumption DEF StackAddress, Address, AnyAddress
  <2>4. \A at \in known : {at.type, at.name} \subseteq Identifiers
    BY <1>1 DEF DeclarationsFit
  <2> HIDE DEF known
  <2> QED
    BY <2>1, <2>2, <2>3, <2>4
<1> HIDE DEF known
<1>4. Mentioned(doc) \subseteq known
  <2>1. \A b \in ToSet(Blocks(doc)) : /\ References(b.arguments) \subseteq known
                                      /\ ToSet(b.dependsOn) \cup ToSet(b.triggers) \subseteq known
    <3> TAKE b \in ToSet(Blocks(doc))
    <3>1. OwnerFits(b, known) /\ TriggersFit(b, known) /\ b.arguments \in Objects
      BY <1>1, <1>2 DEF BlockFits, AnyBlock
    <3>2. ExprFits(b.arguments, known)
      BY <3>1, ArgumentsAsExpr DEF OwnerFits
    <3> QED
      BY <3>1, <3>2 DEF ExprFits, OwnerFits, TriggersFit
  <2>2. \A c \in ToSet(doc.configs) : References(c.arguments) \subseteq known
    <3> TAKE c \in ToSet(doc.configs)
    <3>1. ArgumentsFit(c.arguments, known) /\ c.arguments \in Objects
      BY <1>1, <1>2 DEF AnyConfig
    <3> QED
      BY <3>1, ArgumentsAsExpr DEF ExprFits
  <2>3. \A o \in ToSet(doc.outputs) : References(o.value) \subseteq known
    BY <1>1 DEF ExprFits
  <2>4. /\ \A move \in ToSet(doc.moves) : move.to \in known
        /\ \A import \in ToSet(doc.imports) : import.to \in known
    BY <1>1 DEF MovesFit, ImportsFit
  <2> QED
    BY <2>1, <2>2, <2>3, <2>4, MentionedIn
<1>5. \A at \in known : Parse(at) = at /\ at # Nowhere
  BY <1>3, ParseSelf
<1> QED
  BY <1>4, <1>5 DEF ReadAlike

\* The encoder mentions what the graph does.
LEMMA EncodedMentions ==
  ASSUME NEW g \in Graphs
  PROVE  /\ Mentioned(EncodedGraph(g)) \subseteq Mentioned(g)
         /\ Origins(EncodedGraph(g)) = Origins(g)
<1> DEFINE d == EncodedGraph(g)
<1> DEFINE all == Mentioned(g)
<1>0. /\ \A b \in ToSet(Blocks(g)) : /\ References(b.arguments) \subseteq all
                                     /\ ToSet(b.dependsOn) \cup ToSet(b.triggers) \subseteq all
      /\ \A c \in ToSet(g.configs) : References(c.arguments) \subseteq all
      /\ \A o \in ToSet(g.outputs) : References(o.value) \subseteq all
      /\ \A move \in ToSet(g.moves) : move.to \in all
      /\ \A import \in ToSet(g.imports) : import.to \in all
  <2>1. all \subseteq all
    OBVIOUS
  <2> HIDE DEF all
  <2> QED
    BY <2>1, MentionedIn DEF all
<1>1. /\ d \in Graphs /\ DOMAIN d.configs = DOMAIN g.configs
      /\ \A i \in DOMAIN g.configs : d.configs[i] = EncodedOwner(g.configs[i])
      /\ Len(Blocks(d)) = Len(Blocks(g))
      /\ \A i \in 1..Len(Blocks(g)) : Blocks(d)[i] = EncodedOwner(Blocks(g)[i])
      /\ \A o \in ToSet(d.outputs) : \E p \in ToSet(g.outputs) :
           o.name = p.name /\ o.value = Encoded(p.value)
      /\ d.moves = g.moves /\ d.imports = g.imports
  BY EncodedGraphIs
<1> HIDE DEF d, all
<1>2. g \in AnyDocument /\ d \in AnyDocument
  BY <1>1, GraphIsDocument
<1>3. /\ IsList(Blocks(g)) /\ ToSet(Blocks(g)) \subseteq AnyBlock /\ IsList(Blocks(d))
      /\ ToSet(g.configs) \subseteq AnyConfig /\ ToSet(g.outputs) \subseteq AnyOutput
  BY <1>2, DocumentTyped, ListOf
<1>4. DOMAIN Blocks(g) = 1..Len(Blocks(g)) /\ DOMAIN Blocks(d) = 1..Len(Blocks(g))
  <2>1. DOMAIN Blocks(d) = 1..Len(Blocks(d))
    BY <1>3, ListLen
  <2> QED
    BY <1>1, <1>3, <2>1, ListLen
<1>5. \A b \in ToSet(Blocks(d)) :
        /\ References(b.arguments) \subseteq all
        /\ ToSet(b.dependsOn) \cup ToSet(b.triggers) \subseteq all
  <2> TAKE b \in ToSet(Blocks(d))
  <2>1. PICK a \in ToSet(Blocks(g)) : b = EncodedOwner(a)
    BY <1>1, <1>4 DEF ToSet
  <2>2. a \in AnyBlock /\ a.arguments \in Expr
    BY <1>3 DEF AnyBlock, Objects
  <2>3. b.arguments = Encoded(a.arguments) /\ b.dependsOn = a.dependsOn /\ b.triggers = a.triggers
    BY <2>1, <2>2, EncodedBlockIs
  <2>4. References(b.arguments) \subseteq References(a.arguments)
    BY <2>2, <2>3, EncodedReferences
  <2> QED
    BY <1>0, <2>3, <2>4
<1>6. \A c \in ToSet(d.configs) : References(c.arguments) \subseteq all
  <2> TAKE c \in ToSet(d.configs)
  <2>1. PICK a \in ToSet(g.configs) : c = EncodedOwner(a)
    BY <1>1 DEF ToSet
  <2>2. a \in AnyConfig /\ a.arguments \in Expr
    BY <1>3 DEF AnyConfig, Objects
  <2>3. References(c.arguments) \subseteq References(a.arguments)
    BY <2>1, <2>2, EncodedConfigIs, EncodedReferences
  <2> QED
    BY <1>0, <2>3
<1>7. \A o \in ToSet(d.outputs) : References(o.value) \subseteq all
  <2> TAKE o \in ToSet(d.outputs)
  <2>1. PICK p \in ToSet(g.outputs) : o.value = Encoded(p.value)
    BY <1>1
  <2>2. p.value \in Expr
    BY <1>3 DEF AnyOutput
  <2>3. References(o.value) \subseteq References(p.value)
    BY <2>1, <2>2, EncodedReferences
  <2> QED
    BY <1>0, <2>3
<1>8. /\ \A move \in ToSet(d.moves) : move.to \in all
      /\ \A import \in ToSet(d.imports) : import.to \in all
  BY <1>0, <1>1
<1>9. Mentioned(d) \subseteq all
  BY <1>5, <1>6, <1>7, <1>8, MentionedIn
<1>10. Origins(d) = Origins(g)
  BY <1>1 DEF Origins
<1> QED
  BY <1>9, <1>10 DEF d, all

-----------------------------------------------------------------------------
\* What a program declares.
LEMMA UniqueAppended ==
  ASSUME NEW S, NEW list \in Seq(S), NEW value \in S
  PROVE  /\ AppendUnique(list, value) \in Seq(S)
         /\ Distinct(list) => Distinct(AppendUnique(list, value))
<1>1. CASE value \in ToSet(list)
  BY <1>1 DEF AppendUnique
<1>2. CASE value \notin ToSet(list)
  <2> DEFINE more == Append(list, value)
  <2>1. AppendUnique(list, value) = more
    BY <1>2 DEF AppendUnique
  <2>2. /\ more \in Seq(S) /\ Len(more) = Len(list) + 1
        /\ \A i \in 1..Len(list) : more[i] = list[i]
        /\ more[Len(list) + 1] = value
    BY AppendProperties
  <2>3. IsList(list) /\ IsList(more)
    BY <2>2, ListOf
  <2>4. Len(list) \in Nat /\ DOMAIN list = 1..Len(list)
    BY <2>3, ListLen
  <2>5. \A i \in 1..Len(list) : list[i] # value
    BY <1>2, <2>4 DEF ToSet
  <2> HIDE DEF more
  <2>6. ASSUME Distinct(list)
        PROVE  Distinct(more)
    <3>1. \A i, j \in 1..Len(list) : list[i] = list[j] => i = j
      BY <2>3, <2>6, DistinctApart
    <3>2. \A i \in 1..Len(more) : i \in 1..Len(list) \/ i = Len(list) + 1
      BY <2>2, <2>4
    <3>3. \A i, j \in 1..Len(more) : more[i] = more[j] => i = j
      BY <2>2, <2>5, <3>1, <3>2, Zenon
    <3> QED
      BY <2>3, <3>3, DistinctApart
  <2> QED
    BY <2>1, <2>2, <2>6
<1> QED
  BY <1>1, <1>2

\* The output of a name is replaced in its place.
LEMMA OutputReplaced ==
  ASSUME NEW list \in Seq(AnyOutput), NEW entry \in AnyOutput,
         Distinct([i \in DOMAIN list |-> list[i].name])
  PROVE  LET more == ReplaceOrAppend(list, entry) IN
         more \in Seq(AnyOutput) /\ Distinct([i \in DOMAIN more |-> more[i].name])
<1> DEFINE more == ReplaceOrAppend(list, entry)
           names == [i \in DOMAIN list |-> list[i].name]
           after == [i \in DOMAIN more |-> more[i].name]
           replaced == [i \in DOMAIN list |-> IF list[i].name = entry.name THEN entry ELSE list[i]]
<1>1. IsList(list) /\ Len(list) \in Nat /\ DOMAIN list = 1..Len(list)
  BY ListOf, ListLen
<1>2. names \in Seq(STRING) /\ Len(names) = Len(list) /\ IsList(names)
  <2>1. \A i \in 1..Len(list) : list[i].name \in STRING
    <3>1. \A i \in 1..Len(list) : list[i] \in AnyOutput
      BY ElementOfSeq
    <3> QED
      BY <3>1 DEF AnyOutput
  <2>2. names \in [1..Len(list) -> STRING]
    BY <1>1, <2>1
  <2>3. names = [i \in 1..Len(list) |-> names[i]]
    BY <1>1
  <2> HIDE DEF names
  <2>4. names \in Seq(STRING)
    BY <1>1, <2>2, SeqDef
  <2> QED
    BY <1>1, <2>3, <2>4, ListMade
<1>3. CASE \E i \in DOMAIN list : list[i].name = entry.name
  <2>1. more = replaced
    BY <1>3 DEF ReplaceOrAppend
  <2>2. \A i \in 1..Len(list) : replaced[i] \in AnyOutput /\ replaced[i].name = list[i].name
    BY <1>1, ElementOfSeq
  <2>3. replaced \in [1..Len(list) -> AnyOutput] /\ DOMAIN replaced = 1..Len(list)
    BY <1>1, <2>2
  <2> HIDE DEF replaced
  <2>4. replaced \in Seq(AnyOutput)
    BY <1>1, <2>3, SeqDef
  <2>5. after = names
    BY <1>1, <2>1, <2>2, <2>3
  <2> QED
    BY <2>1, <2>4, <2>5
<1>4. CASE ~\E i \in DOMAIN list : list[i].name = entry.name
  <2>1. more = Append(list, entry)
    BY <1>4 DEF ReplaceOrAppend
  <2>2. /\ more \in Seq(AnyOutput) /\ Len(more) = Len(list) + 1
        /\ \A i \in 1..Len(list) : more[i] = list[i]
        /\ more[Len(list) + 1] = entry
    BY <2>1, AppendProperties
  <2> HIDE DEF more
  <2>3. DOMAIN more = 1..(Len(list) + 1)
    BY <2>2, LenProperties
  <2>4. entry.name \in STRING /\ entry.name \notin ToSet(names)
    BY <1>1, <1>4 DEF AnyOutput, ToSet
  <2>5. after = AppendUnique(names, entry.name)
    <3> DEFINE longer == Append(names, entry.name)
    <3>1. AppendUnique(names, entry.name) = longer
      BY <2>4 DEF AppendUnique
    <3>2. /\ longer \in Seq(STRING) /\ Len(longer) = Len(list) + 1
          /\ \A i \in 1..Len(list) : longer[i] = names[i]
          /\ longer[Len(list) + 1] = entry.name
      <4> HIDE DEF names
      <4> QED
        BY <1>2, <2>4, AppendProperties
    <3> HIDE DEF longer
    <3>3. longer = [i \in 1..(Len(list) + 1) |-> longer[i]]
      BY <3>2, LenProperties
    <3>4. \A i \in 1..(Len(list) + 1) : longer[i] = more[i].name
      <4>1. \A i \in 1..(Len(list) + 1) : i \in 1..Len(list) \/ i = Len(list) + 1
        BY <1>1
      <4>2. \A i \in 1..Len(list) : names[i] = list[i].name
        BY <1>1
      <4> HIDE DEF names
      <4> QED
        BY <2>2, <3>2, <4>1, <4>2, Zenon
    <3>5. after = [i \in 1..(Len(list) + 1) |-> more[i].name]
      BY <2>3
    <3>6. after = longer
      <4> HIDE DEF after, names
      <4> QED
        BY <3>3, <3>4, <3>5
    <3> QED
      BY <3>1, <3>6
  <2>6. Distinct(AppendUnique(names, entry.name))
    <3>1. Distinct(names)
      OBVIOUS
    <3> HIDE DEF names
    <3> QED
      BY <1>2, <2>4, <3>1, UniqueAppended
  <2>7. Distinct(after)
    <3> HIDE DEF after, names
    <3> QED
      BY <2>5, <2>6
  <2> QED
    BY <2>2, <2>7 DEF more
<1> QED
  BY <1>3, <1>4

Unrepeated(g) == Distinct(g.required) /\ Distinct(OutputNames(g))

LEMMA DeclaredTyped ==
  ASSUME NEW g \in Graphs, Unrepeated(g), NEW d \in Declarations
  PROVE  Declared(g, d) \in Graphs /\ Unrepeated(Declared(g, d))
<1> DEFINE h == Declared(g, d)
<1>1. /\ g.required \in Seq(STRING) /\ g.configs \in Seq(AnyConfig)
      /\ g.resources \in Seq(AnyBlock) /\ g.dataSources \in Seq(AnyBlock)
      /\ g.outputs \in Seq(AnyOutput) /\ g.moves \in Seq(AnyMove)
      /\ g.imports \in Seq(AnyImport) /\ g.stacks \in Seq(STRING)
  BY DEF Graphs, Documents
<1>2. CASE d \in [op : {"resource", "dataSource"}, block : AnyBlock] /\ d.op = "resource"
  <2>1. h = [g EXCEPT !.resources = Append(@, d.block)]
    BY <1>2 DEF Declared
  <2>2. Append(g.resources, d.block) \in Seq(AnyBlock)
    BY <1>1, <1>2, AppendProperties
  <2> HIDE DEF h
  <2>3. h \in Graphs /\ h.required = g.required /\ h.outputs = g.outputs
    BY <2>1, <2>2 DEF Graphs, Documents
  <2> QED
    BY <2>3 DEF Unrepeated, OutputNames, h
<1>3. CASE d \in [op : {"resource", "dataSource"}, block : AnyBlock] /\ d.op = "dataSource"
  <2>1. h = [g EXCEPT !.dataSources = Append(@, d.block)]
    BY <1>3 DEF Declared
  <2>2. Append(g.dataSources, d.block) \in Seq(AnyBlock)
    BY <1>1, <1>3, AppendProperties
  <2> HIDE DEF h
  <2>3. h \in Graphs /\ h.required = g.required /\ h.outputs = g.outputs
    BY <2>1, <2>2 DEF Graphs, Documents
  <2> QED
    BY <2>3 DEF Unrepeated, OutputNames, h
<1>4. CASE d \in [op : {"provider"}, config : AnyConfig]
  <2>1. h = [g EXCEPT !.required = AppendUnique(@, d.config.provider),
                      !.configs = Append(@, d.config)]
    BY <1>4 DEF Declared
  <2>2. Append(g.configs, d.config) \in Seq(AnyConfig)
    BY <1>1, <1>4, AppendProperties
  <2>3. d.config.provider \in STRING
    BY <1>4 DEF AnyConfig
  <2>4. /\ AppendUnique(g.required, d.config.provider) \in Seq(STRING)
        /\ Distinct(AppendUnique(g.required, d.config.provider))
    BY <1>1, <2>3, UniqueAppended DEF Unrepeated
  <2> HIDE DEF h
  <2>5. h \in Graphs /\ h.outputs = g.outputs
        /\ h.required = AppendUnique(g.required, d.config.provider)
    BY <2>1, <2>2, <2>4 DEF Graphs, Documents
  <2> QED
    BY <2>4, <2>5 DEF Unrepeated, OutputNames, h
<1>5. CASE d \in [op : {"output"}, output : AnyOutput]
  <2>1. h = [g EXCEPT !.outputs = ReplaceOrAppend(@, d.output)]
    BY <1>5 DEF Declared
  <2> DEFINE more == ReplaceOrAppend(g.outputs, d.output)
  <2>2. more \in Seq(AnyOutput) /\ Distinct([i \in DOMAIN more |-> more[i].name])
    BY <1>1, <1>5, OutputReplaced DEF Unrepeated, OutputNames
  <2> HIDE DEF h, more
  <2>3. h \in Graphs /\ h.required = g.required /\ h.outputs = more
    BY <2>1, <2>2 DEF Graphs, Documents, more
  <2> QED
    BY <2>2, <2>3 DEF Unrepeated, OutputNames, h
<1>6. CASE d \in [op : {"moved"}, move : AnyMove]
  <2>1. h = [g EXCEPT !.moves = Append(@, d.move)]
    BY <1>6 DEF Declared
  <2>2. Append(g.moves, d.move) \in Seq(AnyMove)
    BY <1>1, <1>6, AppendProperties
  <2> HIDE DEF h
  <2>3. h \in Graphs /\ h.required = g.required /\ h.outputs = g.outputs
    BY <2>1, <2>2 DEF Graphs, Documents
  <2> QED
    BY <2>3 DEF Unrepeated, OutputNames, h
<1>7. CASE d \in [op : {"adopt"}, import : AnyImport]
  <2>1. h = [g EXCEPT !.imports = Append(@, d.import)]
    BY <1>7 DEF Declared
  <2>2. Append(g.imports, d.import) \in Seq(AnyImport)
    BY <1>1, <1>7, AppendProperties
  <2> HIDE DEF h
  <2>3. h \in Graphs /\ h.required = g.required /\ h.outputs = g.outputs
    BY <2>1, <2>2 DEF Graphs, Documents
  <2> QED
    BY <2>3 DEF Unrepeated, OutputNames, h
<1>8. CASE d \in [op : {"read"}, stack : STRING]
  <2>1. h = [g EXCEPT !.stacks = AppendUnique(@, d.stack)]
    BY <1>8 DEF Declared
  <2>2. AppendUnique(g.stacks, d.stack) \in Seq(STRING)
    BY <1>1, <1>8, UniqueAppended
  <2> HIDE DEF h
  <2>3. h \in Graphs /\ h.required = g.required /\ h.outputs = g.outputs
    BY <2>1, <2>2 DEF Graphs, Documents
  <2> QED
    BY <2>3 DEF Unrepeated, OutputNames, h
<1> QED
  BY <1>2, <1>3, <1>4, <1>5, <1>6, <1>7, <1>8 DEF Declarations

-----------------------------------------------------------------------------
\* What becomes of a stack reference.
LEMMA ResolvedTyped ==
  ASSUME NEW doc \in AnyDocument, ReferencesDeclared(doc)
  PROVE  Resolved(doc, Backend) \in AnyDocument
<1> DEFINE read(stack) ==
             Block(StackAddress(stack), StateArguments(Backend[stack]), <<>>, <<>>, <<>>)
           states == [i \in DOMAIN doc.stacks |-> read(doc.stacks[i])]
<1>1. doc.stacks \in Seq(STRING) /\ doc.dataSources \in Seq(AnyBlock)
  BY DocumentTyped
<1>2. Len(doc.stacks) \in Nat /\ DOMAIN doc.stacks = 1..Len(doc.stacks)
  BY <1>1, LenProperties
<1>3. ASSUME NEW i \in 1..Len(doc.stacks)
      PROVE  read(doc.stacks[i]) \in AnyBlock
  <2>1. doc.stacks[i] \in STRING /\ doc.stacks[i] \in ToSet(doc.stacks)
    BY <1>1, <1>2, ElementOfSeq DEF ToSet
  <2>2. doc.stacks[i] \in DOMAIN Backend
    BY <2>1 DEF ReferencesDeclared
  <2>3. StateArguments(Backend[doc.stacks[i]]) \in Objects
    BY <2>2, BackendAssumption
  <2>4. StackAddress(doc.stacks[i]) \in AnyAddress
    BY <2>1, NamesAssumption DEF StackAddress, Address, AnyAddress
  <2>5. /\ <<>> \in Seq(AnyAddress) /\ <<>> \in Seq(STRING)
    OBVIOUS
  <2> QED
    BY <2>3, <2>4, <2>5 DEF Block, AnyBlock
<1>4. states \in Seq(AnyBlock)
  <2>1. \A i \in 1..Len(doc.stacks) : states[i] = read(doc.stacks[i])
    BY <1>2
  <2>2. states = [i \in 1..Len(doc.stacks) |-> states[i]]
    BY <1>2
  <2> HIDE DEF states, read
  <2>3. states \in [1..Len(doc.stacks) -> AnyBlock]
    BY <1>3, <2>1, <2>2
  <2> QED
    BY <1>2, <2>3, SeqDef
<1>5. Resolved(doc, Backend) = [doc EXCEPT !.stacks = <<>>, !.dataSources = @ \o states]
  BY Zenon DEF Resolved
<1> HIDE DEF states
<1>6. doc.dataSources \o states \in Seq(AnyBlock)
  BY <1>1, <1>4, ConcatProperties
<1>7. <<>> \in Seq(STRING)
  OBVIOUS
<1> QED
  BY <1>5, <1>6, <1>7 DEF AnyDocument, Documents

-----------------------------------------------------------------------------
\* The states of a command.
StateInv ==
  /\ graph \in Graphs /\ Unrepeated(graph) /\ count \in 0..MaxDeclarations
  /\ document \in AnyDocument
  /\ stage \in {"program", "printed", "unreadable", "handwritten", "invalid",
                "undeclared stack", "checked", "resolved", "lowered", "not lowered"}
  /\ stage = "unreadable" => ~Readable(EncodedGraph(graph))
  /\ graph # NoGraph /\ stage \notin {"program", "unreadable"} => Readable(EncodedGraph(graph))
  /\ stage = "invalid" => ~Valid(document)
  /\ stage = "checked" => Valid(document) /\ ReferencesDeclared(document)
  /\ stage = "lowered" => config = Lower(document) /\ config.error = ""
  /\ stage # "lowered" => config.error # ""

LEMMA EmptyGraph == NoGraph \in Graphs /\ Unrepeated(NoGraph)
<1>1. /\ <<>> \in Seq(STRING) /\ <<>> \in Seq(AnyConfig) /\ <<>> \in Seq(AnyBlock)
      /\ <<>> \in Seq(AnyOutput) /\ <<>> \in Seq(AnyMove) /\ <<>> \in Seq(AnyImport)
  OBVIOUS
<1>2. NoGraph \in Graphs
  BY <1>1 DEF NoGraph, Graphs, Documents
<1>3. Distinct(<<>>)
  BY DistinctApart, ListEmpty
<1>4. NoGraph.required = <<>> /\ NoGraph.outputs = <<>>
  BY DEF NoGraph
<1>5. OutputNames(NoGraph) = <<>>
  BY <1>4 DEF OutputNames
<1> QED
  BY <1>2, <1>3, <1>4, <1>5 DEF Unrepeated

LEMMA StateInit == Init => StateInv
<1> SUFFICES ASSUME Init PROVE StateInv
  OBVIOUS
<1>1. NoGraph \in AnyDocument
  BY EmptyGraph, GraphIsDocument
<1>2. NoConfig.error # ""
  BY DEF NoConfig
<1>3. 0 \in 0..MaxDeclarations
  BY ProgramAssumption
<1> QED
  BY <1>1, <1>2, <1>3, EmptyGraph DEF Init, StateInv

LEMMA SceneShown ==
  ASSUME NEW output \in AnyOutput
  PROVE  LET g == [Scene EXCEPT !.outputs = <<output>>] IN g \in Graphs /\ Unrepeated(g)
<1> DEFINE g == [Scene EXCEPT !.outputs = <<output>>]
<1>1. <<output>> \in Seq(AnyOutput)
  OBVIOUS
<1>2. g \in Graphs /\ g.required = Scene.required /\ g.outputs = <<output>>
  BY <1>1, SceneAssumption DEF Graphs, Documents
<1> HIDE DEF g
<1>3. OutputNames(g) = <<output.name>>
  BY <1>2 DEF OutputNames
<1>4. Distinct(<<output.name>>)
  <2> DEFINE one == <<output.name>>
  <2>1. IsList(one) /\ Len(one) = 1
    BY ListOne
  <2> HIDE DEF one
  <2>2. \A i, j \in 1..Len(one) : one[i] = one[j] => i = j
    BY <2>1
  <2>3. Distinct(one)
    BY <2>1, <2>2, DistinctApart
  <2> QED
    BY <2>3 DEF one
<1> QED
  BY <1>2, <1>3, <1>4, SceneAssumption DEF Unrepeated, g

LEMMA StateStep == StateInv /\ [Next]_vars => StateInv'
<1> SUFFICES ASSUME StateInv, [Next]_vars PROVE StateInv'
  OBVIOUS
<1>0. MaxDeclarations \in Nat /\ count \in 0..MaxDeclarations
  BY ProgramAssumption DEF StateInv
<1>1. ASSUME NEW d \in Menu, Declare(d)
      PROVE  StateInv'
  <2>1. d \in Declarations
    BY ProgramAssumption
  <2>2. graph' \in Graphs /\ Unrepeated(graph')
    BY <1>1, <2>1, DeclaredTyped DEF Declare, StateInv
  <2>3. count' \in 0..MaxDeclarations
    <3>1. count < MaxDeclarations /\ count' = count + 1
      BY <1>1 DEF Declare
    <3> QED
      BY <1>0, <3>1
  <2>4. stage = "program" /\ UNCHANGED <<stage, document, config>>
    BY <1>1 DEF Declare
  <2> QED
    BY <2>2, <2>3, <2>4 DEF StateInv
<1>2. ASSUME NEW output \in Shown, Show(output)
      PROVE  StateInv'
  <2>1. output \in AnyOutput
    BY ProgramAssumption
  <2>2. graph' \in Graphs /\ Unrepeated(graph')
    BY <1>2, <2>1, SceneShown DEF Show
  <2>3. count' \in 0..MaxDeclarations
    <3>1. count' = MaxDeclarations
      BY <1>2 DEF Show
    <3> QED
      BY <1>0, <3>1
  <2>4. stage = "program" /\ UNCHANGED <<stage, document, config>>
    BY <1>2 DEF Show
  <2> QED
    BY <2>2, <2>3, <2>4 DEF StateInv
<1>3. ASSUME NEW doc \in Handwritten, WriteByHand(doc)
      PROVE  StateInv'
  <2>1. doc \in AnyDocument
    BY HandwrittenAssumption DEF AnyDocument
  <2> QED
    BY <1>3, <2>1 DEF WriteByHand, StateInv
<1>4. CASE Emit
  <2>1. Received \in AnyDocument
    <3>1. EncodedGraph(graph) \in Graphs
      BY EncodedGraphIs DEF StateInv
    <3> QED
      BY <3>1, DecodedLists, GraphIsDocument DEF Received
  <2>2. stage = "program" /\ UNCHANGED <<graph, count, config>>
    BY <1>4 DEF Emit
  <2>3. CASE Readable(EncodedGraph(graph)) /\ stage' = "printed" /\ document' = Received
    BY <2>1, <2>2, <2>3 DEF StateInv
  <2>4. CASE ~Readable(EncodedGraph(graph)) /\ stage' = "unreadable" /\ UNCHANGED document
    BY <2>2, <2>4 DEF StateInv
  <2> QED
    BY <1>4, <2>3, <2>4 DEF Emit
<1>5. CASE Check
  <2>1. /\ stage \in {"printed", "handwritten"}
        /\ stage' = IF ~Valid(document) THEN "invalid"
                    ELSE IF ReferencesDeclared(document) THEN "checked"
                    ELSE "undeclared stack"
        /\ UNCHANGED <<graph, count, document, config>>
    BY <1>5 DEF Check
  <2>2. config'.error # ""
    BY <2>1 DEF StateInv
  <2>3. CASE ~Valid(document)
    BY <2>1, <2>2, <2>3 DEF StateInv
  <2>4. CASE Valid(document) /\ ReferencesDeclared(document)
    BY <2>1, <2>2, <2>4 DEF StateInv
  <2>5. CASE Valid(document) /\ ~ReferencesDeclared(document)
    BY <2>1, <2>2, <2>5 DEF StateInv
  <2> QED
    BY <2>3, <2>4, <2>5
<1>6. CASE Resolve
  <2>1. Resolved(document, Backend) \in AnyDocument
    BY <1>6, ResolvedTyped DEF Resolve, StateInv
  <2> QED
    BY <1>6, <2>1 DEF Resolve, StateInv
<1>7. CASE Write
  <2>1. /\ config' = Lower(document)
        /\ stage' = IF config'.error = "" THEN "lowered" ELSE "not lowered"
        /\ UNCHANGED <<graph, count, document>>
    BY <1>7 DEF Write
  <2>2. Lower(document') = config'
    BY <2>1
  <2>3. graph # NoGraph => Readable(EncodedGraph(graph))
    <3>1. stage \in {"resolved", "handwritten"}
      BY <1>7 DEF Write
    <3> QED
      BY <3>1 DEF StateInv
  <2>4. CASE config'.error = "" /\ stage' = "lowered"
    BY <2>1, <2>2, <2>3, <2>4 DEF StateInv
  <2>5. CASE config'.error # "" /\ stage' = "not lowered"
    BY <2>1, <2>2, <2>3, <2>5 DEF StateInv
  <2> QED
    BY <2>1, <2>4, <2>5
<1>8. CASE UNCHANGED vars
  BY <1>8 DEF vars, StateInv
<1> QED
  BY <1>1, <1>2, <1>3, <1>4, <1>5, <1>6, <1>7, <1>8 DEF Next

\* Every state of a command is one of these.
THEOREM StateHolds == Spec => []StateInv
BY StateInit, StateStep, PTL DEF Spec

\* The command is in one of its stages, holds a document and has lowered one
\* exactly where no error came back.
THEOREM DocumentTypeOK == Spec => []TypeOK
<1>1. StateInv => TypeOK
  <2> SUFFICES ASSUME StateInv PROVE TypeOK
    OBVIOUS
  <2>1. \A doc \in AnyDocument : DOMAIN doc = DOMAIN NoGraph
    BY DEF AnyDocument, Documents, NoGraph
  <2>2. graph \in AnyDocument /\ document \in AnyDocument
    BY GraphIsDocument DEF StateInv
  <2>3. DOMAIN document = DOMAIN NoGraph /\ DOMAIN graph = DOMAIN NoGraph
    BY <2>1, <2>2, Zenon
  <2> QED
    BY <2>3 DEF StateInv, TypeOK
<1> QED
  BY <1>1, StateHolds, PTL

-----------------------------------------------------------------------------
\* The statement a gate proves in Lean is about what the CLI accepts: a graph
\* Graph.validate accepts is decoded from what it prints, and passes the checks of
\* the CLI, if its moves come from addresses, its imports have ids and the JSON
\* reader follows it.
THEOREM GateSpeaks == Spec => []GateSpeaksForTheCli
<1>1. StateInv => GateSpeaksForTheCli
  <2> DEFINE d == EncodedGraph(graph)
  <2> SUFFICES ASSUME StateInv,
                      stage = "unreadable" \/ (stage = "invalid" /\ document = Received),
                      \A at \in Origins(graph) : Parse(at) # Nowhere,
                      \A i \in ToSet(graph.imports) : i.id \notin RustBlank,
                      WithinReader(d), LeanAccepts(graph)
               PROVE  FALSE
    BY DEF GateSpeaksForTheCli
  <2>1. graph \in Graphs /\ document \in AnyDocument
    BY DEF StateInv
  <2>2. RustAccepts(graph) /\ AllKeysDistinct(graph)
    BY <2>1, LeanMeans
  <2>3. Distinct(OutputNames(graph))
    BY DEF StateInv, Unrepeated
  <2>4. RustAccepts(d)
    BY <2>1, <2>2, <2>3, SameForRust
  <2>5. d \in Graphs /\ d \in AnyDocument
    BY <2>1, EncodedGraphIs, GraphIsDocument
  <2>6. Origins(d) = Origins(graph)
    BY <2>1, EncodedMentions
  <2> HIDE DEF d
  <2>7. ReadAlike(Mentioned(d)) /\ Nowhere \notin Mentioned(d)
    BY <2>4, <2>5, AcceptedReadAlike
  <2>8. \A at \in Mentioned(d) \cup Origins(d) : Parse(at) # Nowhere
    BY <2>6, <2>7 DEF ReadAlike
  <2>9. Readable(d)
    BY <2>8 DEF Readable
  <2>10. CASE stage = "unreadable"
    BY <2>9, <2>10 DEF StateInv, d
  <2>11. CASE stage = "invalid" /\ document = Received
    <3>1. document = DecodedGraph(d)
      BY <2>11 DEF Received, d
    <3>2. RustAccepts(document)
      BY <2>4, <2>5, <2>7, <3>1, DecodedFits
    <3>3. ~Valid(document)
      BY <2>11 DEF StateInv
    <3> QED
      BY <2>1, <3>2, <3>3, ValidMeans
  <2> QED
    BY <2>10, <2>11
<1> QED
  BY <1>1, StateHolds, PTL

\* And the CLI accepts no more than Lean, but for what the encoder merges, the
\* names the CLI does not look at and the addresses it reads as others.
THEOREM OnlyTheseDiffer == Spec => []OnlyKeysAndOutputsDiffer
<1>1. StateInv => OnlyKeysAndOutputsDiffer
  <2> DEFINE d == EncodedGraph(graph)
  <2> SUFFICES ASSUME StateInv, stage = "checked", document = Received, graph # NoGraph,
                      \A o \in ToSet(graph.outputs) : o.name \in Identifiers,
                      \A e \in Expressions(graph) : \A n \in ToSet(Visited(e)) :
                        n.kind \in {"map", "object"} => Distinct(Keys(n)),
                      \A at \in Mentioned(graph) : Parse(at) \in {at, Nowhere}
               PROVE  LeanAccepts(graph)
    BY Zenon DEF OnlyKeysAndOutputsDiffer
  <2>1. graph \in Graphs /\ Unrepeated(graph) /\ document \in AnyDocument /\ Valid(document)
    BY DEF StateInv
  <2>2. AllKeysDistinct(graph)
    BY Zenon DEF AllKeysDistinct, KeysDistinct, Parts, IsMap
  <2>3. ReadAlike(Mentioned(d))
    <3>1. \A at \in Mentioned(d) : Parse(at) # Nowhere
      BY DEF StateInv, Readable
    <3>2. Mentioned(d) \subseteq Mentioned(graph)
      BY <2>1, EncodedMentions
    <3> HIDE DEF d
    <3> QED
      BY <3>1, <3>2 DEF ReadAlike
  <2>4. RustAccepts(graph)
    <3>1. RustAccepts(document)
      BY <2>1, ValidMeans
    <3>2. d \in Graphs
      BY <2>1, EncodedGraphIs
    <3>3. document = DecodedGraph(d)
      BY DEF Received
    <3> HIDE DEF d
    <3>4. RustAccepts(d)
      BY <2>3, <3>1, <3>2, <3>3, DecodedFits
    <3> QED
      BY <2>1, <2>2, <3>4, SameForRust DEF Unrepeated, d
  <2>5. Identifying(OutputNames(graph))
    <3>1. IsList(graph.outputs)
      BY <2>1, GraphIsDocument, DocumentTyped, ListOf
    <3>2. DOMAIN graph.outputs = 1..Len(graph.outputs)
      BY <3>1, ListLen
    <3> QED
      BY <3>2 DEF Identifying, OutputNames, ToSet
  <2> QED
    BY <2>1, <2>2, <2>4, <2>5, LeanMeans DEF Unrepeated
<1> QED
  BY <1>1, StateHolds, PTL

-----------------------------------------------------------------------------
\* Lowering.
LoweredTo(doc, c) ==
  /\ RustAccepts(doc) /\ doc.stacks = <<>>
  /\ c.blocks = LowerBlocks(Blocks(doc)) /\ c.moved = doc.moves
  /\ c.imports = [i \in DOMAIN doc.imports |-> doc.imports[i].to]
  /\ DOMAIN c.providers = DOMAIN doc.configs
  /\ \A i \in DOMAIN doc.configs : /\ c.providers[i].name = ConfigAddress(doc.configs[i])
                                   /\ c.providers[i].arguments = LowerConfig(doc.configs[i])

LEMMA LowerIs ==
  ASSUME NEW doc \in AnyDocument, Lower(doc).error = ""
  PROVE  LoweredTo(doc, Lower(doc))
<1> DEFINE c == [error |-> "",
     required |-> ToSet(doc.required),
     variables |-> {SecretVariable(name) : name \in DocumentSecrets(doc)},
     providers |-> [i \in DOMAIN doc.configs |->
                      [name |-> ConfigAddress(doc.configs[i]),
                       arguments |-> LowerConfig(doc.configs[i])]],
     blocks |-> LowerBlocks(Blocks(doc)),
     outputs |-> [name \in {o.name : o \in ToSet(doc.outputs)} |->
                    Lowered[doc.outputs[SelectLastInSeq(doc.outputs, LAMBDA o : o.name = name)].value]],
     moved |-> doc.moves,
     imports |-> [i \in DOMAIN doc.imports |-> doc.imports[i].to]]
           empty == \E e \in Expressions(doc) : EmptyRaw(e)
           body(x) == IF ~Valid(doc) THEN [error |-> "InvalidGraph"]
                      ELSE IF doc.stacks # <<>> THEN [error |-> "UnresolvedStackReference"]
                      ELSE IF empty THEN [error |-> "EmptyRawExpression"] ELSE x
<1>1. Lower(doc) = body(c)
  BY Zenon DEF Lower
<1>2. /\ c.blocks = LowerBlocks(Blocks(doc)) /\ c.moved = doc.moves
      /\ c.imports = [i \in DOMAIN doc.imports |-> doc.imports[i].to]
      /\ DOMAIN c.providers = DOMAIN doc.configs
      /\ \A i \in DOMAIN doc.configs : /\ c.providers[i].name = ConfigAddress(doc.configs[i])
                                       /\ c.providers[i].arguments = LowerConfig(doc.configs[i])
  OBVIOUS
<1> HIDE DEF c, empty
<1>3. Valid(doc) /\ doc.stacks = <<>> /\ Lower(doc) = c
  <2>1. /\ [error |-> "InvalidGraph"].error # ""
        /\ [error |-> "UnresolvedStackReference"].error # ""
        /\ [error |-> "EmptyRawExpression"].error # ""
    OBVIOUS
  <2>2. CASE ~Valid(doc)
    <3>1. Lower(doc) = [error |-> "InvalidGraph"]
      BY <1>1, <2>2, Zenon
    <3> QED
      BY <2>1, <3>1, Zenon
  <2>3. CASE Valid(doc) /\ doc.stacks # <<>>
    <3>1. Lower(doc) = [error |-> "UnresolvedStackReference"]
      BY <1>1, <2>3, Zenon
    <3> QED
      BY <2>1, <3>1, Zenon
  <2>4. CASE Valid(doc) /\ doc.stacks = <<>> /\ empty
    <3>1. Lower(doc) = [error |-> "EmptyRawExpression"]
      BY <1>1, <2>4, Zenon
    <3> QED
      BY <2>1, <3>1, Zenon
  <2>5. CASE Valid(doc) /\ doc.stacks = <<>> /\ ~empty
    BY <1>1, <2>5, Zenon
  <2> QED
    BY <2>2, <2>3, <2>4, <2>5
<1> QED
  BY <1>2, <1>3, ValidMeans, Zenon DEF LoweredTo

\* What a lowered document declares is where its blocks are.
LEMMA LoweredBlocks ==
  ASSUME NEW doc \in AnyDocument, NEW c, LoweredTo(doc, c)
  PROVE  /\ DOMAIN c.blocks = ToSet(Addresses(doc))
         /\ Cardinality(DOMAIN c.blocks) = Len(Blocks(doc))
         /\ \A b \in ToSet(Blocks(doc)) : b.at \in DOMAIN c.blocks /\ c.blocks[b.at] = LowerBlock(b)
         /\ \A at \in DOMAIN c.blocks : \E b \in ToSet(Blocks(doc)) : b.at = at
<1> DEFINE blocks == Blocks(doc)
           last(at) == SelectLastInSeq(blocks, LAMBDA b : b.at = at)
<1>1. /\ RustAccepts(doc) /\ doc.stacks = <<>> /\ c.blocks = LowerBlocks(blocks)
  BY DEF LoweredTo
<1>2. IsList(blocks)
  BY DocumentTyped, ListOf
<1>3. c.blocks = [at \in {b.at : b \in ToSet(blocks)} |-> LowerBlock(blocks[last(at)])]
  BY <1>1, Zenon DEF LowerBlocks
<1> HIDE DEF blocks
<1>4. Len(blocks) \in Nat /\ DOMAIN blocks = 1..Len(blocks)
  BY <1>2, ListLen
<1>5. /\ IsList(Addresses(doc)) /\ ToSet(Addresses(doc)) = {b.at : b \in ToSet(blocks)}
      /\ Len(Addresses(doc)) = Len(blocks)
      /\ \A i \in 1..Len(blocks) : Addresses(doc)[i] = blocks[i].at
  <2>1. ToSet(doc.stacks) = {} /\ Len(doc.stacks) = 0
    BY <1>1, ListEmpty
  <2>2. /\ IsList(Addresses(doc))
        /\ ToSet(Addresses(doc)) = {b.at : b \in ToSet(blocks)}
                                     \cup {StackAddress(s) : s \in ToSet(doc.stacks)}
        /\ Len(Addresses(doc)) = Len(blocks) + Len(doc.stacks)
        /\ \A i \in 1..Len(blocks) : Addresses(doc)[i] = blocks[i].at
    BY AddressesAre DEF blocks
  <2> QED
    BY <1>4, <2>1, <2>2
<1>6. Distinct(Addresses(doc))
  BY <1>1, <1>5, ApartIsDistinct DEF RustAccepts, DeclarationsFit
<1>7. DOMAIN c.blocks = ToSet(Addresses(doc))
  BY <1>3, <1>5
<1>8. ASSUME NEW b \in ToSet(blocks)
      PROVE  b.at \in DOMAIN c.blocks /\ c.blocks[b.at] = LowerBlock(b)
  <2>1. PICK j \in 1..Len(blocks) : b = blocks[j]
    BY <1>4 DEF ToSet
  <2>2. last(b.at) \in 1..Len(blocks) /\ blocks[last(b.at)].at = b.at
    <3> DEFINE I == {i \in 1..Len(blocks) : blocks[i].at = b.at}
    <3>1. I # {} /\ I \subseteq 1..Len(blocks)
      BY <2>1
    <3>2. last(b.at) = Max(I)
      BY <1>4, <3>1, Zenon DEF SelectLastInSeq
    <3>3. Max(I) \in I
      <4> HIDE DEF I
      <4> QED
        BY <1>4, <3>1, LastPlace
    <3> QED
      BY <3>2, <3>3
  <2> HIDE DEF last
  <2>3. last(b.at) = j
    BY <1>5, <1>6, <2>1, <2>2, DistinctApart
  <2>4. b.at \in DOMAIN c.blocks
    BY <1>5, <1>7
  <2>5. c.blocks[b.at] = LowerBlock(blocks[last(b.at)])
    BY <1>3, <2>4 DEF last
  <2> QED
    BY <2>1, <2>3, <2>4, <2>5
<1>9. Cardinality(DOMAIN c.blocks) = Len(blocks)
  BY <1>5, <1>6, <1>7 DEF Distinct
<1>10. \A at \in DOMAIN c.blocks : \E b \in ToSet(blocks) : b.at = at
  BY <1>5, <1>7
<1> QED
  BY <1>7, <1>8, <1>9, <1>10, Zenon DEF blocks

\* What a lowered configuration names is in it.
THEOREM LoweredCloses == Spec => []LoweredIsClosed
<1>1. StateInv => LoweredIsClosed
  <2> DEFINE blocks == config.blocks
             Closed(at) ==
               /\ ToSet(blocks[at].dependsOn) \cup ToSet(blocks[at].triggers) \subseteq DOMAIN blocks
               /\ blocks[at].provider # <<>> =>
                    \E i \in DOMAIN config.providers : config.providers[i].name = blocks[at].provider
  <2> SUFFICES ASSUME StateInv, stage = "lowered"
               PROVE  /\ \A at \in DOMAIN blocks : Closed(at)
                      /\ {config.moved[i].to : i \in DOMAIN config.moved} \subseteq DOMAIN blocks
                      /\ ToSet(config.imports) \subseteq {at \in DOMAIN blocks : at.managed}
    BY Zenon DEF LoweredIsClosed
  <2>1. document \in AnyDocument /\ LoweredTo(document, config)
    BY LowerIs DEF StateInv
  <2> DEFINE known == ToSet(Addresses(document))
  <2>2. /\ DOMAIN blocks = known
        /\ \A b \in ToSet(Blocks(document)) : blocks[b.at] = LowerBlock(b)
        /\ \A at \in DOMAIN blocks : \E b \in ToSet(Blocks(document)) : b.at = at
    BY <2>1, LoweredBlocks
  <2>3. /\ \A b \in ToSet(Blocks(document)) : BlockFits(b, known, document.configs)
        /\ MovesFit(document, known) /\ ImportsFit(document, known)
    BY <2>1, Zenon DEF LoweredTo, RustAccepts
  <2>4. /\ IsList(document.configs) /\ IsList(document.moves) /\ IsList(document.imports)
    BY <2>1, DocumentTyped, ListOf
  <2>5. /\ DOMAIN document.moves = 1..Len(document.moves)
        /\ DOMAIN document.imports = 1..Len(document.imports)
        /\ DOMAIN document.configs = 1..Len(document.configs)
    BY <2>4, ListLen
  <2> HIDE DEF blocks, known
  <2>6. ASSUME NEW at \in DOMAIN blocks
        PROVE  Closed(at)
    <3>1. PICK b \in ToSet(Blocks(document)) : b.at = at
      BY <2>2
    <3>2. /\ blocks[at].dependsOn = b.dependsOn /\ blocks[at].triggers = b.triggers
          /\ blocks[at].provider = b.provider
      <4>1. blocks[at] = LowerBlock(b)
        BY <2>2, <3>1
      <4> QED
        BY <4>1 DEF LowerBlock
    <3>3. OwnerFits(b, known) /\ SelectedFits(b, document.configs) /\ TriggersFit(b, known)
      BY <2>3 DEF BlockFits
    <3>4. ToSet(b.dependsOn) \cup ToSet(b.triggers) \subseteq known
      BY <3>3 DEF OwnerFits, TriggersFit
    <3>5. ASSUME b.provider # <<>>
          PROVE  \E i \in DOMAIN config.providers : config.providers[i].name = b.provider
      <4>1. PICK c \in ToSet(document.configs) : ConfigAddress(c) = b.provider
        BY <3>3, <3>5 DEF SelectedFits
      <4>2. PICK i \in DOMAIN document.configs : c = document.configs[i]
        BY <2>5 DEF ToSet
      <4> QED
        BY <2>1, <4>1, <4>2 DEF LoweredTo
    <3> QED
      BY <2>2, <3>2, <3>4, <3>5
  <2>7. {config.moved[i].to : i \in DOMAIN config.moved} \subseteq DOMAIN blocks
    <3>1. config.moved = document.moves
      BY <2>1 DEF LoweredTo
    <3>2. \A i \in DOMAIN document.moves : document.moves[i].to \in known
      BY <2>3, <2>5 DEF MovesFit, ToSet
    <3> QED
      BY <2>2, <3>1, <3>2
  <2>8. ToSet(config.imports) \subseteq {at \in DOMAIN blocks : at.managed}
    <3>1. config.imports = Targets(document.imports)
      BY <2>1, Zenon DEF LoweredTo, Targets
    <3>2. ToSet(config.imports) = {x.to : x \in ToSet(document.imports)}
      BY <2>4, <3>1, TargetsList
    <3>3. \A x \in ToSet(document.imports) : x.to.managed /\ x.to \in known
      BY <2>3 DEF ImportsFit
    <3> QED
      BY <2>2, <3>2, <3>3
  <2> QED
    BY <2>6, <2>7, <2>8 DEF blocks
<1> QED
  BY <1>1, StateHolds, PTL

\* The keys of an object are those of the map it is lowered to.
LEMMA KeysLowered ==
  ASSUME NEW arguments
  PROVE  {key[1] : key \in ToSet(Keys(arguments))} = DOMAIN LowerArguments(arguments)
<1> DEFINE keys == Keys(arguments)
           into == LowerArguments(arguments)
<1>1. DOMAIN into = {keys[i][1] : i \in DOMAIN keys}
  BY DEF LowerArguments
<1>2. ToSet(keys) = {keys[i] : i \in DOMAIN keys}
  BY DEF ToSet
<1> HIDE DEF keys, into
<1>3. {key[1] : key \in ToSet(keys)} = DOMAIN into
  BY <1>1, <1>2
<1> QED
  BY <1>3 DEF keys, into

\* Every block of an accepted document has a place of its own, with all arguments
\* that are not named as a meta-argument; and a provider has all but an alias.
THEOREM LoweredApart == Spec => []NothingOverwritten
<1>1. StateInv => NothingOverwritten
  <2> DEFINE Meta == {"depends_on", "provider", "lifecycle"}
             KeysOf(owner) == {key[1] : key \in ToSet(Keys(owner.arguments))}
             Kept(b) == KeysOf(b) \ Meta \subseteq DOMAIN config.blocks[b.at].arguments
             Configured(i) == KeysOf(document.configs[i]) \ {"alias"}
                                \subseteq DOMAIN config.providers[i].arguments
  <2> SUFFICES ASSUME StateInv, stage = "lowered"
               PROVE  /\ Cardinality(DOMAIN config.blocks) = Len(Blocks(document))
                      /\ \A b \in ToSet(Blocks(document)) : Kept(b)
                      /\ \A i \in DOMAIN document.configs : Configured(i)
    BY Zenon DEF NothingOverwritten
  <2>1. document \in AnyDocument /\ LoweredTo(document, config)
    BY LowerIs DEF StateInv
  <2>2. /\ Cardinality(DOMAIN config.blocks) = Len(Blocks(document))
        /\ \A b \in ToSet(Blocks(document)) : config.blocks[b.at] = LowerBlock(b)
    BY <2>1, LoweredBlocks
  <2>3. ASSUME NEW b \in ToSet(Blocks(document))
        PROVE  Kept(b)
    <3> DEFINE meta == (IF b.dependsOn = <<>> THEN {} ELSE {"depends_on"})
                         \cup (IF b.provider = <<>> THEN {} ELSE {"provider"})
                         \cup (IF b.triggers = <<>> THEN {} ELSE {"lifecycle"})
               arguments == LowerArguments(b.arguments)
    <3>1. LowerBlock(b).arguments = Restrict(arguments, DOMAIN arguments \ meta)
      BY DEF LowerBlock
    <3>2. DOMAIN LowerBlock(b).arguments = DOMAIN arguments \ meta
      BY <3>1 DEF Restrict
    <3>3. meta \subseteq Meta
      OBVIOUS
    <3>4. KeysOf(b) = DOMAIN arguments
      BY KeysLowered
    <3> HIDE DEF KeysOf, arguments, meta
    <3>5. KeysOf(b) \ Meta \subseteq DOMAIN LowerBlock(b).arguments
      BY <3>2, <3>3, <3>4
    <3> QED
      BY <2>2, <3>5
  <2>4. ASSUME NEW i \in DOMAIN document.configs
        PROVE  Configured(i)
    <3> DEFINE setup == document.configs[i]
               meta == IF setup.alias = <<>> THEN {} ELSE {"alias"}
               arguments == LowerArguments(setup.arguments)
    <3>1. config.providers[i].arguments = LowerConfig(setup)
      BY <2>1 DEF LoweredTo
    <3>2. LowerConfig(setup) = Restrict(arguments, DOMAIN arguments \ meta)
      BY DEF LowerConfig
    <3>3. DOMAIN LowerConfig(setup) = DOMAIN arguments \ meta
      BY <3>2 DEF Restrict
    <3>4. meta \subseteq {"alias"}
      OBVIOUS
    <3>5. KeysOf(setup) = DOMAIN arguments
      BY KeysLowered
    <3> HIDE DEF KeysOf, arguments, meta
    <3>6. KeysOf(setup) \ {"alias"} \subseteq DOMAIN LowerConfig(setup)
      BY <3>3, <3>4, <3>5
    <3> QED
      BY <3>1, <3>6
  <2> QED
    BY <2>2, <2>3, <2>4
<1> QED
  BY <1>1, StateHolds, PTL
=============================================================================
