--------------------------- MODULE GenerateProofs ---------------------------
(***************************************************************************)
(* What Generate keeps true for every list of packages and every number of *)
(* workers.  The invariant follows each place of the queue at hand: not    *)
(* claimed and old, held by one worker and not whole, or whole; a place    *)
(* that was claimed and is none of these belongs to a worker that failed.  *)
(* Of the order of a queue it uses that the jobs can be sorted at all      *)
(* (SortingExists): then the manifest is behind the modules.               *)
(***************************************************************************)
EXTENDS Generate, FiniteSetTheorems, WellFoundedInduction, TLAPS

Place(t) == 1..Len(Packages[t])

Typed == TypeOK /\ file = [t \in Target |-> file[t]]

\* Workers run only while a package is at hand.
Stages ==
  /\ stage # "work" => \A w \in Crew : pc[w] = "out"
  /\ stage = "work" => target \in Target
  /\ reported # None => stage = "ioError"
  /\ next >= 1

\* A worker holds a place that was claimed and is not whole.
Held ==
  \A w \in Crew : Busy(w) =>
    job[w] \in Place(target) /\ job[w] < next /\ file[target][job[w]] # "whole"

\* So does, for good, one that failed.
Failures ==
  stage = "work" => \A w \in Errors :
    /\ pc[w] = "out"
    /\ job[w] \in Place(target) /\ job[w] < next /\ file[target][job[w]] # "whole"
    /\ \A v \in Crew : Busy(v) => job[v] # job[w]

\* What was claimed is whole or held, until a worker fails.
Accounted ==
  stage = "work" => \A i \in Place(target) : i < next =>
    \/ file[target][i] = "whole"
    \/ \E w \in Crew : Busy(w) /\ job[w] = i
    \/ Errors # {}

\* A worker leaves when nothing is left, or after a failure.
Leaves ==
  stage = "work" =>
    /\ failed => Errors # {}
    /\ \A w \in Active : pc[w] = "out" => Errors # {} \/ next > Len(Packages[target])

\* What was not claimed was not written.
Untouched ==
  \A t \in Target : \A i \in Place(t) :
    \/ t > target
    \/ t = target /\ (stage \in {"derive", "open"} \/ (stage = "work" /\ i >= next))
    => file[t][i] = "old"

Pool == Held /\ OneWriter /\ Failures /\ Accounted /\ Leaves /\ Untouched

\* A manifest that was written has what the hashing thread returned.
Digests ==
  /\ digest \in {"ok", "error"} => digest = hashing
  /\ \A t \in Target : manifest[t] # None => manifest[t] = hashing
  /\ \A t \in Target : \A i \in Place(t) :
       Queues[t][i].kind = "manifest" /\ file[t][i] = "whole" => manifest[t] # None
  /\ \A w \in Crew : pc[w] = "finish" /\ Queue[job[w]].kind = "manifest" =>
       manifest[target] # None

\* Whoever joins has set the lock before.
Once == /\ JoinedOnce
        /\ digest = "unset" => joins = 0 /\ \A w \in Crew : pc[w] # "join"

\* Only a worker that renders a manifest waits for the digest.
Asking == \A w \in Crew : pc[w] \in {"ask", "join"} => Queue[job[w]].kind = "manifest"

IInv == Typed /\ Stages /\ Pool /\ Asking /\ Digests /\ Once /\ SuccessIsWhole

-----------------------------------------------------------------------------
\* Sorting keeps the number of jobs, and no package is empty.
LEMMA QueueLength ==
  ASSUME NEW t \in Target
  PROVE  Len(Queues[t]) = Len(Packages[t]) /\ Len(Packages[t]) \in Nat \ {0}
<1>1. Packages[t] \in Seq(Job) /\ Len(Packages[t]) > 0
  BY PackagesAssumption DEF Target
<1>2. Len(Packages[t]) \in Nat
  BY <1>1
<1>3. DOMAIN Sorted(t) = 1..Len(Packages[t])
  BY DEF Sorted, Arranged
<1> QED
  BY <1>1, <1>2, <1>3 DEF Queues

-----------------------------------------------------------------------------
\* A set of numbers that is not empty has a least one.
LEMMA LeastNumber ==
  ASSUME NEW S \in SUBSET Nat, S # {}
  PROVE  \E m \in S : \A n \in S : m <= n
<1>1. PICK m \in S : \A n \in S : <<n, m>> \notin OpToRel(<, Nat)
  BY NatLessThanWellFounded, WFMin
<1>2. \A n \in S : ~(n < m)
  BY <1>1 DEF OpToRel
<1> QED
  BY <1>2

\* The order of a queue: the heavier of two jobs, or else the one listed first.
Precedes(weight, i, j) == weight[i] > weight[j] \/ (weight[i] = weight[j] /\ i < j)

\* A sorting of some of the places of a package.
Sorts(order, weight, S) ==
  /\ order \in [1..Cardinality(S) -> S]
  /\ \A i, j \in 1..Cardinality(S) : i < j => Precedes(weight, order[i], order[j])

\* Of some jobs one is the last: the one listed last of the lightest.
LEMMA LastJob ==
  ASSUME NEW n \in Nat, NEW weight \in [1..n -> Nat], NEW S \in SUBSET (1..n), S # {}
  PROVE  \E m \in S : \A i \in S : i # m => Precedes(weight, i, m)
<1> DEFINE Weights == {weight[i] : i \in S}
<1>1. Weights \in SUBSET Nat /\ Weights # {}
  OBVIOUS
<1>2. PICK light \in Weights : \A x \in Weights : light <= x
  <2> HIDE DEF Weights
  <2> QED
    BY <1>1, LeastNumber
<1> DEFINE Lightest == {i \in S : weight[i] = light}
           FromEnd == {n - i : i \in Lightest}
<1>3. FromEnd \in SUBSET Nat /\ FromEnd # {}
  <2>1. \A i \in 1..n : n - i \in Nat
    OBVIOUS
  <2>2. Lightest # {} /\ \A i \in Lightest : i \in 1..n
    BY <1>2
  <2> HIDE DEF Lightest
  <2> QED
    BY <2>1, <2>2
<1>4. PICK d \in FromEnd : \A x \in FromEnd : d <= x
  <2> HIDE DEF FromEnd
  <2> QED
    BY <1>3, LeastNumber
<1>5. PICK m \in Lightest : d = n - m
  BY <1>4
<1>6. ASSUME NEW i \in S, i # m PROVE Precedes(weight, i, m)
  <2>1. /\ weight[i] \in Nat /\ weight[m] = light /\ light <= weight[i]
        /\ i \in Nat /\ m \in Nat
    BY <1>1, <1>2, <1>5
  <2>2. CASE weight[i] = light
    <3>1. n - i \in FromEnd
      BY <2>2
    <3>2. n - m <= n - i
      BY <1>4, <1>5, <3>1
    <3> QED
      BY <1>6, <2>1, <2>2, <3>2 DEF Precedes
  <2>3. CASE weight[i] # light
    BY <1>1, <1>2, <2>1, <2>3 DEF Precedes
  <2> QED
    BY <2>2, <2>3
<1> QED
  BY <1>5, <1>6

\* The jobs of a package can be sorted: the last job is put behind the others,
\* in a smallest set of jobs for which that was not known.
LEMMA SortingExists ==
  ASSUME NEW n \in Nat, NEW weight \in [1..n -> Nat]
  PROVE  \A S \in SUBSET (1..n) : \E order : Sorts(order, weight, S)
<1> DEFINE Unsorted == {S \in SUBSET (1..n) : ~ \E order : Sorts(order, weight, S)}
           Sizes == {Cardinality(S) : S \in Unsorted}
<1>0. \A S \in SUBSET (1..n) : IsFiniteSet(S) /\ Cardinality(S) \in Nat
  <2>1. IsFiniteSet(1..n)
    BY FS_Interval
  <2> QED
    BY <2>1, FS_Subset, FS_CardinalityType
<1>1. ASSUME Unsorted # {} PROVE FALSE
  <2>1. Sizes \in SUBSET Nat /\ Sizes # {}
    BY <1>0, <1>1
  <2>2. PICK T \in Unsorted : \A U \in Unsorted : Cardinality(T) <= Cardinality(U)
    <3> HIDE DEF Sizes
    <3>1. PICK c \in Sizes : \A d \in Sizes : c <= d
      BY <2>1, LeastNumber
    <3> QED
      BY <3>1 DEF Sizes
  <2>3. T \in SUBSET (1..n) /\ IsFiniteSet(T) /\ Cardinality(T) \in Nat
    BY <1>0
  <2>4. CASE T = {}
    <3>1. Cardinality(T) = 0
      BY <2>4, FS_EmptySet
    <3>2. Sorts([i \in 1..0 |-> 0], weight, T)
      BY <3>1 DEF Sorts
    <3> QED
      BY <3>2
  <2>5. CASE T # {}
    <3>1. PICK m \in T : \A i \in T : i # m => Precedes(weight, i, m)
      BY <2>3, <2>5, LastJob
    <3> DEFINE U == T \ {m}
               size == Cardinality(U)
    <3>2. size \in Nat /\ Cardinality(T) = size + 1
      <4>1. Cardinality(T \ {m}) = Cardinality(T) - 1
        BY <2>3, FS_RemoveElement
      <4>2. Cardinality(T \ {m}) \in Nat
        BY <1>0, <2>3
      <4> QED
        BY <2>3, <4>1, <4>2
    <3>3. U \notin Unsorted
      <4>1. U \in Unsorted => Cardinality(T) <= size
        BY <2>2
      <4> HIDE DEF size, Unsorted
      <4> QED
        BY <3>2, <4>1
    <3>4. PICK order : Sorts(order, weight, U)
      BY <2>3, <3>3
    <3> HIDE DEF size
    <3>5. /\ order \in [1..size -> U]
          /\ \A i, j \in 1..size : i < j => Precedes(weight, order[i], order[j])
      BY <3>4 DEF Sorts, size
    <3> DEFINE longer == [i \in 1..(size + 1) |-> IF i <= size THEN order[i] ELSE m]
    <3>6. longer \in [1..(size + 1) -> T]
      BY <3>2, <3>5
    <3>7. ASSUME NEW i \in 1..(size + 1), NEW j \in 1..(size + 1), i < j
          PROVE  Precedes(weight, longer[i], longer[j])
      <4>1. i \in 1..size /\ longer[i] = order[i] /\ order[i] \in T /\ order[i] # m
        BY <3>2, <3>5, <3>7
      <4>2. CASE j <= size
        <5>1. j \in 1..size /\ longer[j] = order[j]
          BY <3>2, <4>2
        <5> QED
          BY <3>5, <3>7, <4>1, <5>1
      <4>3. CASE ~(j <= size)
        <5>1. longer[j] = m
          BY <4>3
        <5> QED
          BY <3>1, <4>1, <5>1
      <4> QED
        BY <4>2, <4>3
    <3> HIDE DEF longer
    <3>8. Sorts(longer, weight, T)
      BY <3>2, <3>6, <3>7 DEF Sorts
    <3> QED
      BY <3>8
  <2> QED
    BY <2>4, <2>5
<1> QED
  BY <1>1

\* What a package holds are jobs.
LEMMA JobAt ==
  ASSUME NEW t \in Target, NEW i \in Place(t)
  PROVE  Packages[t][i].weight \in Nat
<1>1. Packages[t] \in Seq(Job)
  BY PackagesAssumption DEF Target
<1>2. Packages[t][i] \in Job
  BY <1>1 DEF Place
<1> QED
  BY <1>2 DEF Job

\* A queue is its package in the order of Precedes.
LEMMA QueueOrder ==
  ASSUME NEW t \in Target
  PROVE  \E order \in [Place(t) -> Place(t)] :
           /\ Queues[t] = [i \in Place(t) |-> Packages[t][order[i]]]
           /\ \A i, j \in Place(t) : i < j =>
                Precedes([k \in Place(t) |-> Packages[t][k].weight], order[i], order[j])
<1> DEFINE n == Len(Packages[t])
           weight == [k \in 1..n |-> Packages[t][k].weight]
           InOrder(p) == \A i, j \in 1..n : i < j =>
             \/ Packages[t][p[i]].weight > Packages[t][p[j]].weight
             \/ Packages[t][p[i]].weight = Packages[t][p[j]].weight /\ p[i] < p[j]
           order == CHOOSE p \in [1..n -> 1..n] : InOrder(p)
<1>1. n \in Nat /\ Packages[t] \in Seq(Job)
  BY QueueLength, PackagesAssumption DEF Target
<1>2. weight \in [1..n -> Nat]
  BY JobAt DEF Place
<1>3. \A p \in [1..n -> 1..n] :
        InOrder(p) <=> \A i, j \in 1..n : i < j => Precedes(weight, p[i], p[j])
  BY DEF Precedes
<1>4. \E p \in [1..n -> 1..n] : InOrder(p)
  <2> HIDE DEF InOrder, n, weight
  <2>1. Cardinality(1..n) = n
    BY <1>1, FS_Interval
  <2>2. PICK p : Sorts(p, weight, 1..n)
    BY <1>1, <1>2, SortingExists
  <2> QED
    BY <1>3, <2>1, <2>2 DEF Sorts
<1>5. order \in [1..n -> 1..n] /\ InOrder(order)
  <2> HIDE DEF InOrder, n
  <2> QED
    BY <1>4
<1>6. Queues[t] = [i \in 1..n |-> Packages[t][order[i]]]
  BY DEF Queues, Sorted, Arranged
<1> HIDE DEF order, InOrder
<1> QED
  BY <1>3, <1>5, <1>6 DEF Place

\* The manifest comes after all modules of its package.
LEMMA ManifestIsLast ==
  ASSUME NEW t \in Target, NEW m \in Place(t), NEW i \in Place(t),
         Queues[t][m].kind = "manifest", Queues[t][i].kind = "module"
  PROVE  i < m
<1>1. PICK order \in [Place(t) -> Place(t)] :
        /\ Queues[t] = [k \in Place(t) |-> Packages[t][order[k]]]
        /\ \A k, l \in Place(t) : k < l =>
             Precedes([p \in Place(t) |-> Packages[t][p].weight], order[k], order[l])
  BY QueueOrder
<1>2. order[m] \in Place(t) /\ order[i] \in Place(t)
  BY <1>1
<1>3. Packages[t][order[m]].kind = "manifest" /\ Packages[t][order[i]].kind = "module"
  BY <1>1
<1>4. Packages[t][order[m]].weight = 0 /\ order[i] < order[m]
  BY <1>2, <1>3, ManifestAssumption DEF Target, Place
<1>5. Packages[t][order[i]].weight \in Nat
  BY <1>2, JobAt
<1>6. ~(m < i)
  <2>1. m < i => \/ Packages[t][order[m]].weight > Packages[t][order[i]].weight
                 \/ order[m] < order[i]
    BY <1>1, <1>2 DEF Precedes
  <2>2. order[m] \in Nat /\ order[i] \in Nat
    BY <1>2 DEF Place
  <2> QED
    BY <1>4, <1>5, <2>1, <2>2
<1>7. m # i
  BY <1>3
<1> QED
  BY <1>6, <1>7 DEF Place

\* Sorting loses no job.
LEMMA NothingDropped ==
  ASSUME NEW t \in Target, NEW k \in Place(t)
  PROVE  \E i \in Place(t) : Queues[t][i] = Packages[t][k]
<1>1. PICK order \in [Place(t) -> Place(t)] :
        /\ Queues[t] = [i \in Place(t) |-> Packages[t][order[i]]]
        /\ \A i, j \in Place(t) : i < j =>
             Precedes([p \in Place(t) |-> Packages[t][p].weight], order[i], order[j])
  BY QueueOrder
<1>2. \A p \in Place(t) : Packages[t][p].weight \in Nat
  BY JobAt
<1>3. ASSUME NEW i \in Place(t), NEW j \in Place(t), i < j PROVE order[i] # order[j]
  <2>1. order[i] \in Place(t) /\ order[j] \in Place(t)
    BY <1>1
  <2>2. order[i] \in Nat /\ Packages[t][order[i]].weight \in Nat
    BY <1>2, <2>1 DEF Place
  <2>3. Precedes([p \in Place(t) |-> Packages[t][p].weight], order[i], order[j])
    BY <1>1, <1>3
  <2>4. \/ Packages[t][order[i]].weight > Packages[t][order[j]].weight
        \/ order[i] < order[j]
    BY <2>1, <2>3 DEF Precedes
  <2> QED
    BY <2>2, <2>4
<1>4. \A i, j \in Place(t) : order[i] = order[j] => i = j
  BY <1>3 DEF Place
<1>5. IsFiniteSet(Place(t))
  BY QueueLength, FS_Interval DEF Place
<1>6. order \in Surjection(Place(t), Place(t))
  <2>1. order \in Injection(Place(t), Place(t))
    BY <1>1, <1>4 DEF Injection, IsInjective
  <2> QED
    BY <1>5, <2>1, FS_Injection
<1>7. PICK i \in Place(t) : order[i] = k
  BY <1>6 DEF Surjection
<1> QED
  BY <1>1, <1>7

\* The command starts with nothing claimed and nothing written.
LEMMA InitIInv == Init => IInv
<1> SUFFICES ASSUME Init PROVE IInv
  OBVIOUS
<1>1. Crew \subseteq Nat /\ 1 \in Crew
  BY WorkersAssumption DEF Crew
<1>2. Len(Packages) \in Nat
  BY PackagesAssumption
<1>3. \A t \in Target : file[t] = [i \in Place(t) |-> "old"] /\ manifest[t] = None
  BY DEF Init, Place
<1>4. Typed
  <2>1. file = [t \in Target |-> file[t]]
    BY DEF Init
  <2>2. \A t \in Target :
          file[t] \in [1..Len(Packages[t]) -> {"old", "partial", "whole"}]
    BY <1>3 DEF Place
  <2>3. /\ stage = "derive" /\ target \in 1..(Len(Packages) + 1)
        /\ next \in Nat
        /\ job \in [Crew -> Nat] /\ joins \in Nat
        /\ first = None /\ reported = None
    BY <1>2 DEF Init
  <2>4. /\ pc \in [Crew -> {"look", "claim", "create", "ask", "join", "finish",
                            "fail", "out"}]
        /\ result \in [Crew -> {"ok", "error"}]
        /\ manifest \in [Target -> {None, "ok", "error"}]
        /\ hashing = "running" /\ digest = "unset"
    BY DEF Init
  <2>5. failed \in BOOLEAN
    BY Zenon DEF Init
  <2> QED
    BY <2>1, <2>2, <2>3, <2>4, <2>5 DEF Typed, TypeOK
<1>5. \A w \in Crew : pc[w] = "out"
  BY DEF Init
<1>6. \A t \in Target : \A i \in Place(t) : file[t][i] = "old"
  BY <1>3
<1>7. Stages /\ Held /\ OneWriter /\ Failures /\ Accounted /\ Leaves /\ Once
  BY <1>1, <1>5 DEF Init, Stages, Held, OneWriter, Busy, Failures, Accounted,
     Leaves, Once, JoinedOnce
<1>8. Untouched /\ Digests
  BY <1>3, <1>5, <1>6 DEF Init, Untouched, Digests
<1>9. SuccessIsWhole
  <2>1. \A t \in Target : ~(t < target)
    BY <1>2 DEF Init, Target
  <2> QED
    BY <2>1 DEF Init, SuccessIsWhole
<1> QED
  BY <1>4, <1>5, <1>7, <1>8, <1>9 DEF IInv, Pool, Asking

-----------------------------------------------------------------------------
\* A step of a worker is made while a package is at hand, and touches the
\* worker's own place and file only.
LEMMA WorkerStep ==
  ASSUME Typed, Stages, Held, NEW w \in Crew, Work(w)
  PROVE  /\ stage = "work" /\ target \in Target
         /\ UNCHANGED <<stage, target, hashing, reported>>
         /\ next \in Nat /\ next' \in Nat /\ next <= next'
         /\ pc[w] # "out" /\ result' \in [Crew -> {"ok", "error"}]
         /\ \A v \in Crew : v # w =>
              pc'[v] = pc[v] /\ job'[v] = job[v] /\ result'[v] = result[v]
         /\ \A t \in Target : \A i \in Place(t) :
              t # target \/ i # job[w] => file'[t][i] = file[t][i]
         /\ \A t \in Target : t # target => file'[t] = file[t]
         /\ file' = [t \in Target |-> file'[t]]
<1> USE DEF Typed, TypeOK
<1>1. pc[w] # "out" /\ stage = "work" /\ target \in Target
  BY DEF Work, Look, Claim, Create, Ask, Join, Finish, Fail, Stages
<1>2. UNCHANGED <<stage, target, hashing, reported>>
  BY DEF Work, Look, Claim, Create, Ask, Join, Finish, Fail, shared
<1>3. \E label : pc' = [pc EXCEPT ![w] = label]
  BY DEF Work, Look, Claim, Create, Ask, Join, Finish, Fail, Goto
<1>4. \A v \in Crew : v # w => pc'[v] = pc[v]
  BY <1>3
<1>5. job' = job \/ job' = [job EXCEPT ![w] = next]
  BY DEF Work, Look, Claim, Create, Ask, Join, Finish, Fail
<1>6. result' = result \/ result' = [result EXCEPT ![w] = "error"]
  BY DEF Work, Look, Claim, Create, Ask, Join, Finish, Fail
<1>7. next' = next \/ next' = next + 1
  BY DEF Work, Look, Claim, Create, Ask, Join, Finish, Fail, shared
<1>8. file' = file \/ \E new : file' = [file EXCEPT ![target][job[w]] = new]
  BY DEF Work, Look, Claim, Create, Ask, Join, Finish, Fail
<1>9. /\ \A t \in Target : \A i \in Place(t) :
           t # target \/ i # job[w] => file'[t][i] = file[t][i]
      /\ \A t \in Target : t # target => file'[t] = file[t]
      /\ file' = [t \in Target |-> file'[t]]
  <2>1. CASE file' = file
    BY <2>1
  <2>2. ASSUME NEW new, file' = [file EXCEPT ![target][job[w]] = new]
        PROVE  /\ \A t \in Target : \A i \in Place(t) :
                    t # target \/ i # job[w] => file'[t][i] = file[t][i]
               /\ \A t \in Target : t # target => file'[t] = file[t]
               /\ file' = [t \in Target |-> file'[t]]
    <3>1. /\ file'[target] = [file[target] EXCEPT ![job[w]] = new]
          /\ \A t \in Target : t # target => file'[t] = file[t]
          /\ file' = [t \in Target |-> file'[t]]
      BY <1>1, <2>2
    <3>2. file[target] \in [Place(target) -> {"old", "partial", "whole"}]
      BY <1>1 DEF Place
    <3>3. \A i \in Place(target) : i # job[w] => file'[target][i] = file[target][i]
      BY <3>1, <3>2
    <3> QED
      BY <3>1, <3>3
  <2> QED
    BY <1>8, <2>1, <2>2
<1>10. \A v \in Crew : v # w => job'[v] = job[v]
  BY <1>5
<1>11. /\ result' \in [Crew -> {"ok", "error"}]
       /\ \A v \in Crew : v # w => result'[v] = result[v]
  BY <1>6
<1>12. next \in Nat /\ next' \in Nat /\ next <= next'
  BY <1>7
<1> QED
  BY <1>1, <1>2, <1>4, <1>9, <1>10, <1>11, <1>12

\* Of the workers that failed one is the least.
LEMMA LeastWorker ==
  ASSUME NEW S \in SUBSET Crew, S # {}
  PROVE  \E w \in S : \A v \in S : w <= v
<1>1. S \in SUBSET Nat
  BY DEF Crew
<1> QED
  BY <1>1, LeastNumber

\* Every step keeps every variable within its type.
LEMMA TypePreserved == IInv /\ [Next]_vars => Typed'
<1> SUFFICES ASSUME IInv, [Next]_vars PROVE Typed'
  OBVIOUS
<1>0. Typed /\ Stages /\ Held /\ Len(Packages) \in Nat
  BY PackagesAssumption DEF IInv, Pool
<1> USE DEF Typed, TypeOK
<1>1. CASE Hash
  BY <1>0, <1>1 DEF Hash, shared, Ended
<1>2. CASE Derive
  BY <1>0, <1>2 DEF Derive, Give, shared, Ended
<1>3. CASE Open
  <2>1. /\ pc' \in [Crew -> {"look", "claim", "create", "ask", "join", "finish",
                            "fail", "out"}]
        /\ result' \in [Crew -> {"ok", "error"}]
        /\ next' \in Nat
    BY <1>0, <1>3 DEF Open, shared
  <2>2. failed' \in BOOLEAN
    BY <1>0, <1>3, Zenon DEF Open, shared
  <2> QED
    BY <1>0, <1>3, <2>1, <2>2 DEF Open, Give, Ended
<1>4. CASE Collect
  <2>1. reported' \in Crew \cup {None}
    <3>1. CASE Errors = {}
      BY <1>0, <1>4, <3>1 DEF Collect
    <3>2. CASE Errors # {}
      <4> DEFINE least == CHOOSE w \in Errors : \A v \in Errors : w <= v
      <4>1. \E w \in Errors : \A v \in Errors : w <= v
        BY <3>2, LeastWorker DEF Errors
      <4>2. least \in Errors
        BY <4>1
      <4>3. reported' = least
        BY <1>4, <3>2 DEF Collect
      <4> QED
        BY <4>2, <4>3 DEF Errors
    <3> QED
      BY <3>1, <3>2
  <2>2. target' \in 1..(Len(Packages) + 1)
    BY <1>0, <1>4 DEF Collect, Stages, Target
  <2>3. stage' = "open" \/ stage' = "ioError"
    BY <1>4 DEF Collect, Give
  <2> QED
    BY <1>0, <1>4, <2>1, <2>2, <2>3 DEF Collect, shared, Ended
<1>5. CASE Check
  BY <1>0, <1>5 DEF Check, shared, Ended
<1>6. ASSUME NEW w \in Crew, Work(w) PROVE Typed'
  <2>1. /\ \A v \in Crew : job'[v] \in Nat
        /\ job' \in [Crew -> Nat]
    BY <1>0, <1>6 DEF Work, Look, Claim, Create, Ask, Join, Finish, Fail
  <2>2. pc' \in [Crew -> {"look", "claim", "create", "ask", "join", "finish",
                          "fail", "out"}]
    BY <1>0, <1>6 DEF Work, Look, Claim, Create, Ask, Join, Finish, Fail, Goto
  <2>3. \A t \in Target :
          file'[t] \in [1..Len(Packages[t]) -> {"old", "partial", "whole"}]
    <3>1. \/ file' = file
          \/ \E new \in {"partial", "whole"} :
               file' = [file EXCEPT ![target][job[w]] = new]
      BY <1>6 DEF Work, Look, Claim, Create, Ask, Join, Finish, Fail
    <3>2. CASE file' = file
      BY <1>0, <3>2
    <3>3. ASSUME NEW new \in {"partial", "whole"},
                 file' = [file EXCEPT ![target][job[w]] = new],
                 NEW t \in Target
          PROVE  file'[t] \in [1..Len(Packages[t]) -> {"old", "partial", "whole"}]
      <4>1. \/ file'[t] = file[t]
            \/ file'[t] = [file[t] EXCEPT ![job[w]] = new]
        BY <1>0, <3>3
      <4>2. file[t] \in [1..Len(Packages[t]) -> {"old", "partial", "whole"}]
        BY <1>0
      <4> QED
        BY <4>1, <4>2
    <3> QED
      BY <3>1, <3>2, <3>3
  <2>4. manifest' \in [Target -> {None, "ok", "error"}]
    BY <1>0, <1>6 DEF Work, Look, Claim, Create, Ask, Join, Finish, Fail
  <2>5. /\ digest' \in {"unset", "joining", "ok", "error"} /\ joins' \in Nat
    BY <1>0, <1>6 DEF Work, Look, Claim, Create, Ask, Join, Finish, Fail
  <2>7. first' \in Crew \cup {None}
    BY <1>0, <1>6 DEF Work, Look, Claim, Create, Ask, Join, Finish, Fail
  <2>8. failed' \in BOOLEAN
    <3>1. failed' = failed \/ failed' = TRUE
      BY <1>6 DEF Work, Look, Claim, Create, Ask, Join, Finish, Fail, shared
    <3> QED
      BY <1>0, <3>1, Zenon
  <2>6. /\ UNCHANGED <<stage, target, hashing, reported>>
        /\ next' \in Nat /\ result' \in [Crew -> {"ok", "error"}]
        /\ file' = [t \in Target |-> file'[t]]
    BY <1>0, <1>6, WorkerStep
  <2> QED
    BY <1>0, <2>1, <2>2, <2>3, <2>4, <2>5, <2>6, <2>7, <2>8 DEF Ended
<1>7. CASE UNCHANGED vars
  BY <1>0, <1>7 DEF vars, shared, Ended
<1> QED
  BY <1>1, <1>2, <1>3, <1>4, <1>5, <1>6, <1>7 DEF Next, Command

\* Workers run only between Open and Collect.
LEMMA StagesPreserved == IInv /\ [Next]_vars => Stages'
<1> SUFFICES ASSUME IInv, [Next]_vars PROVE Stages'
  OBVIOUS
<1>0. Typed /\ Stages /\ Held
  BY DEF IInv, Pool
<1>1. CASE Hash \/ UNCHANGED vars
  BY <1>0, <1>1 DEF Hash, vars, shared, Stages
<1>2. CASE Derive \/ Check
  BY <1>0, <1>2 DEF Derive, Check, Give, shared, Stages
<1>3. CASE Open
  <2>1. stage = "open" /\ target \in Target /\ UNCHANGED <<target, reported>>
    BY <1>3 DEF Open
  <2>2. /\ stage' = "work" \/ (stage' # "work" /\ pc' = pc)
        /\ next' = next \/ next' = 1
    BY <1>3 DEF Open, Give, shared
  <2> QED
    BY <1>0, <2>1, <2>2 DEF Stages
<1>4. CASE Collect
  <2>1. stage = "work" /\ pc' = pc /\ \A w \in Crew : pc[w] = "out"
    BY <1>4 DEF Collect
  <2>2. /\ (stage' = "open" /\ reported' = reported) \/ stage' = "ioError"
        /\ next' = next
    BY <1>4 DEF Collect, Give, shared
  <2> QED
    BY <1>0, <2>1, <2>2 DEF Stages
<1>5. ASSUME NEW w \in Crew, Work(w) PROVE Stages'
  BY <1>0, <1>5, WorkerStep DEF Stages
<1> QED
  BY <1>1, <1>2, <1>3, <1>4, <1>5 DEF Next, Command

\* The pool is the calling thread and some of the crew.
LEMMA ActiveCrew ==
  ASSUME target \in Target
  PROVE  1 \in Active /\ Active \subseteq Crew
<1>1. Workers \in Nat \ {0} /\ Len(Packages) \in Nat /\ target \in Nat
  BY WorkersAssumption, PackagesAssumption DEF Target
<1>2. Min2(target, Len(Packages)) = target
  BY <1>1 DEF Min2, Target
<1>3. Len(Packages[target]) \in Nat \ {0}
  BY QueueLength
<1> QED
  BY <1>1, <1>2, <1>3 DEF Active, Crew, Min2

\* A worker that neither takes nor gives up a place changes nothing for the
\* pool.
LEMMA Quiet ==
  ASSUME Typed, Pool, stage = "work", target \in Target, NEW w \in Crew, NEW label,
         Goto(w, label), label # "out", pc[w] # "out",
         Busy(w) <=> label \in {"create", "ask", "join", "finish", "fail"},
         UNCHANGED <<stage, target, next, failed, job, result, file>>
  PROVE  Pool'
<1>1. \A v \in Crew : pc'[v] = IF v = w THEN label ELSE pc[v]
  BY DEF Goto, Typed, TypeOK
<1>2. \A v \in Crew : (Busy(v)' <=> Busy(v)) /\ (pc'[v] = "out" <=> pc[v] = "out")
  BY <1>1 DEF Busy
<1>3. Errors' = Errors /\ Errors \subseteq Crew /\ Active' = Active
  BY DEF Errors, Active
<1>4. Active \subseteq Crew
  BY ActiveCrew
<1>5. Held' /\ OneWriter'
  BY <1>2 DEF Pool, Held, OneWriter
<1>6. Failures'
  BY <1>2, <1>3 DEF Pool, Failures
<1>7. Accounted'
  BY <1>2, <1>3 DEF Pool, Accounted
<1>8. Leaves'
  BY <1>2, <1>3, <1>4 DEF Pool, Leaves
<1>9. Untouched'
  BY DEF Pool, Untouched
<1> QED
  BY <1>5, <1>6, <1>7, <1>8, <1>9 DEF Pool

\* Nothing is at stake while no worker runs.
LEMMA Resting ==
  ASSUME Typed, Pool, UNCHANGED file, \A w \in Crew : pc'[w] = "out",
         stage' # "work", target' \in Nat, target' >= target,
         target' = target /\ stage' \in {"derive", "open"} =>
           stage \in {"derive", "open"}
  PROVE  Pool'
<1>1. \A w \in Crew : ~Busy(w)'
  BY DEF Busy
<1>2. target \in Nat
  BY PackagesAssumption DEF Typed, TypeOK
<1>3. Held' /\ OneWriter' /\ Failures' /\ Accounted' /\ Leaves'
  BY <1>1 DEF Held, OneWriter, Failures, Accounted, Leaves
<1>4. \A t \in Target : t \in Nat
  BY DEF Target
<1>5. ASSUME NEW t \in Target, NEW i \in Place(t),
             t > target' \/ (t = target' /\ stage' \in {"derive", "open"})
      PROVE  file[t][i] = "old"
  <2>1. t > target \/ (t = target /\ stage \in {"derive", "open"})
    BY <1>2, <1>4, <1>5
  <2> QED
    BY <2>1 DEF Pool, Untouched
<1>6. Untouched'
  BY <1>5 DEF Untouched, Place
<1> QED
  BY <1>3, <1>6 DEF Pool

\* Claim: the place that is claimed is the next one, which nobody held.
LEMMA ClaimPreserves ==
  ASSUME Typed, Stages, Pool, NEW w \in Crew, Claim(w)
  PROVE  Pool'
<1>1. /\ stage = "work" /\ target \in Target /\ next \in Nat
      /\ UNCHANGED <<stage, target, failed, result, file>> /\ next' = next + 1
  BY DEF Claim, Stages, Typed, TypeOK
<1>2. Len(Queue) = Len(Packages[target]) /\ Len(Packages[target]) \in Nat
  BY <1>1, QueueLength DEF Queue
<1>3. Errors' = Errors /\ Errors \subseteq Crew /\ Active' = Active /\ Active \subseteq Crew
  BY <1>1, ActiveCrew DEF Errors, Active
<1>4. \A t \in Target : t \in Nat /\ \A i \in Place(t) : i \in Nat
  BY DEF Target, Place
<1>5. Untouched'
  BY <1>1, <1>4 DEF Pool, Untouched
<1>6. CASE next <= Len(Queue)
  <2>1. pc' = [pc EXCEPT ![w] = "create"] /\ job' = [job EXCEPT ![w] = next]
    BY <1>6 DEF Claim, Goto
  <2>2. \A v \in Crew : /\ pc'[v] = IF v = w THEN "create" ELSE pc[v]
                        /\ job'[v] = IF v = w THEN next ELSE job[v]
    BY <2>1 DEF Typed, TypeOK
  <2>3. /\ ~Busy(w) /\ Busy(w)' /\ pc[w] # "out"
        /\ \A v \in Crew : v # w => (Busy(v)' <=> Busy(v))
    BY <2>2 DEF Claim, Busy
  <2>4. next \in Place(target)
    BY <1>1, <1>2, <1>6 DEF Place, Stages
  <2>5. file[target][next] # "whole"
    BY <1>1, <2>4 DEF Pool, Untouched
  <2>6. \A v \in Crew : Busy(v) => job[v] \in Place(target) /\ job[v] < next
    BY DEF Pool, Held
  <2>7. Held'
    BY <1>1, <1>4, <2>2, <2>3, <2>4, <2>5 DEF Pool, Held, Place
  <2>8. OneWriter'
    BY <1>1, <1>4, <2>2, <2>3, <2>6 DEF Pool, OneWriter
  <2>9. Failures'
    BY <1>1, <1>3, <1>4, <2>2, <2>3 DEF Pool, Failures, Place
  <2>10. Accounted'
    BY <1>1, <1>3, <1>4, <2>2, <2>3 DEF Pool, Accounted, Place
  <2>11. Leaves'
    BY <1>1, <1>2, <1>3, <2>2 DEF Pool, Leaves
  <2> QED
    BY <1>5, <2>7, <2>8, <2>9, <2>10, <2>11 DEF Pool
<1>7. CASE ~(next <= Len(Queue))
  <2>1. \A v \in Crew : pc'[v] = IF v = w THEN "out" ELSE pc[v]
    BY <1>7 DEF Claim, Goto, Typed, TypeOK
  <2>2. job' = job /\ \A v \in Crew : Busy(v)' <=> Busy(v)
    BY <1>7, <2>1 DEF Claim, Busy
  <2>3. Held' /\ OneWriter'
    BY <1>1, <1>4, <2>2 DEF Pool, Held, OneWriter, Place
  <2>4. Failures'
    BY <1>1, <1>3, <1>4, <2>1, <2>2 DEF Pool, Failures, Place
  <2>5. Accounted'
    <3>1. \A i \in Place(target) : i < next
      BY <1>1, <1>2, <1>7 DEF Place
    <3> QED
      BY <1>1, <1>3, <2>2, <3>1 DEF Pool, Accounted, Place
  <2>6. Leaves'
    BY <1>1, <1>2, <1>3, <1>7, <2>1 DEF Pool, Leaves
  <2> QED
    BY <1>5, <2>3, <2>4, <2>5, <2>6 DEF Pool
<1> QED
  BY <1>6, <1>7

\* Create and Finish write the file at the worker's own place.
LEMMA FileWritten ==
  ASSUME Typed, Pool, target \in Target, NEW w \in Crew, Busy(w), NEW new,
         file' = [file EXCEPT ![target][job[w]] = new]
  PROVE  /\ file'[target][job[w]] = new
         /\ \A i \in Place(target) : i # job[w] => file'[target][i] = file[target][i]
         /\ \A t \in Target : t # target => file'[t] = file[t]
<1>1. file[target] \in [Place(target) -> {"old", "partial", "whole"}]
  BY DEF Typed, TypeOK, Place
<1>2. job[w] \in Place(target)
  BY DEF Pool, Held
<1>3. /\ file'[target] = [file[target] EXCEPT ![job[w]] = new]
      /\ \A t \in Target : t # target => file'[t] = file[t]
  BY DEF Typed
<1> QED
  BY <1>1, <1>2, <1>3

\* Create, Finish, Fail: the place a worker works at stays its own until it is
\* whole or the worker has failed.
LEMMA WritePreserves ==
  ASSUME Typed, Stages, Pool, NEW w \in Crew, Create(w) \/ Finish(w) \/ Fail(w)
  PROVE  Pool'
<1>1. /\ stage = "work" /\ target \in Target /\ next \in Nat /\ Busy(w)
      /\ UNCHANGED <<stage, target, next, job>>
  BY DEF Create, Finish, Fail, Stages, Typed, TypeOK, Busy, shared
<1>2. /\ job[w] \in Place(target) /\ job[w] < next /\ file[target][job[w]] # "whole"
      /\ \A v \in Crew : v # w /\ Busy(v) => job[v] # job[w] /\ job[v] \in Place(target)
  BY <1>1 DEF Pool, Held, OneWriter
<1>3. Active' = Active /\ Active \subseteq Crew /\ Errors \subseteq Crew
  BY <1>1, ActiveCrew DEF Active, Errors
<1>4. \A t \in Target : t \in Nat /\ \A i \in Place(t) : i \in Nat
  BY DEF Target, Place
<1>5. pc[w] # "out" /\ w \notin Errors
  BY <1>1 DEF Busy, Pool, Failures
<1>6. CASE Fail(w)
  <2>1. \A v \in Crew : /\ pc'[v] = IF v = w THEN "out" ELSE pc[v]
                        /\ result'[v] = IF v = w THEN "error" ELSE result[v]
    BY <1>6 DEF Fail, Goto, Typed, TypeOK
  <2>2. file' = file /\ Errors' = Errors \cup {w} /\ ~Busy(w)'
        /\ \A v \in Crew : v # w => (Busy(v)' <=> Busy(v))
    BY <1>6, <2>1 DEF Fail, Errors, Busy
  <2>3. Held' /\ OneWriter' /\ Untouched'
    BY <1>1, <2>2 DEF Pool, Held, OneWriter, Untouched
  <2>4. Failures'
    BY <1>1, <1>2, <1>3, <2>1, <2>2 DEF Pool, Failures
  <2>5. Accounted' /\ Leaves'
    BY <2>2 DEF Accounted, Leaves
  <2> QED
    BY <2>3, <2>4, <2>5 DEF Pool
<1>7. ASSUME NEW label, Goto(w, label), label \in {"ask", "finish", "fail"},
             UNCHANGED <<failed, result, file>>
      PROVE  Pool'
  BY <1>1, <1>5, <1>7, Quiet
<1>8. ASSUME NEW label, NEW new, Goto(w, label), UNCHANGED <<failed, result>>,
             file' = [file EXCEPT ![target][job[w]] = new],
             \/ new = "partial" /\ label \in {"ask", "finish"}
             \/ new = "whole" /\ label = "look"
      PROVE  Pool'
  <2>1. \A v \in Crew : pc'[v] = IF v = w THEN label ELSE pc[v]
    BY <1>8 DEF Goto, Typed, TypeOK
  <2>2. /\ file'[target][job[w]] = new
        /\ \A i \in Place(target) : i # job[w] => file'[target][i] = file[target][i]
        /\ \A t \in Target : t # target => file'[t] = file[t]
    BY <1>1, <1>8, FileWritten
  <2>3. /\ Busy(w)' <=> new = "partial"
        /\ \A v \in Crew : v # w => (Busy(v)' <=> Busy(v))
        /\ Errors' = Errors /\ \A v \in Crew : pc'[v] = "out" <=> pc[v] = "out"
    BY <1>5, <1>8, <2>1 DEF Busy, Errors
  <2>4. Held'
    BY <1>1, <1>2, <2>2, <2>3 DEF Pool, Held
  <2>5. OneWriter'
    BY <1>1, <2>3 DEF Pool, OneWriter, Busy
  <2>6. Failures'
    <3>1. \A v \in Errors : job[v] # job[w] /\ job[v] \in Place(target)
      BY <1>1 DEF Pool, Failures
    <3>2. \A v \in Crew : Busy(v)' => Busy(v)
      BY <1>1, <2>3
    <3> QED
      BY <1>1, <1>3, <2>2, <2>3, <3>1, <3>2 DEF Pool, Failures
  <2>7. Accounted'
    <3> SUFFICES ASSUME NEW i \in Place(target), i < next, Errors = {}
                 PROVE  file'[target][i] = "whole" \/ \E v \in Crew : Busy(v)' /\ job[v] = i
      BY <1>1, <2>3 DEF Accounted
    <3>1. CASE i = job[w]
      BY <1>8, <2>2, <2>3, <3>1
    <3>2. CASE i # job[w]
      BY <1>1, <2>2, <2>3, <3>2 DEF Pool, Accounted
    <3> QED
      BY <3>1, <3>2
  <2>8. Leaves'
    BY <1>1, <1>3, <1>8, <2>3 DEF Pool, Leaves
  <2>9. Untouched'
    BY <1>1, <1>2, <1>4, <2>2 DEF Pool, Untouched
  <2> QED
    BY <2>4, <2>5, <2>6, <2>7, <2>8, <2>9 DEF Pool
<1>9. CASE Create(w)
  BY <1>7, <1>8, <1>9 DEF Create, shared
<1>10. CASE Finish(w)
  BY <1>7, <1>8, <1>10 DEF Finish, shared
<1> QED
  BY <1>6, <1>9, <1>10

\* The pool keeps account of every place under every step.
LEMMA PoolPreserved == IInv /\ [Next]_vars => Pool'
<1> SUFFICES ASSUME IInv, [Next]_vars PROVE Pool'
  OBVIOUS
<1>0. Typed /\ Stages /\ Pool /\ Held /\ target \in Nat
  BY PackagesAssumption DEF IInv, Pool, Typed, TypeOK
<1>1. CASE Hash \/ UNCHANGED vars
  <2>1. UNCHANGED <<stage, target, next, failed, pc, job, result, file>>
    BY <1>1 DEF Hash, vars, shared
  <2> QED
    BY <1>0, <2>1 DEF Pool, Held, OneWriter, Busy, Failures, Accounted, Leaves,
       Untouched, Errors, Active
<1>2. CASE Derive \/ Check
  <2>1. /\ stage \in {"derive", "open"} /\ stage' # "work"
        /\ UNCHANGED <<target, pc, file>>
    BY <1>2 DEF Derive, Check, Give
  <2>2. \A w \in Crew : pc'[w] = "out"
    BY <1>0, <2>1 DEF Stages
  <2> QED
    BY <1>0, <2>1, <2>2, Resting
<1>3. CASE Open
  <2>1. stage = "open" /\ target \in Target /\ UNCHANGED <<target, file>>
    BY <1>3 DEF Open
  <2>2. CASE stage' = "work"
    <3>1. /\ next' = 1 /\ failed' = FALSE /\ result' = [w \in Crew |-> "ok"]
          /\ pc' = [w \in Crew |-> IF w \in Active THEN "look" ELSE "out"]
      BY <1>3, <2>2 DEF Open, Give
    <3>2. \A w \in Crew : ~Busy(w)' /\ result'[w] = "ok"
      BY <3>1 DEF Busy
    <3>3. Errors' = {}
      BY <3>2 DEF Errors
    <3>4. \A i \in Place(target) : i >= 1
      BY QueueLength, <2>1 DEF Place
    <3>5. Active' = Active /\ Active \subseteq Crew
      BY <2>1, ActiveCrew DEF Active
    <3>6. Held' /\ OneWriter' /\ Failures'
      BY <3>2, <3>3 DEF Held, OneWriter, Failures
    <3>7. Accounted'
      BY <2>1, <3>1, <3>4 DEF Accounted, Place
    <3>8. Leaves'
      BY <3>1, <3>5 DEF Leaves
    <3>9. Untouched'
      BY <1>0, <2>1, <2>2 DEF Pool, Untouched
    <3> QED
      BY <3>6, <3>7, <3>8, <3>9 DEF Pool
  <2>3. CASE stage' # "work"
    <3>1. pc' = pc
      BY <1>3, <2>3 DEF Open
    <3> QED
      BY <1>0, <2>1, <2>3, <3>1, Resting DEF Stages
  <2> QED
    BY <2>2, <2>3
<1>4. CASE Collect
  <2>1. /\ \A w \in Crew : pc'[w] = "out"
        /\ file' = file
        /\ \/ stage' = "open" /\ target' = target + 1
           \/ stage' = "ioError" /\ target' = target
    BY <1>4 DEF Collect, Give
  <2> QED
    BY <1>0, <2>1, Resting
<1>5. ASSUME NEW w \in Crew, Work(w) PROVE Pool'
  <2>1. CASE Claim(w)
    BY <1>0, <2>1, ClaimPreserves
  <2>2. CASE Create(w) \/ Finish(w) \/ Fail(w)
    BY <1>0, <2>2, WritePreserves
  <2>3. CASE Look(w) \/ Ask(w) \/ Join(w)
    <3>1. /\ UNCHANGED <<stage, target, next, failed, job, result, file>>
          /\ stage = "work" /\ target \in Target /\ pc[w] # "out"
      <4>1. stage = "work" /\ target \in Target /\ pc[w] # "out"
        BY <1>0, <1>5, WorkerStep
      <4> QED
        BY <2>3, <4>1 DEF Look, Ask, Join, shared
    <3>2. CASE \E label \in {"claim", "join", "finish"} :
                 Goto(w, label) /\ (Busy(w) <=> label # "claim")
      BY <1>0, <3>1, <3>2, Quiet
    <3>3. CASE pc[w] = "look" /\ failed /\ Goto(w, "out")
      <4>1. \A v \in Crew : pc'[v] = IF v = w THEN "out" ELSE pc[v]
        BY <1>0, <3>3 DEF Goto, Typed, TypeOK
      <4>2. \A v \in Crew : Busy(v)' <=> Busy(v)
        BY <3>3, <4>1 DEF Busy
      <4>3. Errors' = Errors /\ Errors \subseteq Crew /\ Errors # {}
        BY <1>0, <3>1, <3>3 DEF Errors, Pool, Leaves
      <4>4. Held' /\ OneWriter' /\ Untouched'
        BY <1>0, <3>1, <4>2 DEF Pool, Held, OneWriter, Untouched
      <4>5. Failures'
        BY <1>0, <3>1, <4>1, <4>2, <4>3 DEF Pool, Failures
      <4>6. Accounted' /\ Leaves'
        BY <4>3 DEF Accounted, Leaves
      <4> QED
        BY <4>4, <4>5, <4>6 DEF Pool
    <3> QED
      BY <2>3, <3>2, <3>3 DEF Look, Ask, Join, Busy
  <2> QED
    BY <1>5, <2>1, <2>2, <2>3 DEF Work
<1> QED
  BY <1>1, <1>2, <1>3, <1>4, <1>5 DEF Next, Command

\* Only Create sends a worker to the digest, for a manifest, and a worker that
\* waits keeps its job.
LEMMA AskingPreserved == IInv /\ [Next]_vars => Asking'
<1> SUFFICES ASSUME IInv, [Next]_vars PROVE Asking'
  OBVIOUS
<1>0. Typed /\ Stages /\ Held /\ Asking
  BY DEF IInv, Pool
<1>1. CASE Hash \/ Derive \/ Check \/ UNCHANGED vars
  <2>1. UNCHANGED <<pc, job, target>>
    BY <1>1 DEF Hash, Derive, Check, vars
  <2> QED
    BY <1>0, <2>1 DEF Asking, Queue
<1>2. CASE Open
  <2>1. UNCHANGED <<job, target>> /\ \A w \in Crew : pc'[w] = pc[w] \/ pc'[w] \in {"look", "out"}
    BY <1>2 DEF Open
  <2> QED
    BY <1>0, <2>1 DEF Asking, Queue
<1>3. CASE Collect
  <2>1. \A w \in Crew : pc'[w] = "out"
    BY <1>3 DEF Collect
  <2> QED
    BY <2>1 DEF Asking
<1>4. ASSUME NEW w \in Crew, Work(w) PROVE Asking'
  <2>1. /\ UNCHANGED target
        /\ \A v \in Crew : v # w => pc'[v] = pc[v] /\ job'[v] = job[v]
    BY <1>0, <1>4, WorkerStep
  <2>2. ASSUME pc'[w] \in {"ask", "join"} PROVE Queue[job'[w]].kind = "manifest"
    <3> USE <2>2 DEF Typed, TypeOK
    <3>1. CASE Look(w) \/ Claim(w) \/ Finish(w) \/ Fail(w) \/ Join(w)
      BY <1>0, <3>1 DEF Look, Claim, Finish, Fail, Join, Goto
    <3>2. CASE Create(w)
      BY <1>0, <3>2 DEF Create, Goto
    <3>3. CASE Ask(w)
      BY <1>0, <3>3 DEF Ask, Goto, Asking
    <3> QED
      BY <1>4, <3>1, <3>2, <3>3 DEF Work
  <2>3. \A v \in Crew : pc'[v] \in {"ask", "join"} => Queue[job'[v]].kind = "manifest"
    BY <1>0, <2>1, <2>2 DEF Asking
  <2> QED
    BY <2>1, <2>3 DEF Asking, Queue
<1> QED
  BY <1>1, <1>2, <1>3, <1>4 DEF Next, Command

\* PendingDigest: what a manifest holds is what the hashing thread returned.
LEMMA DigestsPreserved == IInv /\ [Next]_vars => Digests'
<1> SUFFICES ASSUME IInv, [Next]_vars PROVE Digests'
  OBVIOUS
<1>0. Typed /\ Stages /\ Pool /\ Held /\ Digests
  BY DEF IInv, Pool
<1>1. \A t \in Target : manifest[t] \in {None, "ok", "error"}
  BY <1>0 DEF Typed, TypeOK
<1>2. CASE Hash
  <2>1. hashing = "running" /\ UNCHANGED <<target, pc, job, file, manifest, digest>>
    BY <1>2 DEF Hash, shared
  <2>2. \A t \in Target : manifest[t] = None
    BY <1>0, <1>1, <2>1 DEF Digests
  <2> QED
    BY <1>0, <2>1, <2>2 DEF Digests, Queue
<1>3. CASE UNCHANGED vars
  BY <1>0, <1>3 DEF vars, shared, Digests, Queue
<1>4. CASE Command
  <2>1. /\ UNCHANGED <<file, manifest, hashing>>
        /\ digest' \in {digest, hashing}
    BY <1>4 DEF Command, Derive, Open, Collect, Check
  <2>2. \A w \in Crew : pc'[w] # "finish"
    <3>1. \/ pc' = pc /\ \A w \in Crew : pc[w] = "out"
          \/ pc' = [w \in Crew |-> IF w \in Active THEN "look" ELSE "out"]
      BY <1>0, <1>4 DEF Command, Derive, Open, Collect, Check, Give, Stages
    <3> QED
      BY <3>1
  <2> QED
    BY <1>0, <2>1, <2>2 DEF Digests
<1>5. ASSUME NEW w \in Crew, Work(w) PROVE Digests'
  <2>1. /\ target \in Target /\ UNCHANGED <<target, hashing>> /\ pc[w] # "out"
        /\ \A v \in Crew : v # w => pc'[v] = pc[v] /\ job'[v] = job[v]
    BY <1>0, <1>5, WorkerStep
  <2>2. Queue' = Queue /\ Queue = Queues[target]
    BY <2>1 DEF Queue
  <2>3. CASE Look(w) \/ Claim(w) \/ Fail(w)
    <3>1. UNCHANGED <<file, manifest, digest>>
      BY <2>3 DEF Look, Claim, Fail
    <3>2. pc'[w] # "finish"
      BY <1>0, <2>3 DEF Look, Claim, Fail, Goto, Typed, TypeOK
    <3> QED
      BY <1>0, <2>1, <2>2, <3>1, <3>2 DEF Digests
  <2>4. CASE Create(w)
    <3>1. UNCHANGED <<manifest, digest, job>> /\ Busy(w)
      BY <2>4 DEF Create, Busy
    <3>2. pc'[w] = "finish" => Queue[job[w]].kind # "manifest"
      BY <1>0, <2>4 DEF Create, Goto, Typed, TypeOK
    <3>3. \A t \in Target : \A i \in Place(t) :
            file'[t][i] = "whole" => file[t][i] = "whole"
      <4>1. CASE file' = file
        BY <4>1
      <4>2. CASE file' = [file EXCEPT ![target][job[w]] = "partial"]
        BY <1>0, <2>1, <3>1, <4>2, FileWritten
      <4> QED
        BY <2>4, <4>1, <4>2 DEF Create
    <3> QED
      BY <1>0, <2>1, <2>2, <3>1, <3>2, <3>3 DEF Digests
  <2>5. CASE Ask(w) \/ Join(w)
    <3>1. file' = file /\ job' = job
      BY <2>5 DEF Ask, Join
    <3>2. CASE manifest' = manifest /\ digest' = "joining" /\ Goto(w, "join")
      <4>1. pc'[w] # "finish"
        BY <1>0, <3>2 DEF Goto, Typed, TypeOK
      <4> QED
        BY <1>0, <2>1, <2>2, <3>1, <3>2, <4>1 DEF Digests
    <3>3. CASE /\ manifest' = [manifest EXCEPT ![target] = hashing]
               /\ hashing # "running" /\ digest' = hashing
      <4>1. /\ \A t \in Target :
                 manifest'[t] = IF t = target THEN hashing ELSE manifest[t]
            /\ hashing # None
        BY <1>0, <2>1, <3>3, NoneAssumption DEF Typed, TypeOK
      <4> QED
        BY <1>0, <2>1, <2>2, <3>1, <3>3, <4>1 DEF Digests
    <3> QED
      BY <1>0, <2>5, <3>2, <3>3 DEF Ask, Join, Digests
  <2>6. CASE Finish(w)
    <3>1. UNCHANGED <<manifest, digest, job>> /\ Busy(w) /\ pc[w] = "finish"
      BY <2>6 DEF Finish, Busy
    <3>2. pc'[w] # "finish"
      BY <1>0, <2>6 DEF Finish, Goto, Typed, TypeOK
    <3>3. \A t \in Target : \A i \in Place(t) :
            file'[t][i] = "whole" =>
              file[t][i] = "whole" \/ (t = target /\ i = job[w])
      <4>1. CASE file' = file
        BY <4>1
      <4>2. CASE file' = [file EXCEPT ![target][job[w]] = "whole"]
        BY <1>0, <2>1, <3>1, <4>2, FileWritten
      <4> QED
        BY <2>6, <4>1, <4>2 DEF Finish
    <3> QED
      BY <1>0, <2>1, <2>2, <3>1, <3>2, <3>3 DEF Digests
  <2> QED
    BY <1>5, <2>3, <2>4, <2>5, <2>6 DEF Work
<1> QED
  BY <1>2, <1>3, <1>4, <1>5 DEF Next

\* PendingDigest::digest: the thread is joined by whoever finds the lock unset.
LEMMA OncePreserved == IInv /\ [Next]_vars => Once'
<1> SUFFICES ASSUME IInv, [Next]_vars PROVE Once'
  OBVIOUS
<1>0. Typed /\ Stages /\ Held /\ Once /\ joins \in Nat
  BY DEF IInv, Pool, Typed, TypeOK
<1>1. CASE Hash \/ UNCHANGED vars
  BY <1>0, <1>1 DEF Hash, vars, Once, JoinedOnce
<1>2. CASE Command
  <2>1. \/ digest' = digest /\ joins' = joins
        \/ /\ digest' = hashing
           /\ joins' = IF digest = "unset" THEN joins + 1 ELSE joins
    BY <1>2 DEF Command, Derive, Open, Collect, Check
  <2>2. \A w \in Crew : pc'[w] # "join"
    <3>1. \/ pc' = pc /\ \A w \in Crew : pc[w] = "out"
          \/ pc' = [w \in Crew |-> IF w \in Active THEN "look" ELSE "out"]
      BY <1>0, <1>2 DEF Command, Derive, Open, Collect, Check, Give, Stages
    <3> QED
      BY <3>1
  <2> QED
    BY <1>0, <2>1, <2>2 DEF Once, JoinedOnce, Typed, TypeOK
<1>3. ASSUME NEW w \in Crew, Work(w) PROVE Once'
  <2>1. \A v \in Crew : v # w => pc'[v] = pc[v]
    BY <1>0, <1>3, WorkerStep
  <2>2. CASE digest' = digest /\ joins' = joins /\ pc'[w] # "join"
    BY <1>0, <2>1, <2>2 DEF Once, JoinedOnce
  <2>3. CASE digest = "unset" /\ digest' = "joining" /\ joins' = joins + 1
    BY <1>0, <2>3 DEF Once, JoinedOnce
  <2>4. CASE Join(w)
    BY <1>0, <2>4 DEF Join, Once, JoinedOnce, Typed, TypeOK
  <2> QED
    BY <1>0, <1>3, <2>2, <2>3, <2>4
    DEF Work, Look, Claim, Create, Ask, Finish, Fail, Goto, Typed, TypeOK
<1> QED
  BY <1>1, <1>2, <1>3 DEF Next

\* write_files: a package is left behind whole, or with an error.
LEMMA SuccessPreserved == IInv /\ [Next]_vars => SuccessIsWhole'
<1> SUFFICES ASSUME IInv, [Next]_vars PROVE SuccessIsWhole'
  OBVIOUS
<1>0. Typed /\ Stages /\ Pool /\ Held /\ Digests /\ SuccessIsWhole
  BY DEF IInv, Pool
<1>1. /\ target \in Nat /\ Len(Packages) \in Nat /\ \A t \in Target : t \in Nat
      /\ target <= Len(Packages) + 1
  BY <1>0, PackagesAssumption DEF Typed, TypeOK, Target
<1>2. CASE Hash \/ UNCHANGED vars
  <2>1. UNCHANGED <<stage, target, file, manifest, reported>>
    BY <1>2 DEF Hash, vars
  <2> QED
    BY <1>0, <2>1 DEF SuccessIsWhole, Queue
<1>3. CASE Derive \/ Open
  <2>1. /\ UNCHANGED <<target, file, manifest, reported>> /\ stage' # "ok"
        /\ stage \in {"derive", "open"}
    BY <1>3 DEF Derive, Open, Give
  <2>2. reported' = None
    BY <1>0, <2>1 DEF Stages
  <2> QED
    BY <1>0, <2>1, <2>2 DEF SuccessIsWhole
<1>4. CASE Check
  <2>1. /\ UNCHANGED <<target, file, manifest, reported>>
        /\ target = Len(Packages) + 1 /\ stage = "open"
        /\ stage' = IF hashing = "ok" THEN "ok" ELSE "notHashed"
    BY <1>4 DEF Check
  <2>2. \A t \in Target : t < target
    BY <1>1, <2>1 DEF Target
  <2>3. ASSUME hashing = "ok", NEW t \in Target, NEW i \in 1..Len(Packages[t]),
               Queues[t][i].kind = "manifest"
        PROVE  manifest[t] = "ok"
    <3>1. file[t][i] = "whole"
      BY <1>0, <2>2, <2>3 DEF SuccessIsWhole
    <3> QED
      BY <1>0, <2>3, <3>1 DEF Digests, Place
  <2>4. reported' = None
    BY <1>0, <2>1 DEF Stages
  <2> QED
    BY <1>0, <1>1, <2>1, <2>3, <2>4 DEF SuccessIsWhole
<1>5. CASE Collect
  <2>1. /\ UNCHANGED <<file, manifest>> /\ stage = "work" /\ target \in Target
        /\ stage' # "ok" /\ \A w \in Crew : pc[w] = "out"
    BY <1>0, <1>5 DEF Collect, Give, Stages
  <2>2. Len(Queue) = Len(Packages[target])
    BY <2>1, QueueLength DEF Queue
  <2>3. CASE Errors = {}
    <3>1. target' = target + 1 /\ stage' = "open"
      BY <1>5, <2>3 DEF Collect
    <3>2. next > Len(Packages[target]) /\ Len(Packages[target]) \in Nat
      <4>1. 1 \in Active /\ 1 \in Crew
        BY <2>1, ActiveCrew
      <4> QED
        BY <1>0, <2>1, <2>3, <4>1, QueueLength DEF Pool, Leaves
    <3>3. ASSUME NEW i \in 1..Len(Packages[target]) PROVE file[target][i] = "whole"
      <4>1. i < next /\ i \in Place(target)
        BY <1>0, <3>2 DEF Place, Typed, TypeOK
      <4> QED
        BY <1>0, <2>1, <2>3, <4>1 DEF Pool, Accounted, Busy
    <3> QED
      BY <1>0, <1>1, <2>1, <3>1, <3>3 DEF SuccessIsWhole
  <2>4. CASE Errors # {}
    <3>1. target' = target /\ Queue' = Queue
      BY <1>5, <2>4 DEF Collect, Queue
    <3>2. PICK w \in Errors : TRUE
      BY <2>4
    <3>3. job[w] \in 1..Len(Queue) /\ file[target][job[w]] # "whole"
      BY <1>0, <2>1, <2>2, <3>2 DEF Pool, Failures, Place
    <3> QED
      BY <1>0, <2>1, <3>1, <3>3 DEF SuccessIsWhole
  <2> QED
    BY <2>3, <2>4
<1>6. ASSUME NEW w \in Crew, Work(w) PROVE SuccessIsWhole'
  <2>1. /\ stage' = "work" /\ target' = target
        /\ \A t \in Target : t # target => file'[t] = file[t]
    BY <1>0, <1>6, WorkerStep
  <2> QED
    BY <1>0, <1>1, <2>1 DEF SuccessIsWhole
<1> QED
  BY <1>2, <1>3, <1>4, <1>5, <1>6 DEF Next, Command

-----------------------------------------------------------------------------
\* The invariant holds in every reachable state.
THEOREM Invariance == Spec => []IInv
<1>1. IInv /\ [Next]_vars => IInv'
  BY TypePreserved, StagesPreserved, PoolPreserved, AskingPreserved,
     DigestsPreserved, OncePreserved, SuccessPreserved DEF IInv
<1> QED
  BY InitIInv, <1>1, PTL DEF Spec

\* Every variable keeps its type.
THEOREM TypeCorrect == Spec => []TypeOK
<1>1. IInv => TypeOK
  BY DEF IInv, Typed
<1> QED
  BY Invariance, <1>1, PTL

\* next.fetch_add: no two workers ever write the same file.
THEOREM WritersAreApart == Spec => []OneWriter
<1>1. IInv => OneWriter
  BY DEF IInv, Pool
<1> QED
  BY Invariance, <1>1, PTL

\* write_files, generate_providers: success means that every file is whole and
\* every manifest has the digest, and a worker's error that a file is not.
THEOREM SuccessMeansWhole == Spec => []SuccessIsWhole
<1>1. IInv => SuccessIsWhole
  BY DEF IInv
<1> QED
  BY Invariance, <1>1, PTL

\* SchemaDigest: whoever waits for the digest renders the manifest, and all
\* modules of the package were claimed before it.
THEOREM ManifestComesLast == Spec => []ManifestAfterModules
<1>1. IInv => ManifestAfterModules
  <2> SUFFICES ASSUME IInv, NEW w \in Crew, pc[w] \in {"ask", "join"},
                      NEW i \in 1..Len(Queue), Queue[i].kind = "module"
               PROVE  i < next
    BY DEF ManifestAfterModules
  <2>1. target \in Target /\ next \in Nat
    BY DEF IInv, Stages, Typed, TypeOK
  <2>2. i \in Place(target)
    BY <2>1, QueueLength DEF Queue, Place
  <2>3. job[w] \in Place(target) /\ job[w] < next
    BY DEF IInv, Pool, Held, Busy
  <2>4. Queue[job[w]].kind = "manifest"
    BY DEF IInv, Asking
  <2>5. i < job[w]
    BY <2>1, <2>2, <2>3, <2>4, ManifestIsLast DEF Queue
  <2> QED
    BY <2>1, <2>2, <2>3, <2>5 DEF Place
<1> QED
  BY Invariance, <1>1, PTL

\* write_files sorts its jobs and drops none of them: a command that succeeds
\* has written every file of every package to the end.
EveryJobWritten ==
  stage = "ok" => \A t \in Target : \A k \in Place(t) :
    \E i \in Place(t) : Queues[t][i] = Packages[t][k] /\ file[t][i] = "whole"

THEOREM SuccessWritesEveryJob == Spec => []EveryJobWritten
<1>1. IInv => EveryJobWritten
  <2> SUFFICES ASSUME IInv, stage = "ok", NEW t \in Target, NEW k \in Place(t)
               PROVE  \E i \in Place(t) : Queues[t][i] = Packages[t][k] /\ file[t][i] = "whole"
    BY DEF EveryJobWritten
  <2>1. t < target
    BY PackagesAssumption DEF IInv, SuccessIsWhole, Typed, TypeOK, Target
  <2>2. \A i \in Place(t) : file[t][i] = "whole"
    BY <2>1 DEF IInv, SuccessIsWhole, Place
  <2> QED
    BY <2>2, NothingDropped
<1> QED
  BY Invariance, <1>1, PTL

\* PendingDigest: the hashing thread is never joined twice.
THEOREM ThreadJoinedOnce == Spec => []JoinedOnce
<1>1. IInv => JoinedOnce
  BY DEF IInv, Once
<1> QED
  BY Invariance, <1>1, PTL
=============================================================================
