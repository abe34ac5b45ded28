----------------------------- MODULE ApplyOrder -----------------------------
(***************************************************************************)
(* What `inframe build` promises of the apply order it prints: stacks are  *)
(* placed one at a time, each after every stack it reads, until all are;   *)
(* and the only reading that gets no order is one that no order deploys,   *)
(* because some stacks can only be placed after one another.               *)
(***************************************************************************)
EXTENDS Naturals, Sequences, FiniteSets

CONSTANT Stack

VARIABLES reads,    \* the stacks each stack reads
          order,    \* the stacks placed so far
          answer    \* what the user is told

vars == <<reads, order, answer>>

Placed == {order[i] : i \in 1..Len(order)}

\* Each stack of S waits for another one of S.
Deadlocked(S) == S # {} /\ \A s \in S : reads[s] \cap S # {}

Init ==
  /\ reads \in [Stack -> SUBSET Stack]
  /\ order = <<>>
  /\ answer = "pending"

Place ==
  /\ answer = "pending"
  /\ \E s \in Stack \ Placed : reads[s] \subseteq Placed /\ order' = Append(order, s)
  /\ UNCHANGED <<reads, answer>>

Announce ==
  /\ answer = "pending" /\ Placed = Stack
  /\ answer' = "ordered"
  /\ UNCHANGED <<reads, order>>

Refuse ==
  /\ answer = "pending"
  /\ \E S \in SUBSET Stack : Deadlocked(S)
  /\ answer' = "cycle"
  /\ UNCHANGED <<reads, order>>

\* Some stack does not build, or reads what it may not; nothing is ordered.
Decline ==
  /\ answer = "pending" /\ order = <<>>
  /\ answer' = "notBuilt"
  /\ UNCHANGED <<reads, order>>

Next == Place \/ Announce \/ Refuse \/ Decline

Spec == Init /\ [][Next]_vars

\* ... and an answer is given.
FairSpec == Spec /\ WF_vars(Next)
=============================================================================
