---------------------------- MODULE MCCycleCheck ----------------------------
(***************************************************************************)
(* Four addresses.  Each refers to up to two of them, itself included; the *)
(* first one in any order and with repeats; the last may name one address  *)
(* explicitly too.                                                         *)
(***************************************************************************)
EXTENDS CycleCheck

Program == <<3, 1, 4, 2>>

Lists == {<<>>} \cup {<<a>> : a \in Node}
Pairs == {<<a, b>> : a, b \in Node}

Reading == [n \in Node |-> Lists \cup (IF n = 1 THEN Pairs
                                       ELSE {p \in Pairs : p[1] > p[2]})]
Naming  == [n \in Node |-> IF n = 4 THEN {<<>>, <<1>>, <<4>>} ELSE {<<>>}]
=============================================================================
