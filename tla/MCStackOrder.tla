---------------------------- MODULE MCStackOrder ----------------------------
(***************************************************************************)
(* Four stacks that read up to two of the others, in either order; one of  *)
(* them may also read itself, another one a name that is not declared.     *)
(***************************************************************************)
EXTENDS StackOrder

CONSTANTS apps, data, edge, core, ghost

Declared == {apps, data, edge, core}
ByName   == <<apps, core, data, edge>>

Lists(s) == {<<>>} \cup {<<a>> : a \in Declared \ {s}}
              \cup {p \in (Declared \ {s}) \X (Declared \ {s}) : p[1] # p[2]}

Reading == [s \in Declared |->
              Lists(s) \cup (CASE s = apps -> {<<apps>>, <<core, apps>>}
                               [] s = data -> {<<ghost>>}
                               [] OTHER -> {})]
=============================================================================
