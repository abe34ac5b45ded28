----------------------------- MODULE MCGenerate -----------------------------
(***************************************************************************)
(* A provider with a PureScript and a Lean package, in the order the       *)
(* emitters list their files: the modules, the manifest, the text files.   *)
(* The Lean root module has no weight; neither has a provider without      *)
(* arguments.                                                              *)
(***************************************************************************)
EXTENDS Generate

File(kind, weight) == [kind |-> kind, weight |-> weight]

PureScript == <<File("module", 1), File("module", 3), File("manifest", 0),
                File("text", 0)>>
Lean == <<File("module", 0), File("module", 2), File("manifest", 0)>>

BothFrontends == <<PureScript, Lean>>
=============================================================================
