----------------------------- MODULE MCDocument -----------------------------
(***************************************************************************)
(* Programs of a few declarations out of a menu that holds at least one    *)
(* declaration for every rule of the validators, documents written by hand *)
(* and all expressions of a small grammar.                                 *)
(***************************************************************************)
EXTENDS Meaning

MCIdentifiers == {"t", "a", "b", "k", "p", "f", "data", "var", "net", "self", RemoteState}
MCEnvironmentNames == {"E"}
MCSegments == [name \in {"data.t"} |-> <<"data", "t">>]
MCOutOfRange == {"1e999"}

A == Address(TRUE, "t", "a")
B == Address(TRUE, "t", "b")
D == Address(FALSE, "t", "a")
Net == StackAddress("net")
Bad == Address(TRUE, "t", "!")
LikeD == Address(TRUE, "data.t", "a")

One == Named("scalar", "1", <<>>)
Lit(characters) == String(characters)
Arguments(value) == Of("object", Entry("k", value))
NoArguments == Of("object", <<>>)
Twice == Of("object", Entry("k", Ref(Bad, <<"k">>)) \o Entry("k", Ref(A, <<"k">>)))
Deep == Of("array", <<Of("array", <<Of("array", <<Ref(Net, <<"k">>)>>)>>)>>)

Resource(block) == [op |-> "resource", block |-> block]
Data(block) == [op |-> "dataSource", block |-> block]
Plainly(at, arguments) == Block(at, arguments, <<>>, <<>>, <<>>)
Provider(provider, alias, arguments) ==
  [op |-> "provider", config |-> [provider |-> provider, alias |-> alias, arguments |-> arguments]]
Output(name, value) == [op |-> "output", output |-> [name |-> name, value |-> value]]
Moved(from, to) == [op |-> "moved", move |-> [from |-> from, to |-> to]]
Adopt(to, id) == [op |-> "adopt", import |-> [to |-> to, id |-> id]]
ReadStack(stack) == [op |-> "read", stack |-> stack]

Misplaced(at) == [Ref(at, <<>>) EXCEPT !.kind = IF at.managed THEN "dataRef" ELSE "ref"]

MCMenu ==
  {Resource(Plainly(A, NoArguments)), Resource(Plainly(A, Arguments(Ref(B, <<"k">>)))),
   Resource(Plainly(B, Arguments(Ref(A, <<"k">>)))), Resource(Plainly(B, Twice)),
   Resource(Plainly(Bad, NoArguments)), Resource(Plainly(A, Arguments(Deep))),
   Resource(Block(A, Arguments(One), <<B>>, <<>>, <<>>)),
   Resource(Block(B, NoArguments, <<B>>, <<>>, <<>>)),
   Resource(Block(B, NoArguments, <<>>, <<>>, <<B>>)),
   Resource(Block(B, NoArguments, <<>>, <<>>, <<A>>)),
   Resource(Block(B, NoArguments, <<>>, <<>>, <<D>>)),
   Resource(Block(B, NoArguments, <<LikeD>>, <<>>, <<>>)),
   Resource(Block(B, Of("object", Entry("depends_on", One)), <<A>>, <<"p">>, <<>>)),
   Data(Block(D, Arguments(Named("secret", "E", <<>>)), <<A>>, <<>>, <<>>)),
   Data(Block(D, Arguments(Ref(Net, <<"k">>)), <<>>, <<"p", "b">>, <<>>)),
   Data(Block(Net, NoArguments, <<>>, <<"p", "b", "a">>, <<>>)), Data(Plainly(Net, NoArguments)),
   Provider("p", <<>>, Arguments(Named("secret", "E", <<>>))),
   Provider("p", <<"b">>, Of("object", Entry("alias", One) \o Entry("k", Ref(A, <<"k">>)))),
   Provider("!", <<>>, Twice),
   Output("a", Ref(Net, <<"k">>)), Output("!", One),
   Output("a", Of("map", Entry("k", One) \o Entry("k", One))),
   Output("a", Misplaced(A)), Output("b", Misplaced(D)), Output("a", Ref(A, <<"!">>)),
   Output("b", Named("secret", "!", <<>>)), Output("b", Named("function", "!", <<One>>)),
   Output("b", Named("scalar", "1e999", <<>>)),
   Moved(B, A), Moved(LikeD, D), Moved(Bad, A),
   Adopt(A, "k"), Adopt(Bad, "k"), Adopt(A, " "), Adopt(A, "nbsp"), Adopt(D, "k"),
   ReadStack("net"), ReadStack("self"), ReadStack("!")}

\* A resource, and a move to it from what is no address.
MovedMenu == {Resource(Plainly(A, NoArguments)), Moved(Bad, A)}

MCHandwritten ==
  {[NoGraph EXCEPT !.version = "2"], [NoGraph EXCEPT !.stacks = <<"net">>],
   [NoGraph EXCEPT !.outputs = <<[name |-> "a", value |-> Named("raw", "k", <<>>)]>>],
   [NoGraph EXCEPT !.outputs = <<[name |-> "a", value |-> Of("raw", <<>>)]>>]}

\* Expressions: leaves, one and two levels above them.
Secret == Named("secret", "E", <<>>)
Whole == Ref(D, <<"k">>)
Leaves == {One, Secret, Whole, Lit(<<"k">>), Lit(<<"$", "{", "k", "}">>)}
Hole(e) == Of("hole", <<e>>)
Above(E) ==
  {Of("splat", <<e>>) : e \in E} \cup {Named("attribute", "k", <<e>>) : e \in E}
    \cup {Named("function", "f", <<e, One>>) : e \in E} \cup {Of("array", <<e, One>>) : e \in E}
    \cup {Of("object", <<Lit(<<"$", "{">>), e>>) : e \in E}
    \cup {Of("index", <<Whole, e>>) : e \in E} \cup {Of("index", <<e, One>>) : e \in E}
    \cup {Of("conditional", <<e, One, Whole>>) : e \in E}
    \cup {Of("conditional", <<Whole, e, One>>) : e \in E}
    \cup {Of("conditional", <<Whole, One, e>>) : e \in E}
    \cup {Of("template", <<Lit(<<"k">>), Hole(e)>>) : e \in E}
Characters == {"$", "%", "{", "k", "\""}
Strings == {Lit(text) : text \in {<<>>} \cup TupleOf(Characters, 2) \cup TupleOf({"$", "{"}, 3)}
Seams == {Of("template", <<text, part>>) :
            text \in Strings, part \in {Hole(Whole)} \cup {Lit(<<c>>) : c \in Characters}}
Literals == {Of("list", <<One, Of("map", <<s, s>>)>>) : s \in Strings}

Shallow == Leaves \cup Above(Leaves)
MCExpressions ==
  Shallow \cup {e \in Above(Shallow) : References(e) # {}} \cup Strings \cup Literals
    \cup Seams \cup {Named("function", "f", <<e>>) : e \in Strings \cup Literals \cup Seams}
MCShown == {[name |-> "a", value |-> e] : e \in MCExpressions}

MCScene == Declared(NoGraph, Data(Plainly(D, NoArguments)))

MCBackend == [stack \in {"net", "self"} |->
                [kind |-> Lit(<<"local">>), config |-> Of("map", Entry("path", Lit(<<"k">>)))]]
=============================================================================
