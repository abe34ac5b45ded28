----------------------------- MODULE MCRollout -----------------------------
(***************************************************************************)
(* Two stacks, `app` reading `net`, under configurations that differ in    *)
(* frontends, backends, directories and providers, and some that do not    *)
(* load; workspaces by default, relative and absolute.                     *)
(***************************************************************************)
EXTENDS Rollout

Absolute(parts) == Path(TRUE, parts)
MCCwd == Absolute(<<"home", "work">>)
MCRoot == Relative(<<"..", "infra">>)
MCReads == [app |-> {"net"}, net |-> {}]
MCBases == {<<>>, <<Relative(<<"w", ".">>)>>, <<Absolute(<<"home", "work", "w">>)>>}

\* Parts of configurations.
PureScript(directory) ==
  <<[package |-> "infra", main |-> "Main", test |-> <<>>, directory |-> Relative(directory)]>>
NoCore == [path |-> <<>>, git |-> <<>>, rev |-> <<>>, subdir |-> <<>>]
CoreAt(path) == [NoCore EXCEPT !.path = <<path>>]
Lean(directory, core) ==
  <<[main |-> "infra", test |-> <<"policies">>, directory |-> Relative(directory), core |-> core]>>

Local(path) == [kind |-> "local", path |-> path,
                values |-> IF path = <<>> THEN {} ELSE {<<"path">>}]
Bucket == [kind |-> "s3", path |-> <<Relative(<<"bucket">>)>>, values |-> {<<"path">>}]
Leaky == [kind |-> "s3", path |-> <<>>, values |-> {<<"role", "secret_key">>}]
Stack(frontend, backend) ==
  [frontend |-> frontend, main |-> <<>>, test |-> <<>>, gate |-> <<>>, backend |-> backend]
Gated(frontend) == [Stack(frontend, Local(<<>>)) EXCEPT !.gate = <<"Gate", "infra", "policy">>]
Provider(output, leanOutput) ==
  [source |-> "hashicorp/aws", version |-> "6.0", output |-> output, leanOutput |-> leanOutput]

Configured(purescript, lean, providers, app, net) ==
  [purescript |-> purescript, lean |-> lean, providers |-> providers,
   workspace |-> Relative(<<".inframe">>), stacks |-> [app |-> app, net |-> net]]

Two == [aws |-> Provider(<<>>, <<>>), gcp |-> Provider(<<>>, <<>>)]
Elsewhere == [aws |-> Provider(<<Relative(<<"out">>)>>, <<Relative(<<"..", "lean", "aws">>)>>)]

Both == Configured(PureScript(<<"ps">>), Lean(<<"lean">>, CoreAt(Relative(<<"..", "core">>))),
                      Two, Stack(<<"lean">>, Local(<<>>)), Stack(<<"purescript">>, Local(<<>>)))
LeanOnly == Configured(<<>>, Lean(<<".">>, CoreAt(Absolute(<<"opt", "core">>))), Elsewhere,
                          Gated(<<>>), Stack(<<>>, Local(<<Relative(<<"..", "net.tfstate">>)>>)))
Remote == Configured(PureScript(<<"ps">>), <<>>, <<>>,
                        [Stack(<<>>, Local(<<>>)) EXCEPT !.test = <<"Test">>], Stack(<<>>, Bucket))
Undecided == Configured(PureScript(<<".">>), Lean(<<".">>, NoCore), Elsewhere,
                           Stack(<<>>, Local(<<>>)), Stack(<<"lean">>, Local(<<>>)))

\* And configurations load refuses.
Refused == {
  [Both EXCEPT !.stacks.app.backend = Leaky],
  [Remote EXCEPT !.stacks.app.frontend = <<"lean">>],
  [Remote EXCEPT !.stacks.net.gate = <<"Gate", "infra", "policy">>],
  [Remote EXCEPT !.stacks.app.test = <<"">>],
  [Undecided EXCEPT !.stacks.app.gate = <<"Gate", "infra", "policy">>],
  [LeanOnly EXCEPT !.lean[1].core = [NoCore EXCEPT !.rev = <<"v1">>]]}

MCConfigs == {Both, LeanOnly, Remote, Undecided} \cup Refused

Request(direct, provider, frontend, output) ==
  [direct |-> direct, provider |-> provider, frontend |-> frontend, output |-> output]
MCRequests == {
  Request(FALSE, <<>>, <<>>, <<>>),
  Request(FALSE, <<"aws">>, <<"lean">>, <<Relative(<<"gen", "..", "..", "out">>)>>),
  Request(FALSE, <<>>, <<"purescript">>, <<Relative(<<"gen">>)>>),
  Request(TRUE, <<"aws">>, <<>>, <<>>),
  Request(TRUE, <<>>, <<"lean">>, <<>>),
  Request(TRUE, <<>>, <<"lean">>, <<Absolute(<<"home", "gen">>)>>)}

MCComponentNames == {"aws", "gcp", "app", "net"}
MCBackendKinds == {"local", "s3"}
MCLeanNames == {"Gate", "infra", "policy"}
MCSecretLike == {"secret_key"}

\* Commands and artifacts share no variable, so no invariant of one can tell where
\* the other stands: a behaviour moves one of them.
Apart == \/ now = 1 /\ artifact = <<>> /\ building = <<>> /\ \A f \in DOMAIN files : files[f].time = 0
         \/ backends = <<>> /\ last = Nothing /\ generated = {} /\ config = Both
=============================================================================
