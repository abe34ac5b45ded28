------------------------------ MODULE Generate ------------------------------
(***************************************************************************)
(* `inframe provider generate` for one provider: while a thread of its own *)
(* hashes the schema (PendingDigest), the bindings are derived and one     *)
(* package per frontend is written, each by a pool of workers that share a *)
(* job counter and a failure flag (write_files).  Worker 1 is the calling  *)
(* thread.  The manifest of a package holds the digest of the schema, so   *)
(* the worker that renders it waits for the hashing thread.                *)
(***************************************************************************)
EXTENDS Naturals, Sequences

CONSTANTS
  Packages,    \* per target, its jobs as the emitter lists them
  Workers,     \* available_parallelism
  None

Job == [kind: {"module", "manifest", "text"}, weight: Nat]

ASSUME PackagesAssumption ==
  /\ Packages \in Seq(Seq(Job))
  /\ \A t \in 1..Len(Packages) : Len(Packages[t]) > 0

\* package_files: the manifest is weightless and listed after the modules.
ASSUME ManifestAssumption ==
  \A t \in 1..Len(Packages) : \A m, i \in 1..Len(Packages[t]) :
    Packages[t][m].kind = "manifest" /\ Packages[t][i].kind = "module" =>
      Packages[t][m].weight = 0 /\ i < m

ASSUME WorkersAssumption == Workers \in Nat \ {0}

ASSUME NoneAssumption == None \notin {"ok", "error"} /\ None \notin 1..Workers

Target == 1..Len(Packages)

VARIABLES
  stage,     \* of the command: derive, open, work, check, or how it ended
  target,    \* the package at hand
  next, failed,       \* what the workers share
  pc, job, result,    \* per worker: where it is, its job, what it returned
  file,      \* per target and place in its queue: old, partial, whole
  manifest,  \* per target: the digest its manifest holds
  hashing,   \* the hashing thread: running, ok, error
  digest,    \* the OnceLock: unset, joining, ok, error
  joins,     \* how often the hashing thread was joined
  first,     \* history: the worker that failed first
  reported   \* the worker whose error the pool returned

shared == <<next, failed>>
vars == <<stage, target, next, failed, pc, job, result, file, manifest,
          hashing, digest, joins, first, reported>>

Min2(a, b) == IF a < b THEN a ELSE b
Crew == 1..Workers
Active == 1..Min2(Workers, Len(Packages[Min2(target, Len(Packages))]))

\* The jobs of target t in the order that Before gives their places.
Arranged(t, Before(_, _)) ==
  LET places == 1..Len(Packages[t])
      perm == CHOOSE p \in [places -> places] :
                \A i, j \in places : i < j => Before(p[i], p[j])
  IN  [i \in places |-> Packages[t][perm[i]]]

\* Fault: the smallest files go first.
SmallestFirst(t) ==
  LET weight(i) == Packages[t][i].weight
      Before(i, j) == weight(i) < weight(j) \/ (weight(i) = weight(j) /\ i < j)
  IN  Arranged(t, Before)

\* jobs.sort_by_key(Reverse(weight)), which keeps the order of equal weights.
Sorted(t) ==
  LET weight(i) == Packages[t][i].weight
      Before(i, j) == weight(i) > weight(j) \/ (weight(i) = weight(j) /\ i < j)
  IN  Arranged(t, Before)

Queues == [t \in Target |-> Sorted(t)]
Queue  == Queues[target]

Init ==
  /\ stage = "derive" /\ target = 1
  /\ next = 1 /\ failed = FALSE
  /\ pc = [w \in Crew |-> "out"]
  /\ job = [w \in Crew |-> 0]
  /\ result = [w \in Crew |-> "ok"]
  /\ file = [t \in Target |-> [i \in 1..Len(Packages[t]) |-> "old"]]
  /\ manifest = [t \in Target |-> None]
  /\ hashing = "running" /\ digest = "unset" /\ joins = 0
  /\ first = None /\ reported = None

-----------------------------------------------------------------------------
\* The hashing thread ends, with the digest or with an error.
Hash ==
  /\ hashing = "running"
  /\ hashing' \in {"ok", "error"}
  /\ UNCHANGED <<stage, target, shared, pc, job, result, file, manifest, digest,
                 joins, first, reported>>

\* An error leaves the scope, which waits for the hashing thread.
Give(up) == hashing # "running" /\ stage' = up

Derive ==
  /\ stage = "derive"
  /\ stage' = "open" \/ Give("notDerived")
  /\ UNCHANGED <<target, shared, pc, job, result, file, manifest, hashing, digest,
                 joins, first, reported>>

\* package_files, the directories, and the start of the pool.
Open ==
  /\ stage = "open" /\ target \in Target
  /\ \/ /\ stage' = "work"
        /\ next' = 1 /\ failed' = FALSE
        /\ pc' = [w \in Crew |-> IF w \in Active THEN "look" ELSE "out"]
        /\ result' = [w \in Crew |-> "ok"]
     \/ /\ Give("notRendered") \/ Give("ioError")
        /\ UNCHANGED <<shared, pc, result>>
  /\ UNCHANGED <<target, job, file, manifest, hashing, digest, joins, first,
                 reported>>

-----------------------------------------------------------------------------
Goto(w, label) == pc' = [pc EXCEPT ![w] = label]

\* while !failed.load(Relaxed): what another worker stored may not show yet.
Look(w) ==
  /\ pc[w] = "look"
  /\ \/ Goto(w, "claim")
     \/ failed /\ Goto(w, "out")
  /\ UNCHANGED <<stage, target, shared, job, result, file, manifest, hashing,
                 digest, joins, first, reported>>

\* Fault: the counter is read and then written back; an update may be lost.
ClaimLoosely(w) ==
  /\ pc[w] = "claim"
  /\ next' \in {next, next + 1}
  /\ IF next <= Len(Queue)
       THEN Goto(w, "create") /\ job' = [job EXCEPT ![w] = next]
       ELSE Goto(w, "out") /\ UNCHANGED job
  /\ UNCHANGED <<stage, target, failed, result, file, manifest, hashing, digest,
                 joins, first, reported>>

\* Fault: a worker that finds no job looks again.
ClaimAgain(w) ==
  /\ pc[w] = "claim"
  /\ IF next <= Len(Queue)
       THEN next' = next + 1 /\ Goto(w, "create") /\ job' = [job EXCEPT ![w] = next]
       ELSE Goto(w, "look") /\ UNCHANGED <<next, job>>
  /\ UNCHANGED <<stage, target, failed, result, file, manifest, hashing, digest,
                 joins, first, reported>>

Claim(w) ==
  /\ pc[w] = "claim"
  /\ next' = next + 1
  /\ IF next <= Len(Queue)
       THEN Goto(w, "create") /\ job' = [job EXCEPT ![w] = next]
       ELSE Goto(w, "out") /\ UNCHANGED job
  /\ UNCHANGED <<stage, target, failed, result, file, manifest, hashing, digest,
                 joins, first, reported>>

\* File::create truncates, or fails and leaves what is there.
Create(w) ==
  /\ pc[w] = "create"
  /\ \/ /\ Goto(w, IF Queue[job[w]].kind = "manifest" THEN "ask" ELSE "finish")
        /\ file' = [file EXCEPT ![target][job[w]] = "partial"]
     \/ Goto(w, "fail") /\ UNCHANGED file
  /\ UNCHANGED <<stage, target, shared, job, result, manifest, hashing, digest,
                 joins, first, reported>>

\* Fault: the digest is asked of the hashing thread every time.
AskAgain(w) ==
  /\ pc[w] = "ask"
  /\ digest' = "joining" /\ joins' = joins + 1 /\ Goto(w, "join")
  /\ UNCHANGED <<stage, target, shared, job, result, file, manifest, hashing,
                 first, reported>>

\* PendingDigest::digest: whoever asks first joins the thread.
Ask(w) ==
  /\ pc[w] = "ask"
  /\ \/ /\ digest = "unset"
        /\ digest' = "joining" /\ joins' = joins + 1 /\ Goto(w, "join")
        /\ UNCHANGED manifest
     \/ /\ digest \in {"ok", "error"}
        /\ manifest' = [manifest EXCEPT ![target] = digest] /\ Goto(w, "finish")
        /\ UNCHANGED <<digest, joins>>
  /\ UNCHANGED <<stage, target, shared, job, result, file, hashing, first, reported>>

\* Fault: the digest is taken as it is, without waiting for the thread.
JoinEarly(w) ==
  /\ pc[w] = "join"
  /\ digest' = hashing
  /\ manifest' = [manifest EXCEPT ![target] = hashing]
  /\ Goto(w, "finish")
  /\ UNCHANGED <<stage, target, shared, job, result, file, hashing, joins, first,
                 reported>>

\* unwrap_or_default: a schema that was not hashed leaves the digest empty.
Join(w) ==
  /\ pc[w] = "join" /\ hashing # "running"
  /\ digest' = hashing
  /\ manifest' = [manifest EXCEPT ![target] = hashing]
  /\ Goto(w, "finish")
  /\ UNCHANGED <<stage, target, shared, job, result, file, hashing, joins, first,
                 reported>>

\* The writes of a render end with finish and flush, where an error shows.
Finish(w) ==
  /\ pc[w] = "finish"
  /\ \/ Goto(w, "look") /\ file' = [file EXCEPT ![target][job[w]] = "whole"]
     \/ Goto(w, "fail") /\ UNCHANGED file
  /\ UNCHANGED <<stage, target, shared, job, result, manifest, hashing, digest,
                 joins, first, reported>>

Fail(w) ==
  /\ pc[w] = "fail"
  /\ failed' = TRUE
  /\ result' = [result EXCEPT ![w] = "error"]
  /\ first' = IF first = None THEN w ELSE first
  /\ Goto(w, "out")
  /\ UNCHANGED <<stage, target, next, job, file, manifest, hashing, digest, joins,
                 reported>>

-----------------------------------------------------------------------------
Errors == {w \in Crew : result[w] = "error"}

\* Fault: what the spawned workers return is dropped.
CollectOwn ==
  /\ stage = "work" /\ \A w \in Crew : pc[w] = "out"
  /\ IF result[1] = "ok"
       THEN stage' = "open" /\ target' = target + 1 /\ UNCHANGED reported
       ELSE Give("ioError") /\ reported' = 1 /\ UNCHANGED target
  /\ UNCHANGED <<shared, pc, job, result, file, manifest, hashing, digest, joins,
                 first>>

\* The workers are joined in order, and result.and(joined) keeps the first
\* error in that order.
Collect ==
  /\ stage = "work" /\ \A w \in Crew : pc[w] = "out"
  /\ IF Errors = {}
       THEN stage' = "open" /\ target' = target + 1 /\ UNCHANGED reported
       ELSE /\ Give("ioError")
            /\ reported' = CHOOSE w \in Errors : \A v \in Errors : w <= v
            /\ UNCHANGED target
  /\ UNCHANGED <<shared, pc, job, result, file, manifest, hashing, digest, joins,
                 first>>

\* Fault: the packages are written, and that is all that is asked.
CheckNothing ==
  /\ stage = "open" /\ target = Len(Packages) + 1
  /\ hashing # "running" /\ stage' = "ok"
  /\ UNCHANGED <<target, shared, pc, job, result, file, manifest, hashing, digest,
                 joins, first, reported>>

\* PendingDigest::check, after the last package.
Check ==
  /\ stage = "open" /\ target = Len(Packages) + 1
  /\ hashing # "running"
  /\ digest' = hashing
  /\ joins' = IF digest = "unset" THEN joins + 1 ELSE joins
  /\ stage' = IF hashing = "ok" THEN "ok" ELSE "notHashed"
  /\ UNCHANGED <<target, shared, pc, job, result, file, manifest, hashing, first,
                 reported>>

Work(w) == \/ Look(w) \/ Claim(w) \/ Create(w) \/ Ask(w) \/ Join(w)
           \/ Finish(w) \/ Fail(w)

Command == Derive \/ Open \/ Collect \/ Check

Next == Hash \/ Command \/ \E w \in Crew : Work(w)

Spec == Init /\ [][Next]_vars

\* The threads of a process are all scheduled.
FairSpec == /\ Spec /\ WF_vars(Hash) /\ WF_vars(Command)
            /\ \A w \in Crew : WF_vars(Work(w))

-----------------------------------------------------------------------------
Ended == stage \in {"ok", "notDerived", "notRendered", "ioError", "notHashed"}

TypeOK ==
  /\ stage \in {"derive", "open", "work"} \/ Ended
  /\ target \in 1..(Len(Packages) + 1)
  /\ next \in Nat /\ failed \in BOOLEAN
  /\ pc \in [Crew -> {"look", "claim", "create", "ask", "join", "finish", "fail",
                      "out"}]
  /\ job \in [Crew -> Nat] /\ result \in [Crew -> {"ok", "error"}]
  /\ \A t \in Target :
       file[t] \in [1..Len(Packages[t]) -> {"old", "partial", "whole"}]
  /\ manifest \in [Target -> {None, "ok", "error"}]
  /\ hashing \in {"running", "ok", "error"}
  /\ digest \in {"unset", "joining", "ok", "error"}
  /\ joins \in Nat
  /\ first \in Crew \cup {None} /\ reported \in Crew \cup {None}

\* write_files: no two workers are at work on the same file.
Busy(w) == pc[w] \in {"create", "ask", "join", "finish", "fail"}
OneWriter ==
  \A v, w \in Crew : Busy(v) /\ Busy(w) /\ job[v] = job[w] => v = w

\* write_files and generate_providers: the next package is begun only when all
\* files of this one are written to the end; a command that succeeds has
\* written them all, each manifest with the digest; and one that reports the
\* error of a worker left a file unfinished.
SuccessIsWhole ==
  /\ \A t \in Target : t < target => \A i \in 1..Len(Packages[t]) : file[t][i] = "whole"
  /\ stage = "ok" =>
       /\ target > Len(Packages)
       /\ \A t \in Target : \A i \in 1..Len(Packages[t]) :
            Queues[t][i].kind = "manifest" => manifest[t] = "ok"
  /\ stage = "ioError" /\ reported # None =>
       \E i \in 1..Len(Queue) : file[target][i] # "whole"

\* SchemaDigest: the manifest asks for the digest only after the modules it
\* describes have been claimed, so that no module waits for the hashing.
ManifestAfterModules ==
  \A w \in Crew : pc[w] \in {"ask", "join"} =>
    \A i \in 1..Len(Queue) : Queue[i].kind = "module" => i < next

\* PendingDigest: the hashing thread is joined once, however many packages and
\* checks ask for the digest; a second join would panic.
JoinedOnce == joins <= 1

\* The command comes to an end: no worker waits for good, and no error keeps
\* the others going.
Ends == <>Ended

\* What write_files says: the first error is returned.
FirstErrorReturned == reported # None => reported = first
=============================================================================
