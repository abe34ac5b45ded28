--------------------------- MODULE ProviderFacts ---------------------------
(***************************************************************************)
(* What the proofs about loading a provider's schema go by: the invariants *)
(* of the reader and of the loader, and the facts about all JSON and all   *)
(* schemas that are shown of a node from those inside it.                  *)
(***************************************************************************)
EXTENDS ProviderLoad

-----------------------------------------------------------------------------
\* JSON, and what is inside it.

\* Sequences of whatever they hold: where nothing is said of the elements.
IsList(s) == s \in Seq(ToSet(s))

\* What is inside some JSON is read as it is by itself.
Below(j) == [inside \in Children(j) |-> Read[inside]]

\* What reading a node says of the schema, and what it promises.
FormedBelow(j) == [inside \in Children(j) |-> WellFormed[inside]]
ProblemsBelow(j) == [inside \in Children(j) |-> Problems[inside]]

-----------------------------------------------------------------------------
\* A node that is read the same as part of either format.

\* The kinds below a normalized document, which have no problems, and which the shared
\* pass reads as the derived impls do whenever it takes them.
StoredSeedKinds == {"storedBlock", "storedResource", "storedAttribute", "storedNestedBlock"}
StoredMapKinds == {"storedSchemas", "storedAttributes", "storedBlocks"}
StoredKinds == StoredSeedKinds \cup StoredMapKinds \cup {"storedType", "storedTypes"} \cup Scalars
Agreed(result, derived) == result.error = <<>> => result.problem = <<>> /\ derived = result
SameRead(j, kind) == Agreed(Read[j][kind][<<>>], Read[j][kind][Derived])
Same(j) == \A kind \in StoredKinds : SameRead(j, kind)

-----------------------------------------------------------------------------
\* The problems of a node: what reading tells of them, and what is promised.

\* The first problem of results none of which is an error.
NoErrors(s) == \A y \in ToSet(s) : y.result.error = <<>>
FirstIn(s, i) == i \in DOMAIN s /\ s[i].result.problem # <<>>
                 /\ \A k \in 1..(i - 1) : s[k].result.problem = <<>>

\* The first of two problems, if there are any.
Earlier(one, other) == IF one # <<>> THEN one ELSE other

\* Results and problems that go together: the results are read without an error, and
\* the first problem among them is the first of the problems.
Together(s, p) == /\ IsList(s) /\ NoErrors(s) /\ IsList(p)
                  /\ FirstProblem(s).problem = FirstOf(p)
AllTogether(ss, pp) == DOMAIN ss = DOMAIN pp /\ \A i \in DOMAIN ss : Together(ss[i], pp[i])

\* A result that is a list of problems, or has none of them.
Tells(result, problems) == result.error = <<>> /\ result.problem = FirstOf(problems)

\* A block's attributes and blocks show their problems only as they are sorted.
Told(kind, result) ==
  IF kind \in {"attributes", "blocks"} THEN NameMap(result.value)
  ELSE IF kind = "schemas" THEN FirstProblem(result.value) ELSE result
CarriedKinds == {"attributes", "blocks", "schemas", "provider", "providers", "document"} \cup Scalars

\* What holds of a node, by its kind: it is read without an error if and only if it is
\* well-formed, and then what is read of it has the first of its problems, or none.
TellsNode(j, kind, path) ==
  /\ Told(kind, Read[j][kind][path]).error = <<>>
  /\ Told(kind, Read[j][kind][path]).problem = FirstOf(Problems[j][kind][path])
TellsMaybe(j, maybe, kind, path) ==
  IF j.is = "null" THEN Read[j][maybe][path] = Good(<<>>)
  ELSE /\ Read[j][maybe][path] # Good(<<>>)
       /\ Read[j][maybe][path].problem = FirstOf(Problems[j][kind][path])
Meant(j, kind, path) ==
  /\ kind \in NodeKinds => TellsNode(j, kind, path)
  /\ kind \in CarriedKinds => Read[j][kind][path].problem = <<>>
  /\ kind = "maybeType" => TellsMaybe(j, kind, "type", path)
  /\ kind = "maybeNestedType" => TellsMaybe(j, kind, "nestedType", path)
  /\ kind = "text" => Read[j][kind][path] = Good(j.text)
HoldsOf(j, kind, path) ==
  /\ Read[j][kind][path].error = <<>> <=> WellFormed[j][kind]
  /\ WellFormed[j][kind] => Meant(j, kind, path)
Held(j) == \A kind \in RawKinds, path \in Paths : HoldsOf(j, kind, path)

\* Results named as the entries of an object.
NamedAs(s, j) == /\ IsList(s) /\ DOMAIN s = DOMAIN j.entries
                 /\ \A i \in DOMAIN s : s[i].name = j.entries[i].key

\* All problems of a node are lists.
ListsIn(j) == \A kind \in NodeKinds, path \in Paths : IsList(Problems[j][kind][path])

\* The problems of a node, kind by kind, as SchemaPromise orders them.
NodeParts(j, path) ==
  /\ \A kind \in {"schemas", "attributes", "blocks"} :
       Problems[j][kind][path] = ProblemsByName(kind, j, path, ProblemsBelow(j))
  /\ Problems[j]["type"][path] = TypeProblems(j, path, ProblemsBelow(j))
  /\ Problems[j]["objectType"][path]
       = IF j.is = "object" THEN ProblemsByField(j, path, ProblemsBelow(j)) ELSE Problem(path, "expected_object")
  /\ Problems[j]["tupleType"][path]
       = IF j.is = "array" THEN ProblemsByItem(j, path, ProblemsBelow(j)) ELSE Problem(path, "expected_tuple")

\* The problems of one part of an object.
PartProblems(j, key, part, path) == IF Has(j, key) THEN Problems[At(j, key)][part][path] ELSE <<>>
ObjectParts(j, path) ==
  /\ Problems[j]["schema"][path] = PartProblems(j, "block", "block", path)
  /\ Problems[j]["block"][path]
       = PartProblems(j, "attributes", "attributes", path) \o PartProblems(j, "block_types", "blocks", path)
  /\ Problems[j]["nestedBlock"][path] = ModeProblems(j, path) \o PartProblems(j, "block", "block", path)
  /\ Problems[j]["attribute"][path]
       = IF Present(j, "type") THEN PartProblems(j, "type", "type", path)
         ELSE IF Present(j, "nested_type") THEN PartProblems(j, "nested_type", "nestedType", path)
         ELSE Problem(path, "missing_type")
  /\ Problems[j]["nestedType"][path]
       = PartProblems(j, "attributes", "attributes", path) \o ModeProblems(j, path)

\* The entries of an object read as one kind of node, none of them an error.
PlainKinds == {"schema", "block", "attribute", "nestedBlock", "nestedType", "type", "objectType", "tupleType"}
ReadsEntries(s, j, kind, path) ==
  /\ NamedAs(s, j)
  /\ \A i \in DOMAIN s :
       /\ s[i].result = Read[j.entries[i].value][kind][Append(path, Key(j.entries[i].key))]
       /\ s[i].result.error = <<>>

\* An object is read as a kind of fields if every field it knows is there once and
\* without an error, and all it must have; then by what each of them is read as.
Known(kind, j) == {i \in 1..Len(j.entries) : j.entries[i].key \in DOMAIN Seeds[kind].fields}
Again(j, i) == \E m \in 1..(i - 1) : j.entries[m].key = j.entries[i].key
FieldAt(kind, j, path, below, i) ==
  below[j.entries[i].value][Seeds[kind].fields[j.entries[i].key]][PathBelow(kind, j.entries[i].key, path)]
Sound(kind, j, path, below) ==
  /\ j.is = "object"
  /\ \A i \in Known(kind, j) : ~Again(j, i) /\ FieldAt(kind, j, path, below, i).error = <<>>
  /\ \A key \in Seeds[kind].required : \E i \in Known(kind, j) : j.entries[i].key = key
IsFound(found, kind, j, path, below) ==
  /\ found = [key \in {j.entries[i].key : i \in Known(kind, j)} |-> found[key]]
  /\ \A i \in Known(kind, j) : found[j.entries[i].key] = FieldAt(kind, j, path, below, i)

\* What the last value of each known name is read as, where it is below.
RawFields(found, kind, j, path) ==
  /\ DOMAIN found = {key \in DOMAIN Seeds[kind].fields : Has(j, key)}
  /\ Seeds[kind].required \subseteq DOMAIN found
  /\ \A key \in DOMAIN found :
       LET below == PathBelow(kind, key, path) IN
       /\ found[key] = Read[At(j, key)][Seeds[kind].fields[key]][below]
       /\ found[key].error = <<>>
       /\ At(j, key) \in Children(j)
       /\ WellFormed[At(j, key)][Seeds[kind].fields[key]]
       /\ Meant(At(j, key), Seeds[kind].fields[key], below)
ReadsFields(kind, j, path) ==
  \E found : RawFields(found, kind, j, path) /\ ReadFields(kind, j, path, Below(j)) = Finished(kind, found, path)

\* The results a map of the raw format ends with.
RawMaps == {"providers", "schemas", "attributes", "blocks"}
RawEntries(s, kind, j, path) ==
  /\ NamedAs(s, j)
  /\ \A i \in DOMAIN s :
       /\ s[i].result = Read[j.entries[i].value][MapSeeds[kind]][PathOfEntry(kind, j.entries[i].key, path)]
       /\ s[i].result.error = <<>>
       /\ WellFormed[j.entries[i].value][MapSeeds[kind]]
ReadsMap(kind, j, path) ==
  \E s : RawEntries(s, kind, j, path) /\ Read[j][kind][path] = FinishedMap(kind, s)

\* What a provider is read as, and the problems of its parts.
ProviderTold(value, q) ==
  /\ Tells(value.config, PartProblems(q, "provider", "schema", <<Label("provider")>>))
  /\ Tells(FirstProblem(value.resources), PartProblems(q, "resource_schemas", "schemas", <<Label("resource")>>))
  /\ Tells(FirstProblem(value.data_sources), PartProblems(q, "data_source_schemas", "schemas", <<Label("data")>>))

\* A document as it is read.
DocumentTold(raw, j) ==
  LET providers == At(j, "provider_schemas") IN
  /\ raw.format_version = At(j, "format_version").text
  /\ providers \in AnyJson /\ WellFormed[providers]["providers"]
  /\ raw.providers = Read[providers]["providers"][<<>>].value

-----------------------------------------------------------------------------
\* Schemas that are read back: as they are written, and as they are read.

\* What is inside a node that nests h deep.
Over(h) == IF h = 0 THEN {} ELSE SchemaTree[h - 1]

\* Named values, and as they come when they are read again.
IsNamed(s) == IsList(s) /\ \A i \in 1..Len(s) : s[i] = [name |-> s[i].name, value |-> s[i].value]
Reread(s) == [i \in 1..Len(s) |-> [name |-> s[i].name, result |-> Good(s[i].value)]]

\* Named values that are in order and one of each name.
Settled(s) == IsNamed(s) /\ NameMap(Reread(s)) = Good(s)

\* The entries have these keys, each once, with these values.
Writes(e, keys, w) ==
  /\ IsList(e) /\ {e[i].key : i \in 1..Len(e)} = keys
  /\ \A i \in 1..Len(e) : e[i] = [key |-> e[i].key, value |-> w[e[i].key]]
  /\ \A i, k \in 1..Len(e) : e[i].key = e[k].key => i = k

\* A node that is read back as it was, if its JSON nests no deeper than JSON may.
ReadAs(kind, v) == NodeJson[v] \in AnyJson => \A q \in Paths : Read[NodeJson[v]][kind][q] = Good(v)

\* The nodes that nest at most h deep, and those inside one, that are read back.
Fitting(kind, h) == {v \in SchemaTree[h] : ReadAs(kind, v)}
Inner(kind, h) == {v \in Over(h) : ReadAs(kind, v)}

\* Named results, of which those that are usable have such values.
NamedResults(s, X) == IsList(s) /\ \A y \in ToSet(s) : /\ y.name \in STRING
                                                       /\ Usable(y.result) => y.result.value \in X

\* What is read of the schemas of a provider, sorted, and of a provider, whose own
\* problems are still in it.
SchemasFit(s, h) ==
  NamedResults(s, Fitting("storedBlock", h)) /\ \E e : IsList(e) /\ s = SortUnique(e)
ProviderFits(value, h) ==
  /\ Usable(value.config) => value.config.value \in Fitting("storedBlock", h)
  /\ SchemasFit(value.resources, h) /\ SchemasFit(value.data_sources, h)

\* What is read of JSON that nests h deep, by kind.
Fits(kind, r, h) ==
  /\ kind \in {"type", "objectType", "tupleType", "nestedType"} => r.value \in Fitting("storedType", h)
  /\ kind \in {"maybeType", "maybeNestedType"} =>
       r = Good(<<>>) \/ \E t \in Fitting("storedType", h) : r = Good(<<t>>)
  /\ kind \in {"block", "schema"} => r.value \in Fitting("storedBlock", h)
  /\ kind = "attribute" => r.value \in AttributesOver(Inner("storedType", h))
  /\ kind = "nestedBlock" => r.value \in NestedOver(Inner("storedBlock", h))
  /\ kind = "attributes" => NamedResults(r.value, AttributesOver(Inner("storedType", h)))
  /\ kind = "blocks" => NamedResults(r.value, NestedOver(Inner("storedBlock", h)))
  /\ kind = "schemas" => SchemasFit(r.value, h)
  /\ kind = "provider" => ProviderFits(r.value, h)
  /\ kind = "providers" => IsList(r.value) /\ \A y \in ToSet(r.value) : Usable(y.result) /\ ProviderFits(y.result.value, h)
  /\ kind = "flag" => r.value \in BOOLEAN
  /\ kind = "maybeCount" => r.value \in Counts

\* What is usable fits.
Fit(j, h) == \A kind \in RawKinds, path \in Paths :
               Usable(Read[j][kind][path]) => Fits(kind, Read[j][kind][path], h)
AllFit(j, h) == \A c \in Children(j) : h # 0 /\ Fit(c, h - 1)

\* A normalized schema, as the requested provider's.
SettledBlocks(s) == s \in NamedIn(Fitting("storedBlock", MaxNesting)) /\ Settled(s)
SettledSchema(v) ==
  /\ v = [source |-> Request.source, version |-> Request.version, provider_config |-> v.provider_config,
          resources |-> v.resources, data_sources |-> v.data_sources]
  /\ v.provider_config \in Fitting("storedBlock", MaxNesting)
  /\ SettledBlocks(v.resources) /\ SettledBlocks(v.data_sources)

-----------------------------------------------------------------------------
\* The reader, in the middle of a text.

\* Texts, and what a scanner can be in.
ByteText == Seq(Bytes)
ScanModes == {"none", "string", "escape", "atom"}

\* The states of scanning the first n bytes of a text.
Nowhere == [tokens |-> <<>>, in |-> "none"]
Scans(run, t, n) ==
  /\ DOMAIN run = 0..n /\ run[0] = Nowhere
  /\ \A i \in 1..n : run[i] = ScanStep(run[i - 1], t[i])

\* A state of the scanner.
IsSeen(a) == a = [tokens |-> a.tokens, in |-> a.in] /\ a.in \in ScanModes

\* States of the reader.
Compactings == [compact : ByteText, in_string : BOOLEAN, escaped : BOOLEAN, pending : BOOLEAN,
                dropped : BOOLEAN]

\* What the reader is in, beside the bytes read: the tokens are those read, it knows
\* whether it is in a string, and whitespace it has not kept is a gap between
\* tokens, which matters only after an atom.
Agrees(c, read) ==
  LET kept == Scan(c.compact)
      seen == Scan(read)
  IN /\ kept.tokens = seen.tokens /\ IsSeen(kept) /\ IsSeen(seen)
     /\ c.in_string <=> seen.in \in {"string", "escape"}
     /\ c.escaped <=> seen.in = "escape"
     /\ IF c.pending THEN seen.in = "none" /\ kept.in \in {"none", "atom"} ELSE seen.in = kept.in
     /\ kept.in = "atom" <=> ~c.in_string /\ c.compact # <<>> /\ Last(c.compact) = Atom
     /\ ~c.dropped => c.compact = read /\ ~c.pending

\* The reader has read the first k bytes of the text.  It agrees with them until it
\* has read all, and then holds the tokens of the text: it may have copied the end.
ReadInv ==
  /\ text \in ByteText
  /\ \E k \in 0..Len(text) :
       /\ rest = SubSeq(text, k + 1, Len(text))
       /\ k < Len(text) => state \in Compactings /\ Agrees(state, SubSeq(text, 1, k))
       /\ k = Len(text) => Tokens(state.compact) = Tokens(text)
  /\ over => rest = <<>>

-----------------------------------------------------------------------------
\* The loader.

\* What the loader has decoded so far: a file by read_schema_file, OpenTofu's output
\* by normalize_schema, and neither is ever taken for the other.
Decoded == IF from = "file" THEN ReadSchemaFile(tree) ELSE SchemaFile("raw", NormalizeSchema(tree))
LoadInv ==
  /\ tree \in AnyJson
  /\ stage \in {"reading", "decode", "again"} => from = "file"
  /\ stage = "acquire" => from = "tofu"
  /\ outcome # <<>> => outcome = <<Decoded>>

\* A schema that bindings are derived from was decoded without a problem.
DerivesUsable == stage = "derive" => outcome # <<>> /\ Usable(outcome[1].result)
=============================================================================
