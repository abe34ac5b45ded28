---------------------------- MODULE ProviderLoad ----------------------------
(***************************************************************************)
(* Loading the schema of a provider (load_provider_schema and what it      *)
(* calls, crates/cli/src/main.rs): from a file, which is read compacted    *)
(* and, when there is a problem in it, again as it is written; or from     *)
(* OpenTofu.  What the bytes of a file mean is `tree`; that the bytes read *)
(* have the tokens of the file is a property of the reading (CompactRead). *)
(***************************************************************************)
EXTENDS CompactRead, SchemaPromise, SchemaWrite

CONSTANT Files   \* what may be read: [text, tree]

ASSUME FilesAssumption == \A file \in Files : file.tree \in AnyJson

VARIABLES
  from,      \* --schema-json, or OpenTofu's own output
  tree,      \* what is read says
  stage,     \* reading, decode, again, acquire; derive, emit, done; failed
  outcome    \* what the decoding returned, once it has

load == <<reader, from, tree, stage, outcome>>

LoadInit ==
  /\ from \in {"file", "tofu"}
  /\ \E file \in Files : text = file.text /\ tree = file.tree
  /\ ReadInit
  /\ stage = IF from = "file" THEN "reading" ELSE "acquire"
  /\ outcome = <<>>

Reading ==
  /\ stage = "reading" /\ \E n \in Chunks : ReadChunk(n)
  /\ UNCHANGED <<from, tree, stage, outcome>>

EndOfFile ==
  /\ stage = "reading" /\ ReadEnd
  /\ stage' = "decode"
  /\ UNCHANGED <<from, tree, outcome>>

\* The file system may refuse any read, also of the file as it is written; the
\* directory for OpenTofu may not be writable, or `init` or `providers schema` not
\* start or end with an error.
ReadFails ==
  /\ stage \in {"reading", "again", "acquire"}
  /\ stage' = "failed"
  /\ UNCHANGED <<reader, from, tree, outcome>>

\* The schema of the request: a normalized file may hold another one.
Identified(read) ==
  read.format = "normalized" => /\ read.result.value.source = Request.source
                                /\ read.result.value.version = Request.version

\* load_provider_schema: a file with a problem is read again, uncompacted.
Decode ==
  /\ stage = "decode"
  /\ \E read \in {ReadSchemaFile(tree)} :
       /\ outcome' = <<read>>
       /\ stage' = IF ~Usable(read.result) THEN "again"
                   ELSE IF Identified(read) THEN "derive" ELSE "failed"
  /\ UNCHANGED <<reader, from, tree>>

DecodeAgain ==
  /\ stage = "again"
  /\ \E read \in {ReadSchemaFile(tree)} :
       /\ outcome' = <<read>>
       /\ stage' = IF Usable(read.result) /\ Identified(read) THEN "derive" ELSE "failed"
  /\ UNCHANGED <<reader, from, tree>>

\* SchemaAcquirer::acquire.
Acquire ==
  /\ stage = "acquire"
  /\ \E read \in {SchemaFile("raw", NormalizeSchema(tree))} :
       /\ outcome' = <<read>>
       /\ stage' = IF Usable(read.result) THEN "derive" ELSE "failed"
  /\ UNCHANGED <<reader, from, tree>>

LoadNext == Reading \/ EndOfFile \/ ReadFails \/ Decode \/ DecodeAgain \/ Acquire
LoadSpec == LoadInit /\ [][LoadNext]_load

-----------------------------------------------------------------------------
\* Problems met while one pass decodes and normalizes are reported as if everything
\* was decoded before anything was normalized (normalize_schema).
ErrorsInOrder ==
  from = "tofu" /\ outcome # <<>> =>
    Reported(outcome[1].result) = Promised(tree)

\* Reading the fields of both formats in one pass settles what a file is, and which
\* problem it has, as decoding it as each format in turn does (read_schema_file).
FormatSettled == from = "file" /\ outcome # <<>> => outcome[1] = ReadTwice(tree)

\* A schema written by `provider inspect --output` is read back as it was, if a parser
\* follows its JSON as deep as it nests.
Schema == outcome[1].result.value
ReadsBack ==
  stage = "derive" /\ outcome[1].format = "raw" /\ CanonicalJson(Schema) \in AnyJson =>
    ReadSchemaFile(CanonicalJson(Schema)) = SchemaFile("normalized", Good(Schema))
=============================================================================
