---------------------------- MODULE CompactRead ----------------------------
(***************************************************************************)
(* Reading a file compacted, in chunks of any size (read_compact_json).    *)
(* The reader may return fewer bytes than asked for at any time.           *)
(***************************************************************************)
EXTENDS Compact

CONSTANT Chunks   \* how many bytes a read may return
ASSUME ChunksAssumption == Chunks \subseteq Nat \ {0}

VARIABLES text,    \* the bytes of the file
          rest,    \* those not read yet
          state,   \* Compacting
          over     \* whether the reader has returned what it read

reader == <<text, rest, state, over>>

ReadInit == text \in Seq(Bytes) /\ rest = text /\ state = Start /\ over = FALSE

\* A read of read_compact_json; what is left for read_to_end, it reads at once.
ReadChunk(n) ==
  /\ ~over /\ n <= Len(rest)
  /\ LET after == AfterChunk(state, SubSeq(rest, 1, n), SubSeq(rest, n + 1, Len(rest)), rest = text)
     IN state' = after.state /\ rest' = after.rest
  /\ UNCHANGED <<text, over>>

ReadEnd == /\ ~over /\ rest = <<>> /\ over' = TRUE
           /\ UNCHANGED <<text, rest, state>>

ReadNext == (\E n \in Chunks : ReadChunk(n)) \/ ReadEnd
ReadSpec == ReadInit /\ [][ReadNext]_reader

\* However a file is cut into chunks, the compacted text has the tokens of the file
\* (read_compact_json: "the compacted text holds exactly the original tokens").
TokensKept == over => Tokens(state.compact) = Tokens(text)
=============================================================================
