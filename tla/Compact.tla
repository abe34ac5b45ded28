------------------------------ MODULE Compact ------------------------------
(***************************************************************************)
(* Reading JSON without the whitespace between its tokens, chunk by chunk  *)
(* (crates/provider-schema/src/compact.rs).  A text is a sequence of bytes *)
(* of five kinds: a quote, a backslash, whitespace, a byte of a number or  *)
(* literal, and any other.                                                 *)
(***************************************************************************)
EXTENDS Naturals, Sequences, SequencesExt

Quote == "quote"
Backslash == "backslash"
Space == "space"
Atom == "atom"
Mark == "mark"
Bytes == {Quote, Backslash, Space, Atom, Mark}

\* Compacting, and where the reader is: `dropped` says that some byte was.
Start == [compact |-> <<>>, in_string |-> FALSE, escaped |-> FALSE, pending |-> FALSE,
          dropped |-> FALSE]

\* Mutant: a string's state does not survive the byte after a backslash.
PushUnescaped(state, byte) ==
  IF state.in_string
    THEN [state EXCEPT !.compact = Append(@, byte), !.in_string = byte # Quote]
  ELSE IF byte = Space THEN [state EXCEPT !.pending = TRUE, !.dropped = TRUE]
  ELSE [state EXCEPT !.compact = Append(@, byte), !.pending = FALSE, !.in_string = byte = Quote]

\* push, for one byte: its loops over runs of bytes do the same to each of them.
Push(state, byte) ==
  IF state.in_string
    THEN [state EXCEPT !.compact = Append(@, byte),
                       !.in_string = byte # Quote \/ state.escaped,
                       !.escaped = byte = Backslash /\ ~state.escaped]
  ELSE IF byte = Space THEN [state EXCEPT !.pending = TRUE, !.dropped = TRUE]
  ELSE LET kept == state.compact
           apart == state.pending /\ kept # <<>> /\ Last(kept) = Atom /\ byte = Atom
       IN [state EXCEPT !.compact = (IF apart THEN Append(kept, Space) ELSE kept) \o <<byte>>,
                        !.pending = FALSE, !.in_string = byte = Quote]

PushAll(state, chunk) ==
  LET pushed[n \in 0..Len(chunk)] == IF n = 0 THEN state ELSE Push(pushed[n - 1], chunk[n])
  IN pushed[Len(chunk)]

\* read_compact_json once it has read `chunk` of a text of which `rest` is left:
\* when nothing of the first chunk was dropped, the rest is copied as it is.
AfterChunk(state, chunk, rest, first) ==
  LET pushed == PushAll(state, chunk) IN
  IF first /\ ~pushed.dropped
    THEN [state |-> [pushed EXCEPT !.compact = @ \o rest], rest |-> <<>>]
    ELSE [state |-> pushed, rest |-> rest]

-----------------------------------------------------------------------------
\* What a JSON reader takes for tokens: strings with their content, runs of atom
\* bytes, and single marks; whitespace only ends a run.
ScanStep(seen, byte) ==
  LET longer == [seen.tokens EXCEPT ![Len(seen.tokens)] = Append(@, byte)]
      another == Append(seen.tokens, <<byte>>)
  IN CASE seen.in = "escape" -> [tokens |-> longer, in |-> "string"]
       [] seen.in = "string" -> [tokens |-> longer, in |-> CASE byte = Quote -> "none"
                                                             [] byte = Backslash -> "escape"
                                                             [] OTHER -> "string"]
       [] seen.in \in {"none", "atom"} /\ byte = Space -> [seen EXCEPT !.in = "none"]
       [] seen.in \in {"none", "atom"} /\ byte = Quote -> [tokens |-> another, in |-> "string"]
       [] seen.in = "none" /\ byte = Atom -> [tokens |-> another, in |-> "atom"]
       [] seen.in = "atom" /\ byte = Atom -> [tokens |-> longer, in |-> "atom"]
       [] OTHER -> [tokens |-> another, in |-> "none"]

Scan(text) ==
  LET seen[n \in 0..Len(text)] ==
        IF n = 0 THEN [tokens |-> <<>>, in |-> "none"] ELSE ScanStep(seen[n - 1], text[n])
  IN seen[Len(text)]

Tokens(text) == Scan(text).tokens
=============================================================================
