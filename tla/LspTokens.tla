----------------------------- MODULE LspTokens ------------------------------
(***************************************************************************)
(* The semantic tokens of the language server (Backend::tokenize_semantic, *)
(* crates/hdl-graph-lsp/src/backend.rs): a scan of the document that keeps *)
(* its own line and column, and the relative encoding the client decodes.  *)
(* One step is one character, or one turn of a loop that takes none.       *)
(*                                                                         *)
(* A character is what the scanner tells apart: newline, slash, star,      *)
(* quote, backslash, digit, letter (a letter alone is a keyword, two are   *)
(* not; `_` is a letter, `$` is left out), backtick, and anything else.    *)
(***************************************************************************)
EXTENDS Integers, Sequences, SequencesExt

CONSTANTS Alphabet,  \* the characters of the documents of a run
          MaxChars   \* bound: characters of a document

ASSUME TokenBoundsAssumption ==
  /\ MaxChars \in Nat
  /\ Alphabet \subseteq {"nl", "slash", "star", "quote", "escape", "digit", "letter", "tick", "other"}

VARIABLES chars,    \* the document
          at,       \* i, from 0 as in the code
          line, col,
          mode,     \* the loop the scan is in, or "encoded"
          token,    \* the token being scanned: where it starts
          raw,      \* Vec<RawToken>, with the true start as history
          encoded   \* Vec<SemanticToken>

tokenVars == <<chars, at, line, col, mode, token, raw, encoded>>

NoToken == [line |-> 0, col |-> 0, start |-> 0]

TokensCalled(text) == /\ chars = text
                      /\ at = 0 /\ line = 0 /\ col = 0
                      /\ mode = "scan" /\ token = NoToken
                      /\ raw = <<>> /\ encoded = <<>>

TokensInit == \E text \in BoundedSeq(Alphabet, MaxChars) : TokensCalled(text)

-----------------------------------------------------------------------------
More(n) == at + n <= Len(chars)
Ch == IF More(1) THEN chars[at + 1] ELSE "end"
NextIs(c) == More(2) /\ chars[at + 2] = c

Take(n) == at' = at + n /\ col' = col + n /\ UNCHANGED line
TakeNewline == at' = at + 1 /\ col' = 0 /\ line' = line + 1
Stay == UNCHANGED <<at, line, col>>

Begin(m) == mode' = m /\ token' = [line |-> line, col |-> col, start |-> at]
Push(end, type) == raw' = Append(raw, [line |-> token.line, col |-> token.col, start |-> token.start,
                                       length |-> end - token.start, type |-> type])

InWord(c) == c \in {"letter", "digit"}

(* The body of `while i < len`: a newline, the start of a token or of a    *)
(* number, or a character that is skipped.                                 *)
Scan ==
  /\ mode = "scan" /\ More(1)
  /\ \/ /\ Ch = "nl" /\ TakeNewline /\ UNCHANGED <<mode, token>>
     \/ /\ Ch = "slash" /\ NextIs("star") /\ Take(2) /\ Begin("block")
     \/ /\ Ch = "slash" /\ NextIs("slash") /\ Stay /\ Begin("comment")
     \/ /\ Ch = "quote" /\ Take(1) /\ Begin("string")
     \/ /\ Ch = "digit" /\ Stay /\ Begin("number")
     \/ /\ Ch \in {"letter", "tick"} /\ Stay /\ Begin("word")
     \/ /\ \/ Ch \in {"other", "star", "escape"}
           \/ Ch = "slash" /\ ~NextIs("star") /\ ~NextIs("slash")
        /\ Take(1) /\ UNCHANGED <<mode, token>>
  /\ UNCHANGED <<chars, raw, encoded>>

(* /* ... */: the loop ends at the end marker or before the last character *)
(* of the document.                                                        *)
BlockComment ==
  /\ mode = "block"
  /\ \/ /\ ~More(2) /\ Stay /\ Push(at, "comment") /\ mode' = "scan"
     \/ /\ More(2) /\ Ch = "star" /\ NextIs("slash") /\ Take(2) /\ Push(at + 2, "comment") /\ mode' = "scan"
     \/ /\ More(2) /\ ~(Ch = "star" /\ NextIs("slash"))
        /\ IF Ch = "nl" THEN TakeNewline ELSE Take(1)
        /\ UNCHANGED <<raw, mode>>
  /\ UNCHANGED <<chars, token, encoded>>

LineComment ==
  /\ mode = "comment"
  /\ IF Ch \notin {"nl", "end"} THEN Take(1) /\ UNCHANGED <<raw, mode>>
     ELSE Stay /\ Push(at, "comment") /\ mode' = "scan"
  /\ UNCHANGED <<chars, token, encoded>>

(* "...": an escape takes the next character whatever it is.               *)
StringLiteral ==
  /\ mode = "string"
  /\ \/ /\ More(1) /\ Ch \notin {"quote", "nl"}
        /\ Take(IF Ch = "escape" /\ More(2) THEN 2 ELSE 1)
        /\ UNCHANGED <<raw, mode>>
     \/ /\ Ch = "quote" /\ Take(1) /\ Push(at + 1, "string") /\ mode' = "scan"
     \/ /\ Ch \in {"end", "nl"} /\ Stay /\ Push(at, "string") /\ mode' = "scan"
  /\ UNCHANGED <<chars, token, encoded>>

Number ==
  /\ mode = "number"
  /\ IF InWord(Ch) THEN Take(1) /\ UNCHANGED mode ELSE Stay /\ mode' = "scan"
  /\ UNCHANGED <<chars, token, raw, encoded>>

Keyword == chars[token.start + 1] = "letter" /\ at = token.start + 1

(* Identifiers, keywords and directives.  The branch is entered on a       *)
(* backtick and the loop does not accept one.                              *)
Word ==
  /\ mode = "word"
  /\ IF InWord(Ch) THEN Take(1) /\ UNCHANGED <<raw, mode>>
     ELSE /\ Stay /\ mode' = "scan"
          /\ IF Keyword THEN Push(at, "keyword") ELSE UNCHANGED raw
  /\ UNCHANGED <<chars, token, encoded>>

(* Mutant of Delta: the column is relative to a token of another line.     *)
DeltaAcrossLines(t, prev) ==
  [line |-> t.line - prev.line, start |-> IF t.col >= prev.col THEN t.col - prev.col ELSE 0]

(* saturating_sub never saturates here: tokens are in document order.      *)
Delta(t, prev) ==
  IF t.line = prev.line THEN [line |-> 0, start |-> t.col - prev.col]
  ELSE [line |-> t.line - prev.line, start |-> t.col]

(* The document is scanned: the tokens relative to each other.             *)
Encode ==
  /\ mode = "scan" /\ ~More(1)
  /\ encoded' = [k \in DOMAIN raw |-> Delta(raw[k], IF k = 1 THEN NoToken ELSE raw[k - 1])]
  /\ mode' = "encoded"
  /\ UNCHANGED <<chars, at, line, col, token, raw>>

TokensNext == Scan \/ BlockComment \/ LineComment \/ StringLiteral \/ Number \/ Word \/ Encode

(* The handler runs to its end once it is called: there is no await in it. *)
TokensSpec == TokensInit /\ [][TokensNext]_tokenVars /\ WF_tokenVars(TokensNext)

-----------------------------------------------------------------------------
(* Properties                                                              *)

(* The true line and column of the character at i.                         *)
LineOf(i) == Cardinality({k \in 1 .. i : chars[k] = "nl"})
ColOf(i) == i - Max({0} \cup {k \in 1 .. i : chars[k] = "nl"})

(* What a client makes of the deltas: the position of the k-th token.      *)
Decoded ==
  LET pos[k \in 0 .. Len(encoded)] ==
        IF k = 0 THEN <<0, 0>>
        ELSE IF encoded[k].line = 0 THEN <<pos[k - 1][1], pos[k - 1][2] + encoded[k].start>>
        ELSE <<pos[k - 1][1] + encoded[k].line, encoded[k].start>>
  IN  pos

EscapedNewline == \E i \in 1 .. Len(chars) - 1 : chars[i] = "escape" /\ chars[i + 1] = "nl"

(* The client finds every token where it stands in the document: through   *)
(* comments and strings that are not closed, over several lines, and       *)
(* whatever follows them.  The exception is an escaped newline in a        *)
(* string, which is not counted as a line.                                 *)
DecodedWhereTheyStand ==
  (mode = "encoded" /\ ~EscapedNewline) =>
     \A k \in DOMAIN raw : Decoded[k] = <<LineOf(raw[k].start), ColOf(raw[k].start)>>

(* "Tokenize Verilog/SystemVerilog source and return LSP delta-encoded     *)
(* semantic tokens": the scan of a document ends.                          *)
TokenizingEnds == <>(mode = "encoded")

=============================================================================
