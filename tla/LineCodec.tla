----------------------------- MODULE LineCodec ------------------------------
(***************************************************************************)
(* JsonRpcMessageCodec (rmcp-sdk, transport/async_rw.rs): messages are     *)
(* lines, and the bytes arrive in pieces of any size.  The decoder         *)
(* remembers how far it has looked for a newline, and drops a line that is *)
(* longer than it may be.  One step is one turn of its loop, or one piece. *)
(*                                                                         *)
(* A byte is a newline "n", a carriage return "r", an "x" of a message, or *)
(* an "i", which stands for a whole notification this codec ignores.       *)
(***************************************************************************)
EXTENDS Integers, Sequences, SequencesExt

CONSTANTS MaxBytes,  \* bound: bytes of the stream
          Limits     \* values of max_length

ASSUME CodecAssumption == MaxBytes \in Nat /\ Limits \subseteq Nat

VARIABLES stream,      \* all bytes that will arrive
          fed,         \* how many have
          buf,
          max_length, next_index, is_discarding,
          decoded,     \* what decode and decode_eof have returned, but Ok(None)
          reading      \* "decode", "wait", "decode_eof", "rest" or "closed"

codecVars == <<stream, fed, buf, max_length, next_index, is_discarding, decoded, reading>>

CodecCalled(bytes, limit) ==
  /\ stream = bytes /\ fed = 0 /\ buf = <<>>
  /\ max_length = limit /\ next_index = 0 /\ is_discarding = FALSE
  /\ decoded = <<>> /\ reading = "wait"

CodecInit == \E bytes \in BoundedSeq({"x", "i", "n", "r"}, MaxBytes), limit \in Limits : CodecCalled(bytes, limit)

-----------------------------------------------------------------------------
From(s, i) == SubSeq(s, i, Len(s))

without_carriage_return(line) == IF line # <<>> /\ Last(line) = "r" THEN Front(line) ELSE line

(* try_parse_with_compatibility: a message, an error, or nothing for a     *)
(* notification that is not of this protocol.  JSON ignores white space    *)
(* around a message.                                                       *)
White(b) == b \in {"n", "r"}
Content(line) ==
  LET ink == {i \in DOMAIN line : ~White(line[i])}
  IN  IF ink = {} THEN <<>> ELSE SubSeq(line, Min(ink), Max(ink))
Parsed(line) ==
  LET text == Content(line)
  IN  CASE text = <<"i">> -> <<>>
        [] text # <<>> /\ ToSet(text) = {"x"} -> <<[message |-> Len(text)]>>
        [] OTHER -> <<[error |-> "Serde"]>>

-----------------------------------------------------------------------------
read_to == IF max_length + 1 < Len(buf) THEN max_length + 1 ELSE Len(buf)
Newline == {i \in next_index + 1 .. read_to : buf[i] = "n"}

(* Mutant of Dropped: the search goes on where it was.                     *)
DroppedInPlace(n) == buf' = From(buf, n + 1) /\ UNCHANGED next_index

(* buf.advance: what is looked at next is the start of the buffer          *)
Dropped(n) == buf' = From(buf, n + 1) /\ next_index' = 0

(* decode has returned Ok(None): its caller waits, decode_eof looks at the *)
(* rest of the buffer.                                                     *)
NoFrame == reading' = IF reading = "decode" THEN "wait" ELSE "rest"

(* A turn of decode's loop.                                                *)
Discard ==
  /\ is_discarding
  /\ IF Newline # {} THEN /\ Dropped(Min(Newline)) /\ is_discarding' = FALSE /\ UNCHANGED reading
     ELSE /\ Dropped(read_to) /\ UNCHANGED is_discarding
          /\ IF Len(buf) = read_to THEN NoFrame ELSE UNCHANGED reading
  /\ UNCHANGED decoded

FoundLine ==
  /\ ~is_discarding /\ Newline # {}
  /\ Dropped(Min(Newline))
  /\ LET item == Parsed(without_carriage_return(SubSeq(buf, 1, Min(Newline) - 1)))
     IN  /\ decoded' = decoded \o item
         /\ IF item = <<>> THEN NoFrame ELSE UNCHANGED reading
  /\ UNCHANGED is_discarding

TooLong ==
  /\ ~is_discarding /\ Newline = {} /\ Len(buf) > max_length
  /\ is_discarding' = TRUE
  /\ decoded' = Append(decoded, [error |-> "MaxLineLengthExceeded"])
  /\ UNCHANGED <<buf, next_index, reading>>

NoLine ==
  /\ ~is_discarding /\ Newline = {} /\ Len(buf) <= max_length
  /\ next_index' = read_to /\ NoFrame
  /\ UNCHANGED <<buf, is_discarding, decoded>>

Decode ==
  /\ reading \in {"decode", "decode_eof"}
  /\ Discard \/ FoundLine \/ TooLong \/ NoLine
  /\ UNCHANGED <<stream, fed, max_length>>

(* decode_eof after decode: what is left is a line without its newline.    *)
DecodeRest ==
  /\ reading = "rest"
  /\ next_index' = 0
  /\ IF buf \in {<<>>, <<"r">>} THEN reading' = "closed" /\ UNCHANGED <<buf, decoded>>
     ELSE LET item == Parsed(without_carriage_return(buf))
          IN  /\ buf' = <<>> /\ decoded' = decoded \o item
              /\ reading' = IF item = <<>> THEN "closed" ELSE "decode_eof"
  /\ UNCHANGED <<stream, fed, max_length, is_discarding>>

(* The reader of the stream: it decodes until there is no frame, reads a   *)
(* piece, and at the end of the stream calls decode_eof until there is no  *)
(* frame.                                                                  *)
ReadPiece ==
  /\ reading = "wait"
  /\ \/ \E n \in 1 .. Len(stream) - fed :
          /\ buf' = buf \o SubSeq(stream, fed + 1, fed + n) /\ fed' = fed + n /\ reading' = "decode"
     \/ fed = Len(stream) /\ reading' = "decode_eof" /\ UNCHANGED <<buf, fed>>
  /\ UNCHANGED <<stream, max_length, next_index, is_discarding, decoded>>

CodecNext == Decode \/ DecodeRest \/ ReadPiece

-----------------------------------------------------------------------------
(* Properties                                                              *)

(* Reference: the lines of a stream, the last without its newline.         *)
Lines(bytes) ==
  LET newlines == {0, Len(bytes) + 1} \cup {i \in DOMAIN bytes : bytes[i] = "n"}
      ends == SetToSortSeq(newlines \ {0}, <)
  IN  [k \in DOMAIN ends |-> SubSeq(bytes, (IF k = 1 THEN 0 ELSE ends[k - 1]) + 1, ends[k] - 1)]
Frames(line) == IF Len(line) > max_length THEN <<[error |-> "MaxLineLengthExceeded"]>>
                ELSE Parsed(without_carriage_return(line))
Reference ==
  LET lines == Lines(stream)
      last == Last(lines)
  IN  FlattenSeq([k \in DOMAIN lines |->
        IF k = Len(lines) /\ last \in {<<>>, <<"r">>} /\ Len(last) <= max_length THEN <<>> ELSE Frames(lines[k])])

Ignored == Cardinality({k \in DOMAIN Lines(stream) : Content(Lines(stream)[k]) = <<"i">>})

(* However the stream is cut into pieces, the decoder returns the frames   *)
(* of its lines, in order and each once: a line at the limit passes, a     *)
(* longer one is one error and none of its bytes reaches the next line,    *)
(* and the last line needs no newline.  The exception is a stream with     *)
(* two ignored notifications: decode_eof, when the line it has decoded is  *)
(* ignored, takes the lines after it for one.                              *)
LinesAreFrames ==
  Ignored <= 1 => IF reading = "closed" THEN decoded = Reference ELSE IsPrefix(decoded, Reference)
=============================================================================
