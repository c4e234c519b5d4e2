----------------------------- MODULE MacroExpand ----------------------------
(***************************************************************************)
(* Macro calls in a line of source (sv_preprocessor.rs,                    *)
(* expand_inline_macros with the helpers it calls).  One step takes one    *)
(* token of the line, or a call with its arguments.                        *)
(*                                                                         *)
(* A line is a sequence of tokens: "F" and "O" are uses of a macro with    *)
(* parameters and of one without, "U" of a name that is not defined or     *)
(* that is a directive; "q" is a quotation mark; "a" and "b" are words, and*)
(* the parameters of F have these names.  Spaces separate words and are    *)
(* left out.                                                               *)
(***************************************************************************)
EXTENDS Integers, Sequences, SequencesExt, FiniteSets, FiniteSetsExt

CONSTANTS MaxLine,  \* bound: tokens of a line
          MaxCall,  \* bound: tokens after F( in a longer line
          Bodies    \* bodies of F

ASSUME MacroAssumption == MaxLine \in Nat /\ MaxCall \in Nat

VARIABLES text_line, body, i, result, panicked

macroVars == <<text_line, body, i, result, panicked>>

Token == {"F", "O", "U", "(", ")", ",", "q", "a", "x"}
InCall == Token \ {"F", "U"}
Params == <<"a", "b">>
Default == <<"d">>          \* of b
ObjectBody == <<"x">>

MacroCalled(text, definition) ==
  /\ text_line = text /\ body = definition /\ i = 1 /\ result = <<>> /\ panicked = FALSE

MacroInit ==
  \E definition \in Bodies :
    \E text \in BoundedSeq(Token, MaxLine) \cup {<<"F", "(">> \o s : s \in BoundedSeq(InCall, MaxCall)} :
      MacroCalled(text, definition)

-----------------------------------------------------------------------------
(* Mutant of parse_macro_args: a comma separates wherever it stands.       *)
parse_flat(text) ==
  LET Take(s, t) == IF t = "," THEN [s EXCEPT !.args = Append(@, s.current), !.current = <<>>]
                    ELSE [s EXCEPT !.current = Append(@, t)]
      end == FoldLeft(Take, [args |-> <<>>, current |-> <<>>], text)
  IN  IF end.current = <<>> THEN end.args ELSE Append(end.args, end.current)

(* parse_macro_args: a comma separates outside parentheses and quotes; an  *)
(* empty last argument is none.                                            *)
parse_macro_args(text) ==
  LET Take(s, t) ==
        IF t = "," /\ s.depth = 0 /\ ~s.in_quote
        THEN [s EXCEPT !.args = Append(@, s.current), !.current = <<>>]
        ELSE [s EXCEPT !.current = Append(@, t),
                       !.in_quote = IF t = "q" THEN ~@ ELSE @,
                       !.depth = IF s.in_quote THEN @ ELSE IF t = "(" THEN @ + 1 ELSE IF t = ")" THEN @ - 1 ELSE @]
      end == FoldLeft(Take, [args |-> <<>>, current |-> <<>>, depth |-> 0, in_quote |-> FALSE], text)
  IN  IF end.current = <<>> THEN end.args ELSE Append(end.args, end.current)

Actual(args, k) == IF k <= Len(args) THEN args[k] ELSE IF Params[k] = "b" THEN Default ELSE <<>>

(* replace_whole_word                                                      *)
replace_whole_word(text, from, to) ==
  FlattenSeq([k \in DOMAIN text |-> IF text[k] = from THEN to ELSE <<text[k]>>])

(* substitute_macro_body: one parameter after the other, in the order of a *)
(* hash map where their names are equally long.                            *)
substitute_macro_body(args, first, second) ==
  replace_whole_word(replace_whole_word(body, Params[first], Actual(args, first)),
                     Params[second], Actual(args, second))

(* One past the parenthesis that closes the one before `from`, or the end  *)
(* of the line.                                                            *)
Depth(from, to) == 1 + Cardinality({k \in from .. to : text_line[k] = "("}) - Cardinality({k \in from .. to : text_line[k] = ")"})
ArgEnd(from) ==
  LET closing == {k \in from .. Len(text_line) : Depth(from, k) = 0}
  IN  IF closing = {} THEN Len(text_line) + 1 ELSE Min(closing) + 1

-----------------------------------------------------------------------------
(* Text, directives and names that are not defined are copied.             *)
Copy ==
  /\ ~panicked /\ i <= Len(text_line) /\ text_line[i] \notin {"F", "O"}
  /\ result' = Append(result, text_line[i]) /\ i' = i + 1
  /\ UNCHANGED <<text_line, body, panicked>>

(* A name without arguments: its body, whatever kind of macro it is        *)
BodyOf(name) == IF name = "F" THEN body ELSE ObjectBody
AtMacro == i <= Len(text_line) /\ text_line[i] \in {"F", "O"}
HasArgs == i < Len(text_line) /\ text_line[i + 1] = "("

ExpandName ==
  /\ ~panicked /\ AtMacro /\ ~HasArgs
  /\ result' = result \o BodyOf(text_line[i]) /\ i' = i + 1
  /\ UNCHANGED <<text_line, body, panicked>>

(* A call.  The last character of the arguments is left out as if it were  *)
(* the closing parenthesis; a line that ends with the opening one has no   *)
(* such character, and the slice panics.                                   *)
ExpandCall ==
  /\ ~panicked /\ AtMacro /\ HasArgs
  /\ LET end == ArgEnd(i + 2)
         args == parse_macro_args(SubSeq(text_line, i + 2, end - 2))
     IN  IF end = i + 2 THEN panicked' = TRUE /\ UNCHANGED <<i, result>>
         ELSE /\ i' = end /\ UNCHANGED panicked
              /\ IF text_line[i] = "O" THEN result' = result \o ObjectBody
                 ELSE \/ result' = result \o substitute_macro_body(args, 1, 2)
                      \/ result' = result \o substitute_macro_body(args, 2, 1)
  /\ UNCHANGED <<text_line, body>>

MacroNext == Copy \/ ExpandName \/ ExpandCall

-----------------------------------------------------------------------------
(* Properties                                                              *)

Even(text, k) == Cardinality({j \in 1 .. k - 1 : text[j] = "q"}) % 2 = 0
Outside(text, k) ==   \* no parenthesis or quotation mark before k is open
  /\ Cardinality({j \in 1 .. k - 1 : text[j] = "("}) = Cardinality({j \in 1 .. k - 1 : text[j] = ")"})
  /\ Even(text, k)

(* Reference: the arguments are what stands between the commas outside.    *)
ArgsOf(text) ==
  LET ends == SetToSortSeq({k \in DOMAIN text : text[k] = "," /\ Outside(text, k)} \cup {Len(text) + 1}, <)
      Arg(k) == SubSeq(text, (IF k = 1 THEN 0 ELSE ends[k - 1]) + 1, ends[k] - 1)
      all == [k \in DOMAIN ends |-> Arg(k)]
  IN  IF Last(all) = <<>> THEN Front(all) ELSE all

(* All parameters at once                                                  *)
Substituted(args) ==
  FlattenSeq([k \in DOMAIN body |-> CASE body[k] = "a" -> Actual(args, 1)
                                      [] body[k] = "b" -> Actual(args, 2)
                                      [] OTHER -> <<body[k]>>])

(* What the macros stand for is put in their places and the rest of the    *)
(* line is kept, with commas, parentheses and quotes in the arguments, and *)
(* arguments left out.  The exceptions: a call whose parenthesis is not    *)
(* closed on its line loses its last character or panics, a parenthesis    *)
(* within quotes counts, and an argument with the name of a parameter in   *)
(* it may be replaced again.                                               *)
CallsAreExpanded ==
  (i > Len(text_line) /\ IsPrefix(<<"F", "(">>, text_line) /\ Depth(3, ArgEnd(3) - 1) = 0) =>
    LET text == SubSeq(text_line, 3, ArgEnd(3) - 2)
        rest == SubSeq(text_line, ArgEnd(3), Len(text_line))
        quoted == \E k \in DOMAIN text : text[k] \in {"(", ")"} /\ ~Even(text, k)
        again == "a" \in ToSet(Actual(ArgsOf(text), 2))
    IN  (~quoted /\ ~again /\ ToSet(rest) \cap {"F", "O"} = {}) => result = Substituted(ArgsOf(text)) \o rest
=============================================================================
