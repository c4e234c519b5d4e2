----------------------------- MODULE GlobMatch ------------------------------
(***************************************************************************)
(* glob_match (crates/hdl-graph-core/src/helpers.rs), with which           *)
(* `query files` of the command line tool selects paths: a loop with two   *)
(* positions and the place of the last star to return to.  The tools of    *)
(* the MCP server turn the pattern into a regular expression instead,      *)
(* which matches anywhere in the text.                                     *)
(***************************************************************************)
EXTENDS Integers, Sequences, SequencesExt

CONSTANTS MaxPattern,  \* bound: characters of the pattern
          MaxText      \* bound: characters of the text

ASSUME GlobBoundsAssumption == MaxPattern \in Nat /\ MaxText \in Nat

VARIABLES pat, txt,          \* the pattern and the text
          pi, ti,            \* positions, from 0 as in the code
          star_pi, star_ti,  \* where the last star stands, and what it has taken; NoStar
          matching           \* "called", "loop", "tail" or the result

globVars == <<pat, txt, pi, ti, star_pi, star_ti, matching>>

NoStar == -1                      \* usize::MAX
PatternChar == {"a", "B", "*", "?"}
TextChar == {"A", "b", "*"}       \* a path may hold a star
to_lowercase(s) == [i \in DOMAIN s |-> CASE s[i] = "A" -> "a" [] s[i] = "B" -> "b" [] OTHER -> s[i]]

GlobCalled(p, t) == /\ pat = p /\ txt = t
                    /\ pi = 0 /\ ti = 0 /\ star_pi = NoStar /\ star_ti = 0
                    /\ matching = "called"

GlobInit == \E p \in BoundedSeq(PatternChar, MaxPattern), t \in BoundedSeq(TextChar, MaxText) : GlobCalled(p, t)

-----------------------------------------------------------------------------
Occurs(p, t) == \E i \in 0 .. Len(t) : IsPrefix(p, SubSeq(t, i + 1, Len(t)))

(* glob_match: everything, a substring without regard to case, or the loop *)
(* on the lower-case strings.                                              *)
glob_match ==
  /\ matching = "called"
  /\ pat' = to_lowercase(pat) /\ txt' = to_lowercase(txt)
  /\ matching' = IF pat \in {<<>>, <<"*">>} THEN "yes"
                 ELSE IF {"*", "?"} \cap ToSet(pat) # {} THEN "loop"
                 ELSE IF Occurs(to_lowercase(pat), to_lowercase(txt)) THEN "yes" ELSE "no"
  /\ UNCHANGED <<pi, ti, star_pi, star_ti>>

AtPat == pat[pi + 1]

SameChar == pi < Len(pat) /\ AtPat \in {"?", txt[ti + 1]}

(* Mutant of Retry: the star takes no further character.                   *)
RetryInPlace == /\ pi' = star_pi + 1
                /\ ti' = ti + 1
                /\ UNCHANGED <<star_pi, star_ti>>

(* Back to the last star, which takes one character more.                  *)
Retry == /\ pi' = star_pi + 1
         /\ star_ti' = star_ti + 1
         /\ ti' = star_ti + 1
         /\ UNCHANGED star_pi

(* A turn of `while ti < txt.len()` of glob_match_recursive.               *)
MatchChar ==
  /\ matching = "loop" /\ ti < Len(txt)
  /\ CASE SameChar -> /\ pi' = pi + 1 /\ ti' = ti + 1
                      /\ UNCHANGED <<star_pi, star_ti, matching>>
       [] ~SameChar /\ pi < Len(pat) /\ AtPat = "*" ->
            /\ star_pi' = pi /\ star_ti' = ti /\ pi' = pi + 1
            /\ UNCHANGED <<ti, matching>>
       [] ~SameChar /\ ~(pi < Len(pat) /\ AtPat = "*") /\ star_pi # NoStar ->
            Retry /\ UNCHANGED matching
       [] OTHER -> matching' = "no" /\ UNCHANGED <<pi, ti, star_pi, star_ti>>
  /\ UNCHANGED <<pat, txt>>

(* The text is used up: what is left of the pattern must be stars.         *)
MatchTail ==
  /\ matching = "loop" /\ ti >= Len(txt)
  /\ matching' = IF \A i \in pi + 1 .. Len(pat) : pat[i] = "*" THEN "yes" ELSE "no"
  /\ UNCHANGED <<pat, txt, pi, ti, star_pi, star_ti>>

GlobNext == glob_match \/ MatchChar \/ MatchTail
GlobSpec == GlobInit /\ [][GlobNext]_globVars

-----------------------------------------------------------------------------
(* Properties                                                              *)

(* Reference: a star stands for any characters, a question mark for one.   *)
(* cut[i] characters of the text are matched by the first i of the         *)
(* pattern.                                                                *)
Globs(p, t) ==
  \E cut \in [0 .. Len(p) -> 0 .. Len(t)] :
    /\ cut[0] = 0 /\ cut[Len(p)] = Len(t)
    /\ \A i \in 1 .. Len(p) : IF p[i] = "*" THEN cut[i - 1] <= cut[i]
                              ELSE cut[i] = cut[i - 1] + 1 /\ p[i] \in {"?", t[cut[i]]}

(* "Supports * (any chars) and ? (single char). Falls back to              *)
(* case-insensitive substring match if no glob chars": returning to the    *)
(* last star only, and never to an earlier one, decides every pattern on   *)
(* every text that holds no star itself.  (A star of the text is taken for *)
(* the star of the pattern before that is tried as a wildcard.)            *)
GlobIsExact ==
  (matching \in {"yes", "no"} /\ "*" \notin ToSet(txt)) =>
     (matching = "yes") =
        (IF {"*", "?"} \cap ToSet(pat) # {} THEN Globs(to_lowercase(pat), to_lowercase(txt))
         ELSE Occurs(to_lowercase(pat), to_lowercase(txt)))
=============================================================================
