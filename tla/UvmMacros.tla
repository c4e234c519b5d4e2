------------------------------ MODULE UvmMacros -----------------------------
(***************************************************************************)
(* The UVM passes of the preprocessor (pass2_scanner.rs, pass3_expander.rs,*)
(* pass4_merger.rs and preprocess of preprocessor/mod.rs): every line is   *)
(* searched for each name of a table, and the lines with a call are        *)
(* commented out and followed by the code their macros stand for.  A step  *)
(* scans a line, or expands one.                                           *)
(*                                                                         *)
(* A line is the sequence of its macro calls.  Of the arguments of a call, *)
(* only their number matters and whether they end on the line.             *)
(***************************************************************************)
EXTENDS Integers, Sequences, SequencesExt, FiniteSets

CONSTANTS Table,      \* uvm_prefixes, in their order
          Shorter,    \* <<p, m>>: the name p of the table is a prefix of m
          OtherMacro, \* a macro that is not in the table
          SourceLines, \* bound: lines of a file
          MaxOnLine   \* bound: calls of a line

ASSUME UvmAssumption == SourceLines \in Nat /\ MaxOnLine \in Nat /\ OtherMacro \notin ToSet(Table)

VARIABLES uvm_source,      \* the lines after the first pass
          uvm_calls,   \* what scan has found
          expanded,    \* the lines of the result
          source_map,
          scanned, merged  \* lines done

uvmVars == <<uvm_source, uvm_calls, expanded, source_map, scanned, merged>>

UvmCall == [macro : ToSet(Table) \cup {OtherMacro}, args : {2}, closed : {TRUE}]
        \cup [macro : {Table[1]}, args : {2}, closed : {FALSE}]

UvmCalled(lines) ==
  /\ uvm_source = lines /\ uvm_calls = <<>> /\ expanded = <<>> /\ source_map = <<>>
  /\ scanned = 0 /\ merged = 0

(* A call that goes on in the next line is the last of its own             *)
UvmInit ==
  \E n \in 0 .. SourceLines :
    \E lines \in [1 .. n -> {l \in BoundedSeq(UvmCall, MaxOnLine) : \A k \in DOMAIN l : l[k].closed \/ k = Len(l)}] :
      UvmCalled(lines)

-----------------------------------------------------------------------------
(* extract_args: none if the name goes on after the prefix, and the last   *)
(* one is lost if the line ends first.                                     *)
extract_args(prefix, call) ==
  IF call.macro # prefix THEN 0 ELSE IF call.closed THEN call.args ELSE call.args - 1

(* line.find(prefix): the first place the text of the name stands at       *)
Find(prefix, line) == SelectInSeq(line, LAMBDA c : c.macro = prefix \/ <<prefix, c.macro>> \in Shorter)

(* Mutant of FoundOn: the search of a line ends with the first match.      *)
FoundOnce(n) ==
  LET at == SelectInSeq(Table, LAMBDA p : Find(p, uvm_source[n]) # 0)
  IN  IF at = 0 THEN <<>>
      ELSE << [line |-> n, macro |-> Table[at], args |-> extract_args(Table[at], uvm_source[n][Find(Table[at], uvm_source[n])])] >>

(* One line of scan: at most one call of each name of the table            *)
FoundOn(n) ==
  LET here == SelectSeq(Table, LAMBDA p : Find(p, uvm_source[n]) # 0)
  IN  [k \in DOMAIN here |->
         [line |-> n, macro |-> here[k], args |-> extract_args(here[k], uvm_source[n][Find(here[k], uvm_source[n])])]]

ScanLine ==
  /\ scanned < Len(uvm_source)
  /\ scanned' = scanned + 1
  /\ uvm_calls' = uvm_calls \o FoundOn(scanned + 1)
  /\ UNCHANGED <<uvm_source, expanded, source_map, merged>>

(* expand_one: the code for a macro, which is empty for some               *)
expand_one(call) == [is |-> "code", of |-> call.macro, args |-> call.args]

(* One line of expand.  Without any call the source is the result.         *)
ExpandLine ==
  LET n == merged + 1
      here == SelectSeq(uvm_calls, LAMBDA c : c.line = n)
  IN  /\ scanned = Len(uvm_source) /\ merged < Len(uvm_source)
      /\ merged' = n
      /\ expanded' = expanded \o (IF here = <<>> THEN << [is |-> "line", of |-> n] >>
                                  ELSE << [is |-> "comment", of |-> n] >> \o [k \in DOMAIN here |-> expand_one(here[k])])
      /\ source_map' = source_map \o [k \in DOMAIN here |-> [at |-> Len(expanded) + 1 + k, original_line |-> n]]
      /\ UNCHANGED <<uvm_source, uvm_calls, scanned>>

UvmNext == ScanLine \/ ExpandLine

UvmSpec == UvmInit /\ [][UvmNext]_uvmVars

-----------------------------------------------------------------------------
(* Properties                                                              *)

(* The calls of a line the passes are about                                *)
IsIn(l) == SelectSeq(l, LAMBDA c : c.macro # OtherMacro)

(* A line whose calls end on it, and on which no name stands twice, nor    *)
(* with a shorter one of the table in it                                   *)
NamedApart(l) ==
  /\ \A j, k \in DOMAIN l : l[j].macro = l[k].macro => j = k
  /\ \A k \in DOMAIN l : \A p \in ToSet(Table) : <<p, l[k].macro>> \notin Shorter
PlainLine(l) == NamedApart(l) /\ \A k \in DOMAIN l : l[k].closed

(* When a file is done, each of its lines is in the result once and in     *)
(* order, as a comment exactly if it has a call of the table, and the      *)
(* source map leads from every piece of code to the line it stands after.  *)
(* Whatever the lines around it are, the code after a plain line is that   *)
(* of its own calls, each once and with all of its arguments.              *)
CallsBecomeCode ==
  merged = Len(uvm_source) =>
    LET lines == SelectSeq(expanded, LAMBDA e : e.is # "code")
        codeOf(n) == {m \in DOMAIN source_map : source_map[m].original_line = n}
        lineOf(at) == SelectLastInSubSeq(expanded, 1, at, LAMBDA e : e.is # "code")
    IN  /\ [n \in DOMAIN lines |-> lines[n].of] = [n \in DOMAIN uvm_source |-> n]
        /\ \A n \in DOMAIN uvm_source : lines[n].is = (IF IsIn(uvm_source[n]) = <<>> THEN "line" ELSE "comment")
        /\ \A at \in DOMAIN expanded : expanded[at].is = "code" =>
             \E m \in codeOf(expanded[lineOf(at)].of) : source_map[m].at = at
        /\ \A n \in DOMAIN uvm_source : PlainLine(uvm_source[n]) =>
             /\ Cardinality(codeOf(n)) = Len(IsIn(uvm_source[n]))
             /\ {[macro |-> expanded[source_map[m].at].of, args |-> expanded[source_map[m].at].args, closed |-> TRUE] :
                    m \in codeOf(n)} = ToSet(IsIn(uvm_source[n]))

(* "Handles nested parentheses and basic multi-line macros": a call that   *)
(* is found has all of its arguments, also where the next line is there to *)
(* hold the last of them and nothing else.                                 *)
(* Does not hold (README, section 4).                                      *)
ArgumentsAreWhole ==
  \A i \in DOMAIN uvm_calls :
    LET n == uvm_calls[i].line  l == uvm_source[n]
    IN  (NamedApart(l) /\ n < Len(uvm_source) /\ uvm_source[n + 1] = <<>>) =>
          \A k \in DOMAIN l : l[k].macro = uvm_calls[i].macro => uvm_calls[i].args = l[k].args

(* "Returns a list of all detected UVM macro calls with their arguments":  *)
(* of a scanned line the list has each call of the table, as often as it   *)
(* stands there, and no other.                                             *)
(* Does not hold (README, section 4).                                      *)
EachCallIsListed ==
  \A n \in 1 .. scanned : \A p \in ToSet(Table) :
    Len(SelectSeq(uvm_calls, LAMBDA c : c.line = n /\ c.macro = p)) = Len(SelectSeq(uvm_source[n], LAMBDA c : c.macro = p))
=============================================================================
