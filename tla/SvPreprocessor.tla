--------------------------- MODULE SvPreprocessor ---------------------------
(***************************************************************************)
(* preprocess_sv_file and preprocess_sv_source                             *)
(* (crates/hdl-graph-parse/src/preprocessor/sv_preprocessor.rs): the       *)
(* preprocessor that follows `include, with one conditional stack per file *)
(* and one macro table for all.                                            *)
(*                                                                         *)
(* The text of a file is chosen line by line the first time the line is    *)
(* read and kept, so the behaviours are the runs over all texts of up to   *)
(* MaxLines lines, and a file included twice reads the same both times.    *)
(* A line is its directive and the name in it; a macro is reduced to       *)
(* whether it is defined, which is all the conditionals ask.  The text     *)
(* that comes out, and with it macro expansion, is left out.               *)
(***************************************************************************)
EXTENDS CondChain, SequencesExt

CONSTANTS File,        \* canonical paths
          Main,        \* the file preprocess_sv_file is called for
          Unreadable,  \* files that exist and cannot be read
          Unresolved,  \* an include path that names no file
          Macro,       \* macro names
          MaxLines     \* bound: lines of text, all files together

ASSUME FilesAssumption == /\ IsFiniteSet(File) /\ Main \in File \ Unreadable
                          /\ Unreadable \subseteq File /\ Unresolved \notin File
ASSUME LinesAssumption == MaxLines \in Nat

VARIABLES source,   \* file -> the lines read so far
          closed,   \* files read to their end
          calls,    \* running calls of preprocess_sv_source: [file, pos, ifdef_stack]
          visited,  \* the Vec handed down the calls
          defines   \* the macros defined

includeVars == <<source, closed, calls, visited, defines>>

Line(directive, name) == [directive |-> directive, name |-> name]

(* IfdefState; chain is history, the branches met so far.                  *)
IfdefState(parent, this, matched, chain) ==
  [parent_active |-> parent, this_active |-> this, has_matched |-> matched, chain |-> chain]

Bottom == IfdefState(TRUE, TRUE, TRUE, <<>>)

Call(f) == [file |-> f, pos |-> 1, ifdef_stack |-> <<Bottom>>]

IncludeInit == /\ source = [f \in File |-> <<>>]
               /\ closed = {}
               /\ calls = <<Call(Main)>>
               /\ visited = <<Main>>
               /\ defines \in SUBSET Macro

-----------------------------------------------------------------------------
(* Reading                                                                 *)

Current == Last(calls)
Stack == Current.ifdef_stack
IsActive(state) == state.parent_active /\ state.this_active
Active == IsActive(Last(Stack))

LinesRead == MapThenSumSet(LAMBDA f : Len(source[f]), File)

(* The next line of the running call is this one.                          *)
Reads(directive, name) ==
  /\ calls # <<>>
  /\ IF Current.pos <= Len(source[Current.file])
       THEN /\ source[Current.file][Current.pos] = Line(directive, name)
            /\ UNCHANGED source
       ELSE /\ Current.file \notin closed /\ LinesRead < MaxLines
            /\ source' = [source EXCEPT ![Current.file] = Append(@, Line(directive, name))]
  /\ UNCHANGED closed

(* The call goes on with the next line and this conditional stack.         *)
Onward(stack) ==
  [calls EXCEPT ![Len(calls)] = [file |-> Current.file, pos |-> Current.pos + 1, ifdef_stack |-> stack]]

(* `continue`: to the next line.                                           *)
Goto(stack) == calls' = Onward(stack) /\ UNCHANGED <<visited, defines>>

-----------------------------------------------------------------------------
(* Conditionals: handled whether the block is active or not                *)

Opened(directive, holds) == IfdefState(Active, holds, holds, <<Branch(directive, holds)>>)

Ifdef(m) == Reads("ifdef", m) /\ Goto(Append(Stack, Opened("ifdef", m \in defines)))

Ifndef(m) == Reads("ifndef", m) /\ Goto(Append(Stack, Opened("ifndef", m \notin defines)))

(* Mutant of Branched: a branch taken is not noted.                        *)
BranchedUnnoted(state, directive, holds) ==
  [state EXCEPT !.this_active = ~state.has_matched /\ holds,
                !.chain = Append(@, Branch(directive, holds))]

(* A further branch of a chain is taken when none was taken before.        *)
Branched(state, directive, holds) ==
  [state EXCEPT !.this_active = ~state.has_matched /\ holds,
                !.has_matched = state.has_matched \/ holds,
                !.chain = Append(@, Branch(directive, holds))]

Elsif(m) == Reads("elsif", m) /\ Goto(Append(Front(Stack), Branched(Last(Stack), "elsif", m \in defines)))

Else == Reads("else", "none") /\ Goto(Append(Front(Stack), Branched(Last(Stack), "else", TRUE)))

(* An `endif without an `ifdef is ignored.                                 *)
Endif == Reads("endif", "none") /\ Goto(IF Len(Stack) > 1 THEN Front(Stack) ELSE Stack)

-----------------------------------------------------------------------------
(* The other lines: skipped in an inactive block                           *)

Skip(directive, name) == Reads(directive, name) /\ ~Active /\ Goto(Stack)

(* Text, expanded inline, and the directives that are commented out.       *)
Text == Reads("text", "none") /\ Active /\ Goto(Stack)

Define(m) ==
  /\ Reads("define", m) /\ Active
  /\ defines' = defines \cup {m}
  /\ calls' = Onward(Stack)
  /\ UNCHANGED visited

Undef(m) ==
  /\ Reads("undef", m) /\ Active
  /\ defines' = defines \ {m}
  /\ calls' = Onward(Stack)
  /\ UNCHANGED visited

(* An include that resolve_include does not find, that is in progress      *)
(* already (a cycle), or that cannot be read leaves a comment or nothing.  *)
NoInclude(f) == f \notin File \/ f \in {visited[i] : i \in DOMAIN visited} \/ f \in Unreadable

IncludeNothing(f) == Reads("include", f) /\ Active /\ NoInclude(f) /\ Goto(Stack)

(* preprocess_sv_file for the included file: a new conditional stack, the  *)
(* same macro table.                                                       *)
IncludeFile(f) ==
  /\ Reads("include", f) /\ Active /\ ~NoInclude(f)
  /\ calls' = Append(Onward(Stack), Call(f))
  /\ visited' = Append(visited, f)
  /\ UNCHANGED defines

(* The end of a file.                                                      *)
Return ==
  /\ calls # <<>> /\ Current.pos > Len(source[Current.file])
  /\ closed' = closed \cup {Current.file}
  /\ calls' = Front(calls)
  /\ visited' = Front(visited)
  /\ UNCHANGED <<source, defines>>

IncludeNext == \/ \E m \in Macro : Ifdef(m) \/ Ifndef(m) \/ Elsif(m)
               \/ Else
               \/ Endif
               \/ \E m \in Macro : Skip("define", m) \/ Skip("undef", m) \/ Define(m) \/ Undef(m)
               \/ Skip("text", "none")
               \/ Text
               \/ \E f \in File \cup {Unresolved} : Skip("include", f) \/ IncludeNothing(f) \/ IncludeFile(f)
               \/ Return

IncludeSpec == IncludeInit /\ [][IncludeNext]_includeVars

-----------------------------------------------------------------------------
(* Properties                                                              *)

(* The three flags of a conditional mean what they are named for: the      *)
(* block is in the first branch whose condition held when it was met, some *)
(* branch was taken, and everything around the block is active, however    *)
(* conditionals nest and whatever the branches define or undefine.         *)
BranchesAreExclusive ==
  \A c \in DOMAIN calls :
    LET stack == calls[c].ifdef_stack IN
    \A i \in 2 .. Len(stack) :
      /\ stack[i].this_active = Selected(stack[i].chain)
      /\ stack[i].has_matched = \E j \in DOMAIN stack[i].chain : stack[i].chain[j].holds
      /\ stack[i].parent_active = IsActive(stack[i - 1])

=============================================================================
