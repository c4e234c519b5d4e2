---------------------------- MODULE Pass1Standard ---------------------------
(***************************************************************************)
(* pass1_standard::run (crates/hdl-graph-parse/src/preprocessor): the      *)
(* first pass of the pipeline the MCP server runs on every file before     *)
(* parsing it (crates/hdl-graph-mcp/src/server.rs).  Conditionals are kept *)
(* as a stack of booleans.  Each step reads one line; the lines are not    *)
(* kept, so the behaviours are the runs over all texts of Pass1Lines lines.*)
(* A macro is reduced to whether it is defined; the text that comes out is *)
(* left out.                                                               *)
(***************************************************************************)
EXTENDS CondChain, SequencesExt

CONSTANTS Pass1Macro,  \* macro names
          Pass1Lines   \* bound: lines of the file

ASSUME Pass1Assumption == Pass1Lines \in Nat

VARIABLES lines_read,    \* lines read
          ifdef_stack,   \* Vec<bool>
          chains,        \* history: the branches met so far, for each entry of ifdef_stack
          pass1_defines  \* the macros defined

pass1Vars == <<lines_read, ifdef_stack, chains, pass1_defines>>

(* `vec![true]`, and a copy of the table run was given.                    *)
Pass1Init == /\ lines_read = 0
             /\ ifdef_stack = <<TRUE>>
             /\ chains = << <<>> >>
             /\ pass1_defines \in SUBSET Pass1Macro

-----------------------------------------------------------------------------
Pass1Reads == lines_read < Pass1Lines /\ lines_read' = lines_read + 1

(* `ifdef_stack.last().copied().unwrap_or(true)`                           *)
LastOf(stack) == IF stack = <<>> THEN TRUE ELSE Last(stack)

Opens(directive, holds) ==
  /\ Pass1Reads
  /\ ifdef_stack' = Append(ifdef_stack, LastOf(ifdef_stack) /\ holds)
  /\ chains' = Append(chains, <<Branch(directive, holds)>>)
  /\ UNCHANGED pass1_defines

Pass1Ifdef(m) == Opens("ifdef", m \in pass1_defines)

Pass1Ifndef(m) == Opens("ifndef", m \notin pass1_defines)

Continued(directive, holds) == Append(Front(chains), Append(Last(chains), Branch(directive, holds)))

(* The entry is replaced by the condition of this branch; whether an       *)
(* earlier branch was taken is not on record.                              *)
Pass1Elsif(m) ==
  /\ Pass1Reads
  /\ ifdef_stack' = Append(Front(ifdef_stack), LastOf(Front(ifdef_stack)) /\ m \in pass1_defines)
  /\ chains' = Continued("elsif", m \in pass1_defines)
  /\ UNCHANGED pass1_defines

(* Mutant of Flipped: the blocks around it are not looked at.              *)
FlippedAlone(stack) == Append(Front(stack), ~Last(stack))

Flipped(stack) == Append(Front(stack), Last(Front(stack)) /\ ~Last(stack))

(* The top entry is flipped; an `else outside of any block is ignored.     *)
Pass1Else ==
  /\ Pass1Reads
  /\ IF Len(ifdef_stack) >= 2
       THEN ifdef_stack' = Flipped(ifdef_stack) /\ chains' = Continued("else", TRUE)
       ELSE UNCHANGED <<ifdef_stack, chains>>
  /\ UNCHANGED pass1_defines

(* An `endif too many leaves one active entry.                             *)
Pass1Endif ==
  /\ Pass1Reads
  /\ ifdef_stack' = IF Len(ifdef_stack) = 1 THEN <<TRUE>> ELSE Front(ifdef_stack)
  /\ chains' = IF Len(ifdef_stack) = 1 THEN << <<>> >> ELSE Front(chains)
  /\ UNCHANGED pass1_defines

Pass1Active == LastOf(ifdef_stack)

Pass1Define(m) ==
  /\ Pass1Reads
  /\ pass1_defines' = IF Pass1Active THEN pass1_defines \cup {m} ELSE pass1_defines
  /\ UNCHANGED <<ifdef_stack, chains>>

Pass1Undef(m) ==
  /\ Pass1Reads
  /\ pass1_defines' = IF Pass1Active THEN pass1_defines \ {m} ELSE pass1_defines
  /\ UNCHANGED <<ifdef_stack, chains>>

(* `include (a placeholder), a macro at the start of a line, other text.   *)
Pass1Text == Pass1Reads /\ UNCHANGED <<ifdef_stack, chains, pass1_defines>>

Pass1Next == \/ \E m \in Pass1Macro : \/ Pass1Ifdef(m) \/ Pass1Ifndef(m) \/ Pass1Elsif(m)
                                      \/ Pass1Define(m) \/ Pass1Undef(m)
             \/ Pass1Else
             \/ Pass1Endif
             \/ Pass1Text

Pass1Spec == Pass1Init /\ [][Pass1Next]_pass1Vars

-----------------------------------------------------------------------------
(* Properties                                                              *)

(* `ifdef ... `else ... `endif without `elsif is resolved exactly, and a   *)
(* block of any kind is active only inside active blocks, so that looking  *)
(* at the top entry is enough; the stack never runs empty, whatever        *)
(* `endif's the text has.                                                  *)
PlainChainsAreExact ==
  /\ ifdef_stack # <<>> /\ Len(chains) = Len(ifdef_stack)
  /\ \A i \in 2 .. Len(ifdef_stack) :
       /\ ifdef_stack[i] => ifdef_stack[i - 1]
       /\ Plain(chains[i]) => ifdef_stack[i] = (ifdef_stack[i - 1] /\ Selected(chains[i]))

(* "Resolve `ifdef/`ifndef/`elsif/`else/`endif": of the branches of one    *)
(* chain only the first whose condition holds is active.                   *)
OneBranchPerChain == \A i \in 2 .. Len(ifdef_stack) : ifdef_stack[i] => Selected(chains[i])
=============================================================================
