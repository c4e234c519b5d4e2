----------------------------- MODULE CondChain ------------------------------
(***************************************************************************)
(* Reference for conditional compilation, independent of how the two       *)
(* preprocessors keep track of it.  A chain is the list of the branches of *)
(* one `ifdef ... `endif met so far, each with the directive that opened   *)
(* it and the truth of its condition when it was met (`else is true).      *)
(***************************************************************************)
EXTENDS Integers, Sequences

Branch(directive, holds) == [directive |-> directive, holds |-> holds]

(* The branch the text is in is the first one whose condition holds.       *)
Selected(chain) ==
  /\ chain # <<>>
  /\ chain[Len(chain)].holds
  /\ \A i \in 1 .. Len(chain) - 1 : ~chain[i].holds

(* `ifdef or `ifndef, then at most one `else.                              *)
Plain(chain) ==
  /\ \A i \in DOMAIN chain : chain[i].directive # "elsif"
  /\ Len(chain) <= 2
=============================================================================
