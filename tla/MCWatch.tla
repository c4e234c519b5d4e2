------------------------------- MODULE MCWatch -------------------------------
(* Instances of Watch for TLC: two files, contents with the outlines the   *)
(* extractor produces for a module with a port, for a module whose name    *)
(* does not parse (its id is taken and named by edges, but no node is      *)
(* made) and for a top-level class (one edge, twice).                      *)
EXTENDS Watch, TLC

CONSTANTS f1, f2, module, nameless, class, sub, top

MCIdsOf == [c \in Content |-> IF c = class THEN 2 ELSE 3]
MCNodesOf == [c \in Content |-> CASE c = module -> {0, 1, 2}
                                  [] c = nameless -> {0, 2}
                                  [] c = class -> {0, 1}]
MCEdgesOf == [c \in Content |-> CASE c = module -> (<<0, 1>> :> 1) @@ (<<1, 2>> :> 1)
                                  [] c = nameless -> <<1, 2>> :> 1
                                  [] c = class -> <<0, 1>> :> 2]

(* f1 lies in a subdirectory, f2 at the top.                               *)
MCDirsOf == [f \in File |-> IF f = f1 THEN {top, sub} ELSE {top}]
=============================================================================
