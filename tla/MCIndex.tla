------------------------------- MODULE MCIndex -------------------------------
(***************************************************************************)
(* The index for TLC: the extraction of one file with the queries on what  *)
(* it makes, or the incremental index of a project under watch, whose      *)
(* files have outlines such as the extractor makes.  A behaviour is one of *)
(* the two, chosen at the start.                                           *)
(***************************************************************************)
EXTENDS MCExtractor, MCWatch

VARIABLE part
mcVars == <<vars, sysVars, part>>

Unwatched == WatchInit /\ disk = [f \in File |-> Missing]

MCInit == \/ part = "extract" /\ Init /\ Unwatched
          \/ part = "watch" /\ Init /\ WatchInit

MCNext ==
  /\ UNCHANGED part
  /\ \/ part = "extract" /\ Next /\ UNCHANGED sysVars
     \/ part = "watch" /\ WatchNext /\ UNCHANGED vars

Watched(A) == part = "watch" /\ A /\ UNCHANGED <<vars, part>>

MCSpec == MCInit /\ [][MCNext]_mcVars /\ WF_mcVars(Watched(Tool)) /\ WF_mcVars(Watched(Elapse))
=============================================================================
