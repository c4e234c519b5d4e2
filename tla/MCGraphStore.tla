---------------------------- MODULE MCGraphStore -----------------------------
(***************************************************************************)
(* The two stores for TLC.  A behaviour is a history of one of them,       *)
(* chosen at the start.                                                    *)
(***************************************************************************)
EXTENDS GraphStore, RocksStore

VARIABLE part
mcVars == <<vars, rocksVars, part>>

MCInit == part \in {"memory", "rocks"} /\ Init /\ RocksInit

MCNext ==
  /\ UNCHANGED part
  /\ \/ part = "memory" /\ Next /\ UNCHANGED rocksVars
     \/ part = "rocks" /\ RocksNext /\ UNCHANGED vars

MCSpec == MCInit /\ [][MCNext]_mcVars
=============================================================================
