---------------------------- MODULE MCTransports ----------------------------
(***************************************************************************)
(* The client's transports for TLC: the one over HTTP, or a server that is *)
(* a child process.  They share no state: a behaviour is one of them,      *)
(* chosen at the start.                                                    *)
(***************************************************************************)
EXTENDS HttpClient, ChildProcess

VARIABLE part
mcVars == <<vars, childVars, part>>

MCInit == /\ Init /\ ChildInit
          /\ \/ part = "http" /\ heeds /\ reads
             \/ part = "child"

InHttp(A) == part = "http" /\ A /\ UNCHANGED <<childVars, part>>
InChild(A) == part = "child" /\ A /\ UNCHANGED <<vars, part>>

MCNext == InHttp(Next) \/ InChild(ChildNext)

(* The fairness of each                                                    *)
MCSpec == /\ MCInit /\ [][MCNext]_mcVars
          /\ WF_mcVars(InHttp(WorkerStep)) /\ SF_mcVars(InHttp(LoopStep))
          /\ WF_mcVars(InHttp(StreamStep)) /\ WF_mcVars(InHttp(HandlerStep))
          /\ WF_mcVars(InChild(ChildStep))
=============================================================================
