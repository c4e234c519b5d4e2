---------------------------- MODULE MCMcpService ----------------------------
(***************************************************************************)
(* The MCP service for TLC: a handshake; the life of a service after one,  *)
(* with calls and one handler; or that of a service with two handlers and  *)
(* no calls, which ends with a drain of up to two answers.  They share no  *)
(* state: a behaviour is one of them, chosen at the start.                 *)
(***************************************************************************)
EXTENDS McpService, McpHandshake

VARIABLE part
mcVars == <<vars, hsVars, part>>

Handshaken == /\ client = [pc |-> "serving", asks |-> Preferred, has |-> Preferred]
              /\ server = [pc |-> "serving", peer |-> Preferred]
              /\ toServer = <<>> /\ toClient = <<>> /\ noise = MaxNoise

MCInit == /\ Init
          /\ \/ part = "handshake" /\ HsInit
             \/ part \in {"service", "drain"} /\ Handshaken

(* What a part of the service has                                          *)
WithinPart == \/ part = "service" /\ \A h, g \in peer'.asked : h = g
              \/ part = "drain" /\ \A c \in Calls : call'[c].pc = "new"

InHandshake(A) == part = "handshake" /\ A /\ UNCHANGED <<vars, part>>
InService(A) == A /\ WithinPart /\ UNCHANGED <<hsVars, part>>

MCNext == InHandshake(HsNext) \/ InService(Next)

(* Every task runs                                                         *)
MCSpec == /\ MCInit /\ [][MCNext]_mcVars
          /\ WF_mcVars(InHandshake(HsStep)) /\ WF_mcVars(InService(TaskStep))
=============================================================================
