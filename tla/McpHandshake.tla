---------------------------- MODULE McpHandshake ----------------------------
(***************************************************************************)
(* The start of an MCP connection: serve_client_with_ct_inner at one end,  *)
(* serve_server_with_ct_inner at the other, over two ordered channels.     *)
(* Either side can be cancelled and the peers are not alone: messages the  *)
(* protocol allows or discourages before the handshake (pings, log         *)
(* notifications, requests) are injected up to a bound.  A side that fails *)
(* drops its transport, which ends the other side's input.                 *)
(***************************************************************************)
EXTENDS Integers, Sequences

CONSTANTS
  Versions,   \* protocol versions a client can ask for
  Known,      \* ProtocolVersion::KNOWN_VERSIONS
  Preferred,  \* the version in the server's own InitializeResult
  MaxNoise    \* bound: injected messages, cancellations and handler failures

ASSUME HandshakeAssumption ==
  Known \subseteq Versions /\ Preferred \in Known /\ MaxNoise \in Nat

VARIABLES
  client,     \* [pc, asks, has]: asks the version, has the peer info
  server,     \* [pc, peer]: peer is the version the client asked for
  toServer, toClient, noise

hsVars == <<client, server, toServer, toClient, noise>>

HsInit ==
  /\ \E v \in Versions : client = [pc |-> "start", asks |-> v, has |-> "none"]
  /\ server = [pc |-> "await", peer |-> "none"]
  /\ toServer = <<>> /\ toClient = <<>> /\ noise = 0

M(kind, body) == [kind |-> kind, body |-> body]
Noise == noise < MaxNoise /\ noise' = noise + 1

----------------------------------------------------------------------------
(* The server.                                                             *)

ServerGets(kinds) ==
  /\ server.pc = "await" /\ toServer # <<>> /\ Head(toServer).kind \in kinds
  /\ toServer' = Tail(toServer)

(* A ping before initialize is answered                                    *)
ServerPing ==
  /\ ServerGets({"ping"})
  /\ toClient' = Append(toClient, M("pong", "none"))
  /\ UNCHANGED <<client, server, noise>>

ServerInitialize ==
  /\ ServerGets({"initialize"})
  /\ server' = [pc |-> "handle", peer |-> Head(toServer).body]
  /\ UNCHANGED <<client, toClient, noise>>

(* ExpectedInitializeRequest                                               *)
ServerRefuses ==
  /\ ServerGets({"request", "notification", "initialized"})
  /\ server' = [server EXCEPT !.pc = "failed"]
  /\ UNCHANGED <<client, toClient, noise>>

negotiate_protocol_version(requested, fallback) ==
  IF requested \in Known THEN requested ELSE fallback

(* service.handle_request: a result, an error, or a result of another kind *)
ServerHandles ==
  /\ server.pc = "handle"
  /\ \/ /\ server' = [server EXCEPT !.pc = "serving"]
        /\ toClient' = Append(toClient, M("result", negotiate_protocol_version(server.peer, Preferred)))
        /\ UNCHANGED noise
     \/ /\ Noise /\ server' = [server EXCEPT !.pc = "failed"]
        /\ toClient' = Append(toClient, M("error", "none"))
     \/ /\ Noise /\ server' = [server EXCEPT !.pc = "failed"]
        /\ UNCHANGED toClient
  /\ UNCHANGED <<client, toServer>>

(* The initialized notification is a message like any other by now         *)
ServerServes ==
  /\ server.pc = "serving" /\ toServer # <<>>
  /\ toServer' = Tail(toServer)
  /\ UNCHANGED <<client, server, toClient, noise>>

(* ConnectionClosed: the input ends after what was sent                    *)
ServerInputEnds ==
  /\ server.pc \in {"await", "serving"} /\ client.pc = "failed" /\ toServer = <<>>
  /\ server' = [server EXCEPT !.pc = "failed"]
  /\ UNCHANGED <<client, toServer, toClient, noise>>

----------------------------------------------------------------------------
(* The client.                                                             *)

ClientSends ==
  /\ client.pc = "start"
  /\ client' = [client EXCEPT !.pc = "await"]
  /\ toServer' = Append(toServer, M("initialize", client.asks))
  /\ UNCHANGED <<server, toClient, noise>>

(* The answer has the id of the initialize request and is its result       *)
Expected(m) == m.kind = "result"

(* expect_response and what follows it: an answer settles the handshake,   *)
(* log notifications are handled, pings and everything else ignored.       *)
ClientReceives ==
  /\ client.pc = "await" /\ toClient # <<>>
  /\ toClient' = Tail(toClient)
  /\ LET m == Head(toClient) IN
     \/ /\ Expected(m)
        /\ client' = [client EXCEPT !.pc = "serving", !.has = m.body]
        /\ toServer' = Append(toServer, M("initialized", "none"))
     \/ /\ ~Expected(m) /\ m.kind \in {"pong", "error"}
        /\ client' = [client EXCEPT !.pc = "failed"] /\ UNCHANGED toServer
     \/ /\ m.kind \in {"notification", "ping", "request"} /\ UNCHANGED <<client, toServer>>
  /\ UNCHANGED <<server, noise>>

ClientServes ==
  /\ client.pc = "serving" /\ toClient # <<>>
  /\ toClient' = Tail(toClient)
  /\ UNCHANGED <<client, server, toServer, noise>>

(* Mutant of ClientInputEnds: the end of the input is noticed only by the   *)
(* running service.                                                        *)
ClientInputEndsLater ==
  /\ client.pc = "serving" /\ server.pc = "failed" /\ toClient = <<>>
  /\ client' = [client EXCEPT !.pc = "failed"]
  /\ UNCHANGED <<server, toServer, toClient, noise>>

ClientInputEnds ==
  /\ client.pc \in {"await", "serving"} /\ server.pc = "failed" /\ toClient = <<>>
  /\ client' = [client EXCEPT !.pc = "failed"]
  /\ UNCHANGED <<server, toServer, toClient, noise>>

----------------------------------------------------------------------------
(* The cancellation token of either side                                   *)
ClientCancelled ==
  /\ client.pc # "failed" /\ Noise
  /\ client' = [client EXCEPT !.pc = "failed"]
  /\ UNCHANGED <<server, toServer, toClient>>
ServerCancelled ==
  /\ server.pc # "failed" /\ Noise
  /\ server' = [server EXCEPT !.pc = "failed"]
  /\ UNCHANGED <<client, toServer, toClient>>

Inject ==
  /\ Noise
  /\ \/ /\ \E k \in {"ping", "request", "notification"} : toServer' = Append(toServer, M(k, "none"))
        /\ client.pc # "failed" /\ UNCHANGED toClient
     \/ /\ \E k \in {"ping", "request", "notification"} : toClient' = Append(toClient, M(k, "none"))
        /\ server.pc # "failed" /\ UNCHANGED toServer
  /\ UNCHANGED <<client, server>>

HsStep ==
  \/ ServerPing \/ ServerInitialize \/ ServerRefuses \/ ServerHandles \/ ServerServes \/ ServerInputEnds
  \/ ClientSends \/ ClientReceives \/ ClientServes \/ ClientInputEnds

HsNext == HsStep \/ ClientCancelled \/ ServerCancelled \/ Inject

----------------------------------------------------------------------------
(* The handshake settles: both sides learn that it failed, or both serve   *)
(* with one version, the client's own where the server knows it.           *)
HandshakeSettles ==
  <>[](\/ /\ client.pc = "serving" /\ server.pc = "serving" /\ server.peer = client.asks
          /\ client.has = IF client.asks \in Known THEN client.asks ELSE Preferred
       \/ client.pc = "failed" /\ server.pc = "failed")
=============================================================================
