----------------------------- MODULE HttpClient -----------------------------
(***************************************************************************)
(* The streamable HTTP transport of the client: StreamableHttpClientWorker *)
(* between the service loop (the handler) and an HTTP server.  The worker  *)
(* posts one message at a time; answers come in the POST's own reply, on   *)
(* the event stream of the POST, or on the common stream of the session.   *)
(* A 404 makes the worker initialise a new session and post the message    *)
(* once more.  What it has for the handler goes through a bounded channel, *)
(* and the worker waits for room there.                                    *)
(*                                                                         *)
(* The server is an environment: it forgets sessions, breaks streams and   *)
(* fails requests, MaxFaults times in all.  Session 0 is no session.       *)
(***************************************************************************)
EXTENDS Integers, FiniteSets, Sequences

CONSTANTS
  Requests, Notes,  \* the messages of the handler after the handshake
  SseCapacity,      \* channel_buffer_capacity of sse_worker_tx
  HandlerCapacity,  \* that of the channel to the handler
  AllowStateless,   \* config.allow_stateless
  ReinitOnExpired,  \* config.reinit_on_expired_session
  ProtocolVersions, \* what the server may negotiate
  MaxSessions,      \* bound: sessions the server opens
  MaxFaults,        \* bound: failures of the server and the network
  None

ASSUME HttpClientAssumption ==
  /\ SseCapacity \in Nat \ {0} /\ HandlerCapacity \in Nat \ {0}
  /\ MaxSessions \in Nat /\ MaxFaults \in Nat
  /\ AllowStateless \in BOOLEAN /\ ReinitOnExpired \in BOOLEAN
  /\ None \notin Requests \cup Notes

Messages == Requests \cup Notes

VARIABLES
  pc,       \* where the worker's run is
  cur,      \* message whose responder the worker holds
  sid,      \* session_id, also of session_cleanup_info
  header,   \* mcp-protocol-version in protocol_headers
  pending,  \* perform_reinitialization: [sid, ver] of the new session
  streams,  \* tasks of the JoinSet: [sid, req, at]; req None: the common stream
  aborted,  \* the ones that abort_all ended
  sse,      \* sse_worker channel: requests whose answers are in it
  inbox,    \* from_handler_rx and the senders that wait for room in it
  result,   \* message -> "new", "queued", "ok" or "failed": its responder
  out,      \* what the worker sends to the handler: the request answered, or None
  toHandler,\* from_transport_rx: the same
  heard,    \* requests whose answer the handler received
  owner,    \* the WorkerTransport: "up", "closing" (close awaits), "gone" (dropped)
  live,     \* sessions the server knows: session -> version
  opened,   \* sessions the server has opened
  handled,  \* message -> times the server accepted it for processing
  via,      \* the client under the worker: "reqwest" or "unix socket"
  cut,      \* requests whose answer the server or the network will not deliver
  faults

vars == <<pc, cur, sid, header, pending, streams, aborted, sse, inbox, result, out,
          toHandler, heard, owner, live, opened, handled, via, cut, faults>>
server == <<live, opened, handled>>
handler == <<toHandler, heard, owner>>
client == <<sid, header, pending, streams, aborted, sse, inbox, out>>

Init ==
  /\ pc = "init" /\ cur = None /\ sid = 0 /\ header = None /\ pending = None
  /\ streams = {} /\ aborted = {} /\ sse = <<>> /\ inbox = <<>>
  /\ result = [m \in Messages |-> "new"] /\ out = None /\ toHandler = <<>> /\ heard = {} /\ owner = "up"
  /\ live = <<>> /\ opened = 0 /\ handled = [m \in Messages |-> 0]
  /\ cut = {} /\ faults = 0 /\ via \in {"reqwest", "unix socket"}

Live == DOMAIN live
Without(f, x) == [y \in DOMAIN f \ {x} |-> f[y]]
Fault == faults < MaxFaults /\ faults' = faults + 1

----------------------------------------------------------------------------
(* HTTP.                                                                   *)

(* What the server may answer to a POST under session s, and whether it    *)
(* took the message.  "unreadable": a 200 whose JSON body is no message.   *)
Replies(m, s) ==
  IF s # 0 /\ s \notin Live THEN {"404"}
  ELSE IF m \in Requests THEN {"sse", "json"} ELSE {"202", "empty200", "json"}
FaultyReplies == {"reset", "401", "403", "500", "500rpc", "badtype", "unreadable"}
Taken(reply) == reply \in {"sse", "json", "202", "empty200", "unreadable", "badtype"}

(* StreamableHttpClient of reqwest                                         *)
post_message(reply, m, s) ==
  CASE reply \in {"202", "unreadable"} -> "Accepted"
    [] reply = "404" -> IF s # 0 THEN "SessionExpired" ELSE "Error"
    [] reply = "empty200" -> IF m \in Requests THEN "Error" ELSE "Accepted"
    [] reply \in {"json", "500rpc"} -> "Json"
    [] reply = "sse" -> "Sse"
    [] OTHER -> "Error"
get_stream(reply) == IF reply \in {"sse", "json"} THEN "open" ELSE "failed"
delete_session(reply, s) == IF reply = "200" THEN {s} ELSE {}

(* The same over a Unix socket, where nothing looks for a JSON-RPC error   *)
(* in a failure; a GET or a DELETE ends the same way.                      *)
unix_post_message(reply, m, s) == IF reply = "500rpc" THEN "Error" ELSE post_message(reply, m, s)
unix_get_stream(reply) == get_stream(reply)
unix_delete_session(reply, s) == delete_session(reply, s)

Post(reply, m, s) == IF via = "reqwest" THEN post_message(reply, m, s) ELSE unix_post_message(reply, m, s)
Get(reply) == IF via = "reqwest" THEN get_stream(reply) ELSE unix_get_stream(reply)
Delete(reply, s) == IF via = "reqwest" THEN delete_session(reply, s) ELSE unix_delete_session(reply, s)

(* The reply to the message in hand                                        *)
Reply(m, s, reply) ==
  /\ \/ reply \in Replies(m, s) /\ UNCHANGED faults
     \/ reply \in FaultyReplies /\ (s = 0 \/ s \in Live) /\ Fault
  /\ handled' = IF Taken(reply) THEN [handled EXCEPT ![m] = @ + 1] ELSE handled
  /\ cut' = IF reply \in {"unreadable", "badtype"} THEN cut \cup {m} ELSE cut

(* POST of the initialize request without a session: expect_initialized    *)
(* waits for the response, however many other events come first.           *)
Initialized(s, v) ==
  \/ /\ opened < MaxSessions /\ s = opened + 1 /\ opened' = s /\ v \in ProtocolVersions
     /\ live' = [t \in Live \cup {s} |-> IF t = s THEN v ELSE live[t]]
     /\ UNCHANGED faults
  \/ s = 0 /\ v \in ProtocolVersions /\ UNCHANGED <<live, opened, faults>>

----------------------------------------------------------------------------
(* The handler's end of the transport.                                     *)

(* WorkerTransport::send                                                   *)
HandlerSends(m) ==
  /\ owner = "up" /\ result[m] = "new" /\ pc \notin {"init", "notice"}
  /\ IF pc = "done" THEN result' = [result EXCEPT ![m] = "failed"] /\ UNCHANGED inbox
     ELSE result' = [result EXCEPT ![m] = "queued"] /\ inbox' = Append(inbox, m)
  /\ UNCHANGED <<pc, cur, sid, header, pending, streams, aborted, sse, out, handler, server, cut, faults>>

(* WorkerTransport::receive, which only the service loop calls             *)
HandlerReceives ==
  /\ owner = "up" /\ toHandler # <<>>
  /\ toHandler' = Tail(toHandler) /\ heard' = heard \cup ({Head(toHandler)} \cap Requests)
  /\ UNCHANGED <<pc, cur, client, result, owner, server, cut, faults>>

(* close, which the loop calls last, cancels the token and waits for the   *)
(* worker; a drop cancels too, and drops the receiver.                     *)
HandlerCloses(how) ==
  /\ owner = "up" /\ pc # "init"
  /\ owner' = how /\ toHandler' = IF how = "gone" THEN <<>> ELSE toHandler
  /\ UNCHANGED <<pc, cur, client, result, heard, server, cut, faults>>

(* run returns: the responders it still holds are dropped                  *)
Returns ==
  /\ pc' = "done" /\ cur' = None /\ inbox' = <<>> /\ streams' = {} /\ sse' = <<>>
  /\ pending' = None /\ out' = None
  /\ result' = [m \in Messages |-> IF result[m] = "queued" THEN "failed" ELSE result[m]]
ReturnsEarly ==
  /\ Returns /\ UNCHANGED <<sid, header, aborted, handler>>

(* send_to_handler: waits for room in the channel, with no eye on the token *)
SendToHandler == Len(toHandler) < HandlerCapacity /\ toHandler' = Append(toHandler, out)

----------------------------------------------------------------------------
(* The handshake.                                                          *)

(* The common stream of a new session                                      *)
Common(s) == IF s = 0 THEN {} ELSE {[sid |-> s, req |-> None, at |-> "connect"]}

PostInitialize ==
  /\ pc = "init"
  /\ \/ \E s \in 0 .. MaxSessions, v \in ProtocolVersions :
          /\ Initialized(s, v)
          /\ IF s = 0 /\ ~AllowStateless THEN Returns /\ UNCHANGED <<sid, header>>
             ELSE /\ pc' = "notice" /\ sid' = s /\ header' = v
                  /\ UNCHANGED <<cur, inbox, streams, sse, pending, out, result>>
          /\ UNCHANGED <<handled, cut>>
     \/ /\ Fault /\ Returns
        /\ UNCHANGED <<sid, header, server, cut>>
  /\ UNCHANGED <<aborted, handler>>

(* The result goes to the handler, its initialized notification to the     *)
(* server.  A failure here returns past the cleanup.                       *)
PostInitialized ==
  /\ pc = "notice"
  /\ \/ /\ owner = "up" /\ (sid = 0 \/ sid \in Live)
        /\ pc' = "loop" /\ streams' = Common(sid)
        /\ UNCHANGED <<cur, aborted, inbox, sse, pending, out, result, faults, sid, header, handler>>
     \/ /\ owner # "up" /\ ReturnsEarly /\ UNCHANGED faults
     \/ /\ owner = "up" /\ (sid = 0 \/ sid \in Live) /\ Fault /\ ReturnsEarly
     \/ /\ owner = "up" /\ sid # 0 /\ sid \notin Live /\ ReturnsEarly /\ UNCHANGED faults
  /\ UNCHANGED <<server, cut>>

----------------------------------------------------------------------------
(* The main loop.                                                          *)

TakeMessage ==
  /\ pc = "loop" /\ inbox # <<>>
  /\ cur' = Head(inbox) /\ inbox' = Tail(inbox) /\ pc' = "post"
  /\ UNCHANGED <<sid, header, pending, streams, aborted, sse, out, result, handler, server, cut, faults>>

(* The responder of the message in hand is told                            *)
Concludes(how) == result' = [result EXCEPT ![cur] = how] /\ pc' = "loop" /\ cur' = None

(* Mutant of Outcome: the stream of a POST's answer is not read.           *)
OutcomeUnread(r) ==
  /\ IF r = "Json" THEN pc' = "deliver" /\ out' = (IF cur \in Requests THEN cur ELSE None) /\ UNCHANGED <<cur, result>>
     ELSE Concludes(IF r = "Error" THEN "failed" ELSE "ok") /\ UNCHANGED out
  /\ UNCHANGED <<streams, sid, header, aborted, inbox, sse, pending, handler>>

(* What the answer to a POST leads to                                      *)
Outcome(r) ==
  /\ IF r = "Json"
     THEN /\ pc' = "deliver" /\ out' = IF cur \in Requests THEN cur ELSE None
          /\ UNCHANGED <<cur, result>>
     ELSE Concludes(IF r = "Error" THEN "failed" ELSE "ok") /\ UNCHANGED out
  /\ streams' = IF r = "Sse" THEN streams \cup {[sid |-> sid, req |-> cur, at |-> "open"]} ELSE streams
  /\ UNCHANGED <<sid, header, aborted, inbox, sse, pending, handler>>

(* A JSON answer goes to the handler before the responder is told; when    *)
(* the handler is gone the worker returns past the cleanup.                *)
Deliver ==
  /\ pc = "deliver"
  /\ IF owner = "gone" THEN ReturnsEarly
     ELSE /\ SendToHandler /\ Concludes("ok") /\ out' = None
          /\ UNCHANGED <<sid, header, pending, streams, aborted, sse, inbox, heard, owner>>
  /\ UNCHANGED <<server, cut, faults>>

(* Mutant of Retried: any failed POST is taken for an expired session.      *)
RetriedAlways(r) == ReinitOnExpired /\ r \in {"SessionExpired", "Error"}

Retried(r) == ReinitOnExpired /\ r = "SessionExpired"
Failure(r) == IF r = "SessionExpired" THEN "Error" ELSE r

(* Mutant of PostMessage: the responder is dropped on expiry and forgotten. *)
PostMessageForgets ==
  /\ pc = "post"
  /\ \E reply \in Replies(cur, sid) \cup FaultyReplies :
       /\ Reply(cur, sid, reply)
       /\ LET r == Post(reply, cur, sid) IN
          IF r = "SessionExpired"
          THEN pc' = "loop" /\ cur' = None /\ UNCHANGED <<result, handler, client>>
          ELSE Outcome(Failure(r))
  /\ UNCHANGED <<live, opened>>

PostMessage ==
  /\ pc = "post"
  /\ \E reply \in Replies(cur, sid) \cup FaultyReplies :
       /\ Reply(cur, sid, reply)
       /\ LET r == Post(reply, cur, sid) IN
          IF Retried(r)
          THEN pc' = "reinit" /\ UNCHANGED <<cur, result, handler, client>>
          ELSE Outcome(Failure(r))
  /\ UNCHANGED <<live, opened>>

(* perform_reinitialization: initialize without a session, then initialized*)
Reinitialize ==
  /\ pc = "reinit"
  /\ \/ \E s \in 0 .. MaxSessions, v \in ProtocolVersions :
          /\ Initialized(s, v) /\ pending' = [sid |-> s, ver |-> v] /\ pc' = "renotice"
          /\ UNCHANGED <<cur, sid, header, streams, aborted, sse, inbox, out, result, handler>>
     \/ /\ Fault \/ (opened = MaxSessions /\ UNCHANGED faults)  \* a server at its limit refuses
        /\ Outcome("Error") /\ UNCHANGED <<live, opened>>
  /\ UNCHANGED <<handled, cut>>

(* The streams of the old session are aborted, whatever they have received *)
(* and could not yet pass on; the common stream of the new session opens.  *)
AdoptSession ==
  /\ sid' = pending.sid /\ header' = pending.ver
  /\ aborted' = aborted \cup streams /\ streams' = Common(pending.sid)

Reinitialized ==
  /\ pc = "renotice"
  /\ \/ /\ pending.sid = 0 \/ pending.sid \in Live
        /\ AdoptSession /\ pc' = "repost" /\ UNCHANGED <<cur, result, faults>>
     \/ /\ \/ Fault
           \/ pending.sid # 0 /\ pending.sid \notin Live /\ UNCHANGED faults
        /\ Concludes("failed") /\ UNCHANGED <<sid, header, streams, aborted>>
  /\ pending' = None
  /\ UNCHANGED <<sse, inbox, out, handler, server, cut>>

(* The message once more, in the new session                               *)
Repost ==
  /\ pc = "repost"
  /\ \E reply \in Replies(cur, sid) \cup FaultyReplies :
       Reply(cur, sid, reply) /\ Outcome(Failure(Post(reply, cur, sid)))
  /\ UNCHANGED <<live, opened>>

(* A message from a stream goes to the handler                             *)
ServerMessage ==
  /\ pc = "loop" /\ sse # <<>>
  /\ out' = Head(sse) /\ sse' = Tail(sse) /\ pc' = "forward"
  /\ UNCHANGED <<cur, sid, header, pending, streams, aborted, inbox, result, handler, server, cut, faults>>

Forward ==
  /\ pc = "forward" /\ out' = None
  /\ IF owner = "gone" THEN pc' = "cleanup" /\ UNCHANGED toHandler
     ELSE pc' = "loop" /\ SendToHandler
  /\ UNCHANGED <<cur, sid, header, pending, streams, aborted, sse, inbox, result, heard, owner, server, cut, faults>>

(* The token is cancelled, or the handler's channel is closed              *)
Stopped ==
  /\ pc = "loop" /\ owner # "up"
  /\ pc' = "cleanup"
  /\ UNCHANGED <<cur, client, result, handler, server, cut, faults>>

(* The session is deleted, within SESSION_CLEANUP_TIMEOUT; a server need   *)
(* not support that.                                                       *)
DeleteSession ==
  /\ pc = "cleanup" /\ Returns
  /\ \/ \E reply \in {"200", "405"} : live' = [s \in Live \ Delete(reply, sid) |-> live[s]] /\ UNCHANGED faults
     \/ Fault /\ UNCHANGED live
  /\ UNCHANGED <<sid, header, aborted, handler, opened, handled, cut>>

----------------------------------------------------------------------------
(* Streams.                                                                *)

(* A stream opens, or fails, or the server has no event streams            *)
Connect(s) ==
  /\ s \in streams /\ s.at = "connect"
  /\ \E reply \in {"sse", "404", "405", "500"} :
       /\ reply = "404" <=> s.sid \notin Live
       /\ IF reply = "500" THEN Fault ELSE UNCHANGED faults
       /\ streams' = (streams \ {s}) \cup {t \in {[s EXCEPT !.at = Get(reply)]} : t.at = "open"}
  /\ UNCHANGED <<pc, cur, sid, header, pending, aborted, sse, inbox, result, out, handler, server, cut>>

(* The event goes to sse_worker_tx when there is room.  The answer to a    *)
(* POST ends its stream, after a drain.                                    *)
Pass(s) ==
  /\ Len(sse) < SseCapacity /\ sse' = Append(sse, s.req)
  /\ streams' = (streams \ {s}) \cup {[s EXCEPT !.at = IF s.req = None THEN "open" ELSE "drain"]}

(* An event arrives, and waits for room with the stream ("held")           *)
StreamEvent(s) ==
  /\ s \in streams /\ s.at = "open"
  /\ \/ Pass(s)
     \/ /\ Len(sse) >= SseCapacity /\ UNCHANGED sse
        /\ streams' = (streams \ {s}) \cup {[s EXCEPT !.at = "held"]}
  /\ UNCHANGED <<pc, cur, sid, header, pending, aborted, inbox, result, out, handler, server, cut, faults>>

StreamPasses(s) ==
  /\ s \in streams /\ s.at = "held" /\ Pass(s)
  /\ UNCHANGED <<pc, cur, sid, header, pending, aborted, inbox, result, out, handler, server, cut, faults>>

(* A drained stream ends; so does one the server or the network ends (the  *)
(* common stream after its retries) and, once the token is cancelled, one  *)
(* that waits for an event.                                                *)
StreamEnds(s) ==
  /\ s \in streams
  /\ \/ s.at = "drain" /\ UNCHANGED <<cut, faults>>
     \/ s.at = "open" /\ owner # "up" /\ UNCHANGED <<cut, faults>>
     \/ /\ s.at = "open" /\ cut' = cut \cup ({s.req} \cap Requests)
        /\ IF s.sid \in Live \cup {0} THEN Fault ELSE UNCHANGED faults
  /\ streams' = streams \ {s}
  /\ UNCHANGED <<pc, cur, sid, header, pending, aborted, sse, inbox, result, out, handler, server>>

(* The server forgets a session; what it sent there is still on its way    *)
Forget(s) ==
  /\ Fault /\ s \in Live
  /\ live' = Without(live, s)
  /\ UNCHANGED <<pc, cur, client, result, handler, opened, handled, cut>>

----------------------------------------------------------------------------
LoopStep == UNCHANGED via /\ (TakeMessage \/ Stopped)
WorkerStep ==
  \/ LoopStep
  \/ /\ UNCHANGED via
     /\ \/ PostInitialize \/ PostInitialized \/ PostMessage \/ Reinitialize \/ Reinitialized
        \/ Repost \/ Deliver \/ ServerMessage \/ Forward \/ DeleteSession
StreamStep == /\ UNCHANGED via
              /\ \E s \in streams : \/ Connect(s) \/ (s.req # None /\ StreamEvent(s))
                                   \/ StreamPasses(s) \/ StreamEnds(s)
HandlerStep == UNCHANGED via /\ HandlerReceives

Next ==
  \/ WorkerStep \/ StreamStep \/ HandlerStep
  \/ /\ UNCHANGED via
     /\ \/ \E m \in Messages : HandlerSends(m)
        \/ \E how \in {"closing", "gone"} : HandlerCloses(how)
        \/ \E s \in streams : s.req = None /\ StreamEvent(s)
        \/ \E s \in Live : Forget(s)

Spec == Init /\ [][Next]_vars
(* The worker and its streams are scheduled and every POST ends; the       *)
(* service loop receives as long as it runs; the select! of the loop picks *)
(* a ready branch at random, so that events of the server do not starve    *)
(* the handler.                                                            *)
FairSpec == /\ Spec /\ WF_vars(WorkerStep) /\ SF_vars(LoopStep)
            /\ WF_vars(StreamStep) /\ WF_vars(HandlerStep)

----------------------------------------------------------------------------
(* The transparent retry never executes anything twice: the server takes    *)
(* each message of the handler at most once, whatever failed in between.    *)
HandledOnce == \A m \in Messages : handled[m] <= 1

(* While the transport is up, a request whose sending succeeded is answered,*)
(* or its answer is still on its way, or the server or the network never    *)
(* delivered it, or a re-initialisation aborted its stream: neither the two *)
(* bounded channels nor the ends of streams lose one.                       *)
AnswersHaveAWay ==
  \A r \in Requests :
    result[r] = "ok" /\ r \notin heard /\ owner = "up" =>
      \/ r \in cut \/ (\E s \in aborted : s.req = r)
      \/ \E s \in streams : s.req = r /\ s.at \in {"open", "held"}
      \/ (\E i \in DOMAIN sse : sse[i] = r) \/ out = r
      \/ \E i \in DOMAIN toHandler : toHandler[i] = r

(* Recovery from an expired session is transparent: an answer the client    *)
(* has received under the old session is not thrown away with its stream.   *)
(* Does not hold (README, section 4).                                      *)
ReceivedIsKept == \A s \in aborted : s.req # None => s.at # "held"

(* The worker waits for a handler that closes the transport and reads no    *)
(* more.                                                                    *)
Stuck == owner = "closing" /\ pc \in {"deliver", "forward"} /\ Len(toHandler) >= HandlerCapacity

(* Every message the handler hands over is answered for: it was sent or its *)
(* sender learns that it was not, across expiry and shutdown, unless the    *)
(* handler closes while the worker waits for it to read.                    *)
SendsConclude == \A m \in Messages : result[m] = "queued" ~> result[m] \in {"ok", "failed"} \/ Stuck

(* close returns: the worker it waits for ends.                             *)
(* Does not hold (README, section 4).                                      *)
CloseEnds == owner = "closing" ~> pc = "done"
=============================================================================
