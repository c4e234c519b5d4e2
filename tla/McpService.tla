----------------------------- MODULE McpService -----------------------------
(***************************************************************************)
(* The loop of an MCP peer (serve_inner) over a line transport             *)
(* (AsyncRwTransport), with its callers and its handlers.                  *)
(*                                                                         *)
(* The loop, every spawned send, every caller and every handler is a       *)
(* process of its own.  The loop selects one event at a time; a send is a  *)
(* task, so messages can reach the peer in another order than the loop     *)
(* took them.  The other peer is an environment that keeps to the          *)
(* protocol: it answers only what it received and uses each id once.       *)
(***************************************************************************)
EXTENDS Integers, Sequences, FiniteSets

CONSTANTS
  Calls,      \* requests made through Peer::send_request
  Timed,      \* those of them with PeerRequestOptions::timeout
  Nested,     \* those that handlers make
  Reqs,       \* requests of the other peer, one handler each
  SinkSize,   \* SINK_PROXY_BUFFER_SIZE
  MaxTalks,   \* bound: notifications and requests that handlers send
  MaxFaults,  \* bound: failing sends, panics, lines in two reads
  None

ASSUME ServiceAssumption ==
  /\ Timed \subseteq Calls /\ Nested \subseteq Calls
  /\ Calls \cap {None, "Closed", "Timeout", "Dropped", "SendError"} = {}
  /\ SinkSize \in Nat \ {0} /\ MaxTalks \in Nat /\ MaxFaults \in Nat

VARIABLES
  phase,      \* "loop", "drain", "broken" (the drain was left), "closed"
  quit,       \* QuitReason, or None
  call,       \* caller -> [pc, id, res, by]
  nextId,     \* AtomicU32Provider
  peerRx,     \* messages of the callers to the loop
  pool,       \* local_responder_pool: id -> caller
  sends,      \* send_task_set: messages being sent, or sent and not joined
  handler,    \* request of the other peer -> state of its handler
  tokens,     \* local_ct_pool: requests that can still be cancelled
  cancelled,  \* handlers whose context token is cancelled
  sink,       \* sink_proxy: answers of handlers
  resps,      \* response_send_tasks
  wire,       \* requests the other peer has not answered
  inbox,      \* lines from the other peer; eof once it has closed
  half,       \* the first part of a line is in line_buf
  peer,       \* what the other peer did: sent, asked to cancel, eof
  faults, talks

callers == <<call, nextId>>
handlers == <<handler, sink>>
loopVars == <<phase, quit, pool, sends, tokens, cancelled, resps>>
peerVars == <<wire, inbox, peer>>
vars == <<phase, quit, call, nextId, peerRx, pool, sends, handler, tokens, cancelled,
          sink, resps, wire, inbox, half, peer, faults, talks>>

Init ==
  /\ phase = "loop" /\ quit = None
  /\ call = [c \in Calls |-> [pc |-> "new", id |-> -1, res |-> None, by |-> None]]
  /\ nextId = 0 /\ peerRx = <<>> /\ pool = {} /\ sends = {}
  /\ handler = [h \in Reqs |-> "none"]
  /\ tokens = {} /\ cancelled = {} /\ sink = <<>> /\ resps = {}
  /\ wire = {} /\ inbox = <<>> /\ half = FALSE
  /\ peer = [asked |-> {}, withdrawn |-> {}, eof |-> FALSE]
  /\ faults = 0 /\ talks = 0

Fault == faults < MaxFaults /\ faults' = faults + 1
(* Message kinds: a request, a cancellation, a notification of a handler   *)
Msg(k, id, of) == [kind |-> k, id |-> id, of |-> of]

----------------------------------------------------------------------------
(* Callers.  A call is made by the application or by a running handler.    *)

(* Mutant of FreshId: the smallest id not in the pool, so that one can be    *)
(* used again while the answer to its first use is on its way.              *)
FreshIdReused ==
  CHOOSE i \in 0 .. Cardinality(Calls) : (\A p \in pool : p[1] # i)
     /\ \A j \in 0 .. i - 1 : \E p \in pool : p[1] = j

(* next_request_id                                                         *)
FreshId == nextId

Begin(c, h) ==
  /\ call[c].pc = "new"
  /\ nextId' = nextId + 1
  /\ IF phase = "closed"
     THEN /\ call' = [call EXCEPT ![c] = [pc |-> "over", id |-> FreshId, res |-> "Closed", by |-> h]]
          /\ UNCHANGED peerRx
     ELSE /\ call' = [call EXCEPT ![c] = [pc |-> "waiting", id |-> FreshId, res |-> None, by |-> h]]
          /\ peerRx' = Append(peerRx, Msg("request", FreshId, c))

SendRequest(c) ==
  /\ c \notin Nested /\ Begin(c, None)
  /\ UNCHANGED <<loopVars, handlers, peerVars, half, faults, talks>>

(* The timeout of await_response, or RequestHandle::cancel: the receiver is *)
(* gone, and the cancellation is sent through the loop.                     *)
GiveUp(c, res) ==
  /\ call[c].pc = "waiting"
  /\ call' = [call EXCEPT ![c].pc = "cancelling", ![c].res = res]
  /\ peerRx' = Append(peerRx, Msg("cancel", call[c].id, c))
  /\ UNCHANGED <<nextId, loopVars, handlers, peerVars, half, faults, talks>>

Timeout(c) == c \in Timed /\ GiveUp(c, "Timeout")
Cancel(c) == c \notin Timed /\ GiveUp(c, "Dropped")

(* responder.send wakes await_response; lost if the caller waits no longer *)
Resolved(c, res) ==
  IF call[c].pc = "waiting" THEN [call[c] EXCEPT !.pc = "over", !.res = res] ELSE call[c]

----------------------------------------------------------------------------
(* Handlers of the other peer's requests.                                  *)

(* A handler sends a progress notification and waits until it is sent      *)
Notify(h) ==
  /\ handler[h] = "running" /\ phase # "closed"
  /\ talks < MaxTalks /\ talks' = talks + 1
  /\ handler' = [handler EXCEPT ![h] = "notifying"]
  /\ peerRx' = Append(peerRx, Msg("note", -1, h))
  /\ UNCHANGED <<callers, sink, loopVars, peerVars, half, faults>>

(* A handler makes a request to the other peer                             *)
CallPeer(h, c) ==
  /\ handler[h] = "running" /\ phase # "closed"
  /\ talks < MaxTalks /\ talks' = talks + 1
  /\ Begin(c, h)
  /\ handler' = [handler EXCEPT ![h] = "calling"]
  /\ UNCHANGED <<sink, loopVars, peerVars, half, faults>>
GotAnswer(h) ==
  /\ handler[h] = "calling" /\ \E c \in Calls : call[c].by = h /\ call[c].pc = "over"
  /\ \A c \in Calls : call[c].by = h => call[c].pc = "over"
  /\ handler' = [handler EXCEPT ![h] = "running"]
  /\ UNCHANGED <<callers, peerRx, sink, loopVars, peerVars, half, faults, talks>>

(* The handler returns, and its answer goes to the loop                    *)
Finish(h) ==
  /\ handler[h] = "running"
  /\ IF phase = "closed"
     THEN handler' = [handler EXCEPT ![h] = "lost"] /\ UNCHANGED sink
     ELSE /\ Len(sink) < SinkSize
          /\ handler' = [handler EXCEPT ![h] = "answered"] /\ sink' = Append(sink, h)
  /\ UNCHANGED <<callers, peerRx, loopVars, peerVars, half, faults, talks>>

(* A panic ends the task without an answer                                 *)
Panic(h) ==
  /\ handler[h] = "running" /\ Fault
  /\ handler' = [handler EXCEPT ![h] = "panicked"]
  /\ UNCHANGED <<callers, peerRx, sink, loopVars, peerVars, half, talks>>

----------------------------------------------------------------------------
(* The tasks that send: they write to the wire and are joined later.       *)

Sending(m) == [msg |-> m, st |-> "sending"]

Send(m) ==
  /\ Sending(m) \in sends /\ phase # "closed"
  /\ \/ /\ sends' = (sends \ {Sending(m)}) \cup {[msg |-> m, st |-> "ok"]}
        /\ wire' = (IF m.kind = "request" /\ phase = "loop" THEN wire \cup {m} ELSE wire) /\ UNCHANGED faults
     \/ /\ Fault /\ UNCHANGED wire
        /\ sends' = (sends \ {Sending(m)}) \cup {[msg |-> m, st |-> "failed"]}
  /\ UNCHANGED <<callers, peerRx, handlers, phase, quit, pool, tokens, cancelled, resps,
                 inbox, peer, half, talks>>

SendResponse(h) ==
  /\ h \in resps /\ phase # "closed"
  /\ resps' = resps \ {h}
  /\ \/ handler' = [handler EXCEPT ![h] = "sent"] /\ UNCHANGED faults
     \/ Fault /\ handler' = [handler EXCEPT ![h] = "unsent"]
  /\ UNCHANGED <<callers, peerRx, sink, phase, quit, pool, sends, tokens, cancelled, peerVars, half, talks>>

----------------------------------------------------------------------------
(* The loop: one event at a time.  An event other than the transport's     *)
(* drops the receive future; the next one starts with an empty line_buf,   *)
(* and the rest of the line is no message.                                 *)

Torn == IF half THEN Tail(inbox) ELSE inbox
Selected == phase = "loop" /\ half' = FALSE /\ inbox' = Torn

OwnerOf(id) == {c \in Calls : <<id, c>> \in pool}
RemoveId(id) == {p \in pool : p[1] # id}

(* Event::ProxyMessage                                                     *)
LoopProxy ==
  /\ Selected /\ peerRx # <<>>
  /\ LET m == Head(peerRx) IN
     /\ pool' = IF m.kind = "request" THEN RemoveId(m.id) \cup {<<m.id, m.of>>} ELSE pool
     /\ sends' = sends \cup {Sending(m)}
  /\ peerRx' = Tail(peerRx)
  /\ UNCHANGED <<callers, handlers, phase, quit, tokens, cancelled, resps, wire, peer, faults, talks>>

(* Mutant of Joined: a failed send of a cancellation tells nobody.         *)
JoinedOnlyOk(m, ok) ==
  CASE m.kind = "request" -> UNCHANGED <<call, pool, handler>>
    [] m.kind = "cancel" ->
         /\ call' = IF ok THEN [call EXCEPT ![m.of].pc = "over"] ELSE call
         /\ pool' = RemoveId(m.id) /\ UNCHANGED handler
    [] m.kind = "note" ->
         handler' = [handler EXCEPT ![m.of] = "running"] /\ UNCHANGED <<call, pool>>

(* The caller that waits for its cancellation to be sent is let go, and    *)
(* so is the handler that waits for its notification.                      *)
Joined(m, ok) ==
  CASE m.kind = "request" ->
         IF ok THEN UNCHANGED <<call, pool, handler>>
         ELSE /\ call' = [c \in Calls |-> IF c \in OwnerOf(m.id) THEN Resolved(c, "SendError") ELSE call[c]]
              /\ pool' = RemoveId(m.id) /\ UNCHANGED handler
    [] m.kind = "cancel" ->
         /\ call' = [call EXCEPT ![m.of].pc = "over"]
         /\ pool' = RemoveId(m.id) /\ UNCHANGED handler
    [] m.kind = "note" ->
         handler' = [handler EXCEPT ![m.of] = "running"] /\ UNCHANGED <<call, pool>>

(* Event::SendTaskResult                                                   *)
LoopJoin ==
  /\ Selected
  /\ \E j \in sends : /\ j.st # "sending"
                      /\ Joined(j.msg, j.st = "ok")
                      /\ sends' = sends \ {j}
  /\ UNCHANGED <<nextId, peerRx, sink, phase, quit, tokens, cancelled, resps, wire, peer, faults, talks>>

(* Event::ToSink                                                           *)
LoopSink ==
  /\ Selected /\ sink # <<>>
  /\ sink' = Tail(sink)
  /\ resps' = resps \cup {Head(sink)}
  /\ tokens' = tokens \ {Head(sink)}
  /\ cancelled' = IF Head(sink) \in tokens THEN cancelled \cup {Head(sink)} ELSE cancelled
  /\ UNCHANGED <<callers, peerRx, handler, phase, quit, pool, sends, wire, peer, faults, talks>>

(* read_until returns with a part of the line                              *)
ReadHalf ==
  /\ phase = "loop" /\ inbox # <<>> /\ ~half /\ Fault
  /\ half' = TRUE
  /\ UNCHANGED <<callers, peerRx, handlers, loopVars, peerVars, talks>>

(* What an answer from the other peer does                                 *)
Answered(m) ==
  /\ call' = [c \in Calls |-> IF c \in OwnerOf(m.id) THEN Resolved(c, m.of) ELSE call[c]]
  /\ pool' = RemoveId(m.id)

(* Event::PeerMessage                                                      *)
LoopReceive ==
  /\ phase = "loop" /\ inbox # <<>>
  /\ half' = FALSE /\ inbox' = Tail(inbox)
  /\ LET m == Head(inbox) IN
     CASE m.kind = "request" ->
            /\ handler' = [handler EXCEPT ![m.id] = "running"]
            /\ tokens' = tokens \cup {m.id} /\ UNCHANGED <<cancelled, call, pool>>
       [] m.kind = "cancel" ->
            /\ cancelled' = IF m.id \in tokens THEN cancelled \cup {m.id} ELSE cancelled
            /\ tokens' = tokens \ {m.id} /\ UNCHANGED <<handler, call, pool>>
       [] m.kind = "answer" ->
            Answered(m) /\ UNCHANGED <<handler, tokens, cancelled>>
  /\ UNCHANGED <<nextId, peerRx, sink, phase, quit, sends, resps, wire, peer, faults, talks>>

(* The input has ended, or the token of the service is cancelled           *)
LoopQuits(reason) ==
  /\ phase = "loop"
  /\ reason = "Closed" => peer.eof /\ inbox = <<>>
  /\ phase' = "drain" /\ quit' = reason /\ half' = FALSE
  /\ cancelled' = IF reason = "Cancelled" THEN cancelled \cup {h \in Reqs : handler[h] # "none"}
                  ELSE cancelled
  /\ inbox' = <<>> /\ wire' = {}
  /\ UNCHANGED <<callers, peerRx, handlers, pool, sends, tokens, resps, peer, faults, talks>>

(* close, cancel and close_with_timeout of RunningService, which wait for   *)
(* the loop, and its drop, which does not                                  *)
OwnerCloses == LoopQuits("Cancelled")

----------------------------------------------------------------------------
(* After the loop: first the answers already being sent, then those in the *)
(* channel, until every handler has ended; at most five or two seconds.    *)

InFlight(h) == handler[h] \in {"running", "notifying", "calling"}

DrainSink ==
  /\ phase = "drain" /\ resps = {} /\ sink # <<>>
  /\ sink' = Tail(sink)
  /\ \/ handler' = [handler EXCEPT ![Head(sink)] = "sent"] /\ UNCHANGED <<phase, faults>>
     \/ /\ Fault /\ handler' = [handler EXCEPT ![Head(sink)] = "unsent"]
        /\ phase' = "broken"                    \* break: the rest stays in the channel
  /\ UNCHANGED <<callers, peerRx, quit, pool, sends, tokens, cancelled, resps, peerVars, half, talks>>

(* The end of the task: transport closed, channels and pools dropped       *)
Close ==
  /\ phase' = "closed"
  /\ call' = [c \in Calls |->
                IF call[c].pc = "cancelling" THEN [call[c] EXCEPT !.pc = "over"]
                ELSE Resolved(c, "Closed")]
  /\ handler' = [h \in Reqs |-> CASE handler[h] = "notifying" -> "running"
                                  [] handler[h] = "answered"  -> "lost"
                                  [] OTHER -> handler[h]]
  /\ peerRx' = <<>> /\ pool' = {} /\ sends' = {} /\ sink' = <<>> /\ resps' = {} /\ tokens' = {}
  /\ UNCHANGED <<nextId, quit, cancelled, peerVars, half, faults, talks>>

(* Mutant of DrainDone: the answers in the channel are not waited for.      *)
DrainDoneEarly ==
  /\ phase = "drain" /\ resps = {}
  /\ Close

DrainDone ==
  /\ phase = "drain" /\ resps = {} /\ sink = <<>>
  /\ \A h \in Reqs : ~InFlight(h)
  /\ Close

(* A send of the drain failed: the transport is closed at once             *)
BreakDone == phase = "broken" /\ Close

(* The drain takes longer than its timeout only when what it still waits   *)
(* for cannot happen: handlers that need nobody are quick enough.           *)
DrainTimeout ==
  /\ phase = "drain" /\ resps = {} /\ sink = <<>>
  /\ \A h \in Reqs : handler[h] # "running"
  /\ \E h \in Reqs : InFlight(h)
  /\ Close

----------------------------------------------------------------------------
(* The other peer.  What it does once the loop has quit is never read.     *)
PeerMay == phase = "loop" /\ ~peer.eof

PeerAsks(h) ==
  /\ h \notin peer.asked /\ PeerMay
  /\ peer' = [peer EXCEPT !.asked = @ \cup {h}]
  /\ inbox' = Append(inbox, Msg("request", h, None))
  /\ UNCHANGED <<callers, peerRx, handlers, loopVars, wire, half, faults, talks>>

PeerCancels(h) ==
  /\ h \in peer.asked \ peer.withdrawn /\ PeerMay
  /\ peer' = [peer EXCEPT !.withdrawn = @ \cup {h}]
  /\ inbox' = Append(inbox, Msg("cancel", h, None))
  /\ UNCHANGED <<callers, peerRx, handlers, loopVars, wire, half, faults, talks>>

(* It answers the requests it was sent, in any order and at any time; a    *)
(* cancelled request may still be answered.                                *)
PeerAnswers(m) ==
  /\ m \in wire /\ PeerMay
  /\ wire' = wire \ {m}
  /\ inbox' = Append(inbox, Msg("answer", m.id, m.of))
  /\ UNCHANGED <<callers, peerRx, handlers, loopVars, peer, half, faults, talks>>

PeerCloses ==
  /\ PeerMay
  /\ peer' = [peer EXCEPT !.eof = TRUE]
  /\ UNCHANGED <<callers, peerRx, handlers, loopVars, wire, inbox, half, faults, talks>>

----------------------------------------------------------------------------
HandlerStep(h) == GotAnswer(h) \/ Finish(h)
LoopStep == LoopProxy \/ LoopJoin \/ LoopSink \/ LoopReceive \/ LoopQuits("Closed")
DrainStep == DrainSink \/ DrainDone \/ BreakDone \/ DrainTimeout
SendStep == (\E j \in sends : Send(j.msg)) \/ (\E h \in resps : SendResponse(h))

Next ==
  \/ \E c \in Calls : SendRequest(c) \/ Timeout(c) \/ Cancel(c)
  \/ \E h \in Reqs : \/ HandlerStep(h) \/ Notify(h) \/ Panic(h)
                     \/ \E c \in Nested : CallPeer(h, c)
  \/ LoopStep \/ OwnerCloses \/ ReadHalf \/ DrainStep \/ SendStep
  \/ \E h \in Reqs : PeerAsks(h) \/ PeerCancels(h)
  \/ (\E m \in wire : PeerAnswers(m)) \/ PeerCloses

(* Some task that can run does, and timers run out; requests being finite   *)
(* in number, each task then gets its turn.  Nothing is assumed of the      *)
(* other peer, which may never answer.                                      *)
TaskStep ==
  \/ LoopStep \/ DrainStep \/ SendStep
  \/ (\E c \in Calls : Timeout(c)) \/ (\E h \in Reqs : HandlerStep(h))
Fairness == WF_vars(TaskStep)

Spec == Init /\ [][Next]_vars
FairSpec == Spec /\ Fairness

----------------------------------------------------------------------------
(* A caller gets the answer to its own request, whatever was cancelled,     *)
(* timed out or answered late before: ids are never reused while an answer  *)
(* can still arrive.                                                       *)
AnswersMatch == \A c \in Calls : call[c].res \in Calls => call[c].res = c

(* When the transport is closed, every handler that finished on its own has *)
(* had its answer sent: without one are only those whose own send failed,   *)
(* and those that wait for the loop.  Where a send of the drain has failed, *)
(* the answers that are still in the channel are lost, and the handlers     *)
(* that still run; what the loop had taken out of it before is sent even    *)
(* then, and a send that failed in the loop costs no other answer.          *)
DrainDelivers ==
  [][phase' = "closed" /\ phase # "closed" =>
       \A h \in Reqs :
         \/ handler[h] \in {"none", "sent", "unsent", "panicked", "notifying", "calling"}
         \/ phase = "broken" /\ (handler[h] = "running" \/ \E i \in 1 .. Len(sink) : sink[i] = h)]_vars

(* Nobody waits for ever: a request with a timeout ends, even if the other *)
(* peer never answers and the cancellation cannot be sent; and once the    *)
(* input has ended or the service was cancelled, the loop's task ends and  *)
(* every caller is released, whatever the handlers wait for.               *)
CallsEnd ==
  /\ \A c \in Timed : call[c].pc = "waiting" ~> call[c].pc = "over"
  /\ quit # None ~> phase = "closed" /\ \A c \in Calls : call[c].pc \in {"new", "over"}
=============================================================================
