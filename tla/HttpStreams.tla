---------------------------- MODULE HttpStreams ----------------------------
(***************************************************************************)
(* The event streams of one session of the streamable HTTP transport: the  *)
(* worker that owns the session (LocalSessionWorker), the SSE connections  *)
(* it writes to, and the client's streams, of which the standalone one     *)
(* reconnects by itself (SseAutoReconnectStream).                          *)
(*                                                                         *)
(* The worker is one task: it takes one event from its channel, or one     *)
(* message from the MCP handler, at a time.  While it waits for room in    *)
(* the channel of a slow connection (outbox) it does nothing else.  A      *)
(* connection can be lost without the server noticing: the server then     *)
(* still writes to it, and what it writes is gone.                         *)
(***************************************************************************)
EXTENDS Integers, Sequences, FiniteSets, SequencesExt

CONSTANTS
  Reqs,        \* client requests, each with its MCP id and its progress token
  Capacity,    \* SessionConfig::channel_capacity
  MaxShadows,  \* MAX_SHADOW_STREAMS
  Priming,     \* TRUE if sse_retry is configured
  MaxCommon,   \* bound: events the standalone stream ever carries
  MaxConns,    \* bound: connections ever opened
  MaxNotes,    \* bound: notifications on the stream of one request
  MaxUpsets    \* bound: POST streams lost or abandoned, GETs refused, streams closed,
               \* requests cancelled, the session ended

ASSUME StreamsAssumption ==
  /\ Capacity \in Nat \ {0}
  /\ MaxShadows \in Nat \ {0}
  /\ Priming \in BOOLEAN
  /\ {MaxCommon, MaxConns, MaxNotes, MaxUpsets} \subseteq Nat

NoConn == 0
NoId == -1
Conn == 1 .. MaxConns
HttpId == 0 .. MaxConns

VARIABLES
  phase,      \* "run" until the worker quits
  router,     \* tx_router: HttpId -> [keys, cache, tx, done]
  resources,  \* resource_router: Key -> HttpId
  common,     \* the standalone stream: [cache, tx]
  shadows,    \* shadow_txs
  nextId,     \* next_http_request_id
  outbox,     \* the send the worker is waiting to complete: [c, ev]
  events,     \* the channel of SessionEvents
  chan,       \* connection -> [q: events in the channel, up: receiver alive]
  open,       \* requests the MCP handler is working on
  post,       \* request -> its POST exchange: [st, h, c, seen]
  get,        \* the client's standalone stream: [st, c, last]
  got,        \* index of the last message the standalone stream delivered
  upsets

workerVars == <<phase, router, resources, common, shadows, nextId, outbox>>
client == <<post, get, got, upsets>>
streamVars == <<workerVars, events, chan, open, client>>

----------------------------------------------------------------------------
(* Events of a stream, and the cache kept with its sender (CachedTx).      *)

Ev(i, t, r) == [i |-> i, t |-> t, r |-> r]

(* CachedTx::next_event_id                                                 *)
NextIndex(cache, start) == IF cache = <<>> THEN start ELSE Last(cache).i + 1

(* CachedTx::cache_and_send: the oldest event makes room for the new one   *)
CacheAdd(cache, ev) ==
  Append(IF Len(cache) >= Capacity THEN Tail(cache) ELSE cache, ev)

(* CachedTx::sync: the position in the cache from which events are replayed *)
SyncSkip(cache, index) ==
  IF cache = <<>> THEN 0 ELSE IF index > cache[1].i THEN index - cache[1].i ELSE 0

SyncFails(cache, index) == SyncSkip(cache, index) > Len(cache)

(* Mutant of Replay: only what follows the last event id.                  *)
ReplayAfter(cache, index) == SubSeq(cache, SyncSkip(cache, index + 1) + 1, Len(cache))

Replay(cache, index) == SubSeq(cache, SyncSkip(cache, index) + 1, Len(cache))

(* Sending to a closed channel is ignored, to an open one may have to wait *)
ToSend(c, ev) == IF c = NoConn THEN <<>> ELSE <<[c |-> c, ev |-> ev]>>

Without(f, S) == [x \in DOMAIN f \ S |-> f[x]]
With(f, x, v) == [y \in DOMAIN f \cup {x} |-> IF y = x THEN v ELSE f[y]]

(* A sender of connection c exists: its stream has not ended               *)
SenderAlive(c) ==
  /\ phase = "run"
  /\ \/ common.tx = c
     \/ \E h \in DOMAIN router : router[h].tx = c
     \/ \E k \in DOMAIN shadows : shadows[k] = c
     \/ outbox # <<>> /\ outbox[1].c = c

Fresh == {c \in Conn : chan[c].st = "unused"}
NewConn == CHOOSE c \in Fresh : \A d \in Fresh : c <= d

Opened(c, q) == [chan EXCEPT ![c] = [st |-> "up", q |-> q, prime |-> FALSE]]

Closed == [st |-> "closed", q |-> <<>>, prime |-> FALSE]

(* tx.is_closed(): no connection, or its receiver was dropped              *)
IsClosed(c) == IF c = NoConn THEN TRUE ELSE chan[c].st # "up"

(* resume first drops the shadow senders whose connection is closed        *)
LiveShadows == SelectSeq(shadows, LAMBDA c : ~IsClosed(c))

----------------------------------------------------------------------------
StreamsInit ==
  /\ phase = "run"
  /\ router = << >> /\ resources = << >>
  /\ common = [cache |-> <<>>, tx |-> NoConn]
  /\ shadows = <<>> /\ nextId = 0 /\ outbox = <<>> /\ events = <<>>
  /\ chan = [c \in Conn |-> [st |-> "unused", q |-> <<>>, prime |-> FALSE]]
  /\ open = {}
  /\ post = [r \in Reqs |-> [st |-> "new", h |-> NoId, c |-> NoConn, seen |-> NoId]]
  /\ get = [st |-> "start", c |-> NoConn, last |-> NoId]
  /\ got = NoId /\ upsets = 0

(* The worker is at its select: nothing it has to finish first             *)
AtSelect == phase = "run" /\ outbox = <<>>

(* A sender waits while the channel of events is full                      *)
Emit(e) == phase = "run" /\ Len(events) < Capacity /\ events' = Append(events, e)

Event(t, r, h, i, c) == [t |-> t, r |-> r, h |-> h, i |-> i, c |-> c]

NextEvent(t) == AtSelect /\ events # <<>> /\ Head(events).t = t /\ events' = Tail(events)

----------------------------------------------------------------------------
(* Messages from the MCP handler.                                          *)

SendCommon(t, r) ==
  LET ev == Ev(NextIndex(common.cache, 0), t, r) IN
  /\ ev.i < MaxCommon
  /\ common' = [common EXCEPT !.cache = CacheAdd(@, ev)]
  /\ outbox' = ToSend(common.tx, ev)

SendRequestWise(h, t, r) ==
  LET ev == Ev(NextIndex(router[h].cache, IF Priming THEN 1 ELSE 0), t, r) IN
  /\ router' = [router EXCEPT ![h].cache = CacheAdd(@, ev)]
  /\ outbox' = ToSend(router[h].tx, ev)

(* resolve_outbound_channel, for the messages that look up a key           *)
IsRouted(key) == key \in DOMAIN resources

(* A response: sent on the stream of its request, which is then removed    *)
(* with its keys.  If the stream is gone the message is dropped and the    *)
(* key removed; if the request was cancelled the response goes to the      *)
(* standalone stream.                                                      *)
Respond(r) ==
  LET key == <<"id", r>>
      h   == resources[key] IN
  /\ AtSelect /\ r \in open
  /\ open' = open \ {r}
  /\ \/ /\ IsRouted(key) /\ h \in DOMAIN router
        /\ LET ev == Ev(NextIndex(router[h].cache, IF Priming THEN 1 ELSE 0), "response", r)
           IN outbox' = ToSend(router[h].tx, ev)
        /\ router' = Without(router, {h})
        /\ resources' = Without(resources, router[h].keys)
        /\ UNCHANGED common
     \/ /\ IsRouted(key) /\ h \notin DOMAIN router
        /\ resources' = Without(resources, {key})
        /\ UNCHANGED <<router, common, outbox>>
     \/ /\ ~IsRouted(key)
        /\ SendCommon("response", r)
        /\ UNCHANGED <<router, resources>>
  /\ UNCHANGED <<phase, shadows, nextId, events, chan, client>>

(* Progress of r, by its token; a server-side cancellation is looked up by *)
(* request id in the same table.                                           *)
Notify(r, t) ==
  LET key == IF t = "progress" THEN <<"token", r>> ELSE <<"id", r>>
      h   == resources[key] IN
  /\ AtSelect /\ r \in open
  /\ \/ /\ IsRouted(key) /\ h \in DOMAIN router
        /\ Len(router[h].cache) < MaxNotes
        /\ SendRequestWise(h, t, r)
        /\ UNCHANGED common
     \/ /\ ~IsRouted(key)
        /\ SendCommon(t, r)
        /\ UNCHANGED router
     \/ /\ IsRouted(key) /\ h \notin DOMAIN router
        /\ UNCHANGED <<router, common, outbox>>
  /\ t = "cancelled" => upsets < MaxUpsets
  /\ upsets' = IF t = "cancelled" THEN upsets + 1 ELSE upsets
  /\ UNCHANGED <<phase, resources, shadows, nextId, events, chan, open, post, get, got>>

(* A request or a general notification of the server                       *)
ServerInitiated ==
  /\ AtSelect
  /\ SendCommon("server", NoId)
  /\ UNCHANGED <<phase, router, resources, shadows, nextId, events, chan, open, client>>

(* The send completes, or is given up because the receiver was dropped     *)
Flush ==
  /\ phase = "run" /\ outbox # <<>>
  /\ LET c == outbox[1].c IN
     \/ /\ ~IsClosed(c) /\ Len(chan[c].q) < Capacity
        /\ chan' = [chan EXCEPT ![c].q = Append(@, outbox[1].ev)]
     \/ /\ IsClosed(c)
        /\ UNCHANGED chan
  /\ outbox' = <<>>
  /\ UNCHANGED <<phase, router, resources, common, shadows, nextId, events, open, client>>

----------------------------------------------------------------------------
(* Events of the HTTP layer.                                               *)

EstablishRequestWiseChannel ==
  /\ NextEvent("establish")
  /\ Fresh # {}
  /\ LET r == Head(events).r
         c == NewConn
     IN
     /\ router' = With(router, nextId,
                       [keys |-> {}, cache |-> <<>>, tx |-> c, done |-> FALSE])
     /\ IF post[r].st = "establishing"
        THEN /\ post' = [post EXCEPT ![r] = [@ EXCEPT !.st = "established", !.h = nextId, !.c = c]]
             /\ chan' = Opened(c, <<>>)
        ELSE /\ chan' = [chan EXCEPT ![c] = Closed]
             /\ UNCHANGED post
  /\ nextId' = nextId + 1
  /\ UNCHANGED <<phase, resources, common, shadows, outbox, open, get, got, upsets>>

(* register_request, then the message goes to the handler                  *)
ClientMessage ==
  /\ NextEvent("message")
  /\ LET r == Head(events).r
         h == Head(events).h
         keys == {"id", "token"} \X {r}
     IN
     /\ IF h \in DOMAIN router
        THEN /\ router' = [router EXCEPT ![h].keys = @ \cup keys]
             /\ resources' = [k \in DOMAIN resources \cup keys |->
                                IF k \in keys THEN h ELSE resources[k]]
        ELSE UNCHANGED <<router, resources>>
     /\ open' = open \cup {r}
  /\ UNCHANGED <<phase, common, shadows, nextId, outbox, chan, client>>

(* Mutant of Unregistered: the sender is not dropped.                      *)
UnregisteredStillOpen(h) == [router[h] EXCEPT !.keys = {}, !.done = TRUE]

(* unregister_resource closes the sender and keeps the entry               *)
Unregistered(h) == [router[h] EXCEPT !.keys = {}, !.done = TRUE, !.tx = NoConn]

(* unregister_resource for the cancelled request: the stream ends and is   *)
(* kept for a late resume.                                                 *)
CancelRequest ==
  /\ NextEvent("cancel")
  /\ LET key == <<"id", Head(events).r>>
         h == resources[key]
     IN
     IF ~IsRouted(key) THEN UNCHANGED <<router, resources>>
     ELSE IF h \notin DOMAIN router
     THEN resources' = Without(resources, {key}) /\ UNCHANGED router
     ELSE /\ router' = [router EXCEPT ![h] = Unregistered(h)]
          /\ resources' = Without(resources, router[h].keys \cup {key})
  /\ UNCHANGED <<phase, common, shadows, nextId, outbox, chan, open, client>>

(* evict_expired_channels: completed_cache_ttl has passed                  *)
Evict(h) ==
  /\ AtSelect /\ h \in DOMAIN router /\ router[h].done
  /\ router' = Without(router, {h})
  /\ UNCHANGED <<phase, resources, common, shadows, nextId, outbox, events, chan, open, client>>

(* resume on the stream of a request                                       *)
ResumeRequestWise ==
  /\ NextEvent("resume") /\ Head(events).h # NoId
  /\ shadows' = LiveShadows
  /\ LET e == Head(events)
         known == e.h \in DOMAIN router
         fails == ~known \/ SyncFails(router[e.h].cache, e.i)
         waits == post[e.r].st = "resuming" /\ post[e.r].c = e.c
     IN
     /\ router' = IF known
                  THEN [router EXCEPT ![e.h].tx = IF fails \/ router[e.h].done THEN NoConn ELSE e.c]
                  ELSE router
     /\ chan' = IF fails THEN [chan EXCEPT ![e.c] = Closed]
                ELSE Opened(e.c, Replay(router[e.h].cache, e.i))
     /\ post' = IF waits THEN [post EXCEPT ![e.r].st = IF fails THEN "gone" ELSE "streaming"]
                ELSE post
  /\ UNCHANGED <<phase, resources, common, nextId, outbox, open, get, got, upsets>>

(* resume_or_shadow_common: take over a dead primary, or stand by          *)
ResumeOrShadowCommon ==
  /\ NextEvent("resume") /\ Head(events).h = NoId
  /\ LET e == Head(events)
         dead == IsClosed(common.tx)
         index == IF e.i = NoId THEN 0 ELSE e.i
         fails == dead /\ SyncFails(common.cache, index)
         room == IF Len(LiveShadows) >= MaxShadows THEN Tail(LiveShadows) ELSE LiveShadows
         waits == get.st \in {"connecting", "retrying"} /\ get.c = e.c
         started == [Opened(e.c, IF dead THEN Replay(common.cache, index) ELSE <<>>)
                       EXCEPT ![e.c].prime = Priming /\ e.i = NoId]
     IN
     /\ common' = IF ~dead THEN common ELSE [common EXCEPT !.tx = IF fails THEN NoConn ELSE e.c]
     /\ shadows' = IF dead THEN LiveShadows ELSE Append(room, e.c)
     /\ chan' = IF fails THEN [chan EXCEPT ![e.c] = Closed] ELSE started
     /\ get' = IF waits THEN [get EXCEPT !.st = "connected"] ELSE get
  /\ UNCHANGED <<phase, router, resources, nextId, outbox, open, post, got, upsets>>

(* close_sse_stream: an optional priming event, then the sender is dropped *)
CloseSseStream ==
  /\ NextEvent("closeSse")
  /\ LET h == Head(events).h IN
     \/ /\ h # NoId /\ h \in DOMAIN router
        /\ LET ev == Ev(NextIndex(router[h].cache, IF Priming THEN 1 ELSE 0), "priming", NoId) IN
           /\ outbox' = ToSend(router[h].tx, ev)
           /\ router' = [router EXCEPT ![h].cache = CacheAdd(@, ev), ![h].tx = NoConn]
        /\ UNCHANGED <<common, shadows>>
     \/ /\ h # NoId /\ h \notin DOMAIN router
        /\ UNCHANGED <<router, common, shadows, outbox>>
     \/ /\ h = NoId
        /\ LET ev == Ev(NextIndex(common.cache, 0), "priming", NoId) IN
           /\ outbox' = ToSend(common.tx, ev)
           /\ common' = [cache |-> CacheAdd(common.cache, ev), tx |-> NoConn]
        /\ shadows' = <<>>
        /\ UNCHANGED router
  /\ UNCHANGED <<phase, resources, nextId, chan, open, client>>

(* close_request_wise_channel: the entry goes, the keys that name it stay  *)
CloseRequestWiseChannel ==
  /\ NextEvent("closeReq")
  /\ router' = Without(router, {Head(events).h})
  /\ UNCHANGED <<phase, resources, common, shadows, nextId, outbox, chan, open, client>>

(* Close, idle timeout or cancellation: every sender is dropped            *)
Quit ==
  /\ AtSelect /\ upsets < MaxUpsets
  /\ phase' = "quit" /\ upsets' = upsets + 1
  /\ events' = <<>> /\ open' = {}
  /\ UNCHANGED <<router, resources, common, shadows, nextId, outbox, chan, post, get, got>>

----------------------------------------------------------------------------
(* The HTTP tasks and the client.                                          *)

(* LocalSessionManager::create_stream, first and second await              *)
PostRequest(r) ==
  /\ post[r].st = "new"
  /\ Emit(Event("establish", r, NoId, NoId, NoConn))
  /\ post' = [post EXCEPT ![r].st = "establishing"]
  /\ UNCHANGED <<workerVars, chan, open, get, got, upsets>>

PushMessage(r) ==
  /\ post[r].st = "established"
  /\ Emit(Event("message", r, post[r].h, NoId, NoConn))
  /\ post' = [post EXCEPT ![r].st = "streaming"]
  /\ chan' = [chan EXCEPT ![post[r].c].prime = Priming]
  /\ UNCHANGED <<workerVars, open, get, got, upsets>>

(* The connection goes before the response headers: the task is dropped    *)
AbandonPost(r) ==
  /\ post[r].st \in {"establishing", "established"} /\ upsets < MaxUpsets
  /\ post' = [post EXCEPT ![r].st = "lost"]
  /\ chan' = IF post[r].c = NoConn THEN chan ELSE [chan EXCEPT ![post[r].c] = Closed]
  /\ upsets' = upsets + 1
  /\ UNCHANGED <<workerVars, events, open, get, got>>

CancelByClient(r) ==
  /\ post[r].st = "streaming" /\ r \in open /\ upsets < MaxUpsets
  /\ Emit(Event("cancel", r, NoId, NoId, NoConn))
  /\ upsets' = upsets + 1
  /\ UNCHANGED <<workerVars, chan, open, post, get, got>>

(* The application closes a stream of its own accord                       *)
AskClose(t, h) ==
  /\ upsets < MaxUpsets
  /\ h = NoId => t = "closeSse" /\ NextIndex(common.cache, 0) < MaxCommon
  /\ h # NoId => h < nextId
  /\ Emit(Event(t, NoId, h, NoId, NoConn))
  /\ upsets' = upsets + 1
  /\ UNCHANGED <<workerVars, chan, open, post, get, got>>

(* One event of the POST stream reaches the client, which closes it after  *)
(* the response (execute_sse_stream)                                       *)
PostEvent(r) ==
  LET c == post[r].c IN
  /\ post[r].st = "streaming" /\ c # NoConn
  /\ \/ /\ chan[c].prime
        /\ chan' = [chan EXCEPT ![c].prime = FALSE]
        /\ post' = [post EXCEPT ![r].seen = 0]
     \/ /\ ~chan[c].prime /\ chan[c].q # <<>>
        /\ LET ev == Head(chan[c].q)
               last == ev.t = "response"
           IN
           /\ post' = [post EXCEPT ![r].seen = ev.i, ![r].st = IF last THEN "answered" ELSE @]
           /\ chan' = IF last THEN [chan EXCEPT ![c] = Closed] ELSE [chan EXCEPT ![c].q = Tail(@)]
  /\ UNCHANGED <<workerVars, events, open, get, got, upsets>>

PostEnds(r) ==
  LET c == post[r].c IN
  /\ post[r].st = "streaming" /\ c # NoConn
  /\ ~chan[c].prime /\ chan[c].q = <<>> /\ ~SenderAlive(c)
  /\ post' = [post EXCEPT ![r].st = "ended"]
  /\ chan' = [chan EXCEPT ![c] = Closed]
  /\ UNCHANGED <<workerVars, events, open, get, got, upsets>>

PostLost(r) ==
  /\ post[r].st = "streaming" /\ upsets < MaxUpsets
  /\ post' = [post EXCEPT ![r].st = "lost"]
  /\ upsets' = upsets + 1
  /\ UNCHANGED <<workerVars, events, chan, open, get, got>>

(* A client may resume the stream of a request by its Last-Event-ID        *)
ResumePost(r) ==
  /\ post[r].st \in {"lost", "ended"} /\ post[r].seen # NoId /\ Fresh # {}
  /\ Emit(Event("resume", r, post[r].h, post[r].seen, NewConn))
  /\ post' = [post EXCEPT ![r] = [@ EXCEPT !.st = "resuming", !.c = NewConn]]
  /\ chan' = [chan EXCEPT ![NewConn].st = "asked"]
  /\ UNCHANGED <<workerVars, open, get, got, upsets>>

(* The first GET of the client, and the reconnects of its                  *)
(* SseAutoReconnectStream with the last event id seen                      *)
GetConnect ==
  /\ get.st \in {"start", "waiting"} /\ phase = "run" /\ Fresh # {}
  /\ Emit(Event("resume", NoId, NoId, get.last, NewConn))
  /\ get' = [get EXCEPT !.st = IF @ = "start" THEN "connecting" ELSE "retrying", !.c = NewConn]
  /\ chan' = [chan EXCEPT ![NewConn].st = "asked"]
  /\ UNCHANGED <<workerVars, open, post, got, upsets>>

(* The attempt fails for the client, whatever the server makes of it: the  *)
(* first failure ends the stream for good, later ones are retried          *)
GetFails ==
  /\ get.st \in {"connecting", "retrying"} /\ upsets < MaxUpsets
  /\ get' = [get EXCEPT !.st = IF @ = "connecting" THEN "off" ELSE "waiting"]
  /\ upsets' = upsets + 1
  /\ UNCHANGED <<workerVars, events, chan, open, post, got>>

GetEvent ==
  LET c == get.c IN
  /\ get.st = "connected"
  /\ \/ /\ chan[c].prime
        /\ chan' = [chan EXCEPT ![c].prime = FALSE]
        /\ get' = [get EXCEPT !.last = 0]
        /\ UNCHANGED got
     \/ /\ ~chan[c].prime /\ chan[c].q # <<>>
        /\ chan' = [chan EXCEPT ![c].q = Tail(@)]
        /\ get' = [get EXCEPT !.last = Head(chan[c].q).i]
        /\ got' = Head(chan[c].q).i
  /\ UNCHANGED <<workerVars, events, open, post, upsets>>

(* A stream error is retried at once, a graceful end after the interval    *)
GetLost ==
  /\ get.st = "connected" /\ Fresh # {}
  /\ get' = [get EXCEPT !.st = "waiting"]
  /\ UNCHANGED <<workerVars, events, chan, open, post, got, upsets>>

GetEnds ==
  /\ get.st = "connected"
  /\ ~chan[get.c].prime /\ chan[get.c].q = <<>> /\ ~SenderAlive(get.c)
  /\ get' = [get EXCEPT !.st = "waiting"]
  /\ chan' = [chan EXCEPT ![get.c] = Closed]
  /\ UNCHANGED <<workerVars, events, open, post, got, upsets>>

(* A connection the client no longer reads: what the server writes to it   *)
(* vanishes until the server notices.                                      *)
Abandoned(c) ==
  /\ chan[c].st = "up"
  /\ ~(get.c = c /\ get.st \in {"connected", "connecting", "retrying"})
  /\ \A r \in Reqs : ~(post[r].c = c /\ post[r].st \in {"established", "streaming", "resuming"})

Vanish(c) ==
  /\ Abandoned(c) /\ chan[c].q # <<>>
  /\ chan' = [chan EXCEPT ![c].q = Tail(@)]
  /\ UNCHANGED <<workerVars, events, open, client>>

Notice(c) ==
  /\ Abandoned(c)
  /\ chan' = [chan EXCEPT ![c] = Closed]
  /\ UNCHANGED <<workerVars, events, open, client>>

StreamsWorkerStep ==
  \/ \E r \in Reqs : Respond(r)
  \/ Flush \/ EstablishRequestWiseChannel \/ ClientMessage \/ CancelRequest
  \/ ResumeRequestWise \/ ResumeOrShadowCommon \/ CloseSseStream \/ CloseRequestWiseChannel

StreamsNext ==
  \/ StreamsWorkerStep
  \/ \E r \in Reqs, t \in {"progress", "cancelled"} : Notify(r, t)
  \/ ServerInitiated
  \/ \E h \in DOMAIN router : Evict(h)
  \/ Quit
  \/ \E r \in Reqs : \/ PostRequest(r) \/ PushMessage(r) \/ AbandonPost(r) \/ CancelByClient(r)
                     \/ PostEvent(r) \/ PostEnds(r) \/ PostLost(r) \/ ResumePost(r)
  \/ \E t \in {"closeSse", "closeReq"}, h \in HttpId \cup {NoId} : AskClose(t, h)
  \/ GetConnect \/ GetFails \/ GetEvent \/ GetLost \/ GetEnds
  \/ \E c \in Conn : Vanish(c) \/ Notice(c)

(* The worker runs, the handler answers, both ends read their sockets, the *)
(* client's timer fires, and keep-alive shows a dead connection in the end. *)
StreamsFairness ==
  /\ WF_streamVars(StreamsWorkerStep)
  /\ \A r \in Reqs : WF_streamVars(PushMessage(r) \/ PostEvent(r) \/ PostEnds(r))
  /\ WF_streamVars(GetConnect \/ GetEvent \/ GetEnds)
  /\ WF_streamVars(\E c \in Conn : Notice(c))

StreamsSpec == StreamsInit /\ [][StreamsNext]_streamVars /\ StreamsFairness

----------------------------------------------------------------------------
Evicted(i) == common.cache # <<>> /\ i < common.cache[1].i

(* The standalone stream may repeat an event after a reconnect, but skips   *)
(* one only if the cache no longer held it: resume replays what was missed, *)
(* also after a priming event, whose id 0 is that of the first message.     *)
SkipsOnlyEvicted ==
  [][got' # got => \A i \in (got + 1) .. (got' - 1) : Evicted(i)]_streamVars

(* One slow or dead connection never holds up another request for ever: a   *)
(* request whose stream is up is answered, or its stream ends.              *)
StreamsComeToAnEnd ==
  \A r \in Reqs : post[r].st = "streaming" ~> post[r].st # "streaming"
=============================================================================
