------------------------- MODULE McpService_proofs -------------------------
(***************************************************************************)
(* Proofs about the service loop: a caller gets the answer to its own      *)
(* request, and the drain delivers what the handlers answered.             *)
(***************************************************************************)
EXTENDS McpService, TLAPS

Outcome == {None, "Closed", "Timeout", "Dropped", "SendError"}
Caller == [pc : {"new", "waiting", "cancelling", "over"}, id : Int,
           res : Calls \cup Outcome, by : Reqs \cup {None}]
OfCalls == [kind : {"request", "cancel"}, id : Int, of : Calls]
Notes == [kind : {"note"}, id : Int, of : Reqs]
Asks == [kind : {"request", "cancel"}, id : Reqs, of : {None}]
Answers == [kind : {"answer"}, id : Int, of : Calls]

(* The id was given to this caller                                         *)
Owns(c, id) == id # -1 /\ call[c].id = id

(* The callers: ids are below the counter, and no two callers share one    *)
CallersOk ==
  /\ nextId \in Nat
  /\ call \in [Calls -> Caller]
  /\ \A c \in Calls : call[c].id < nextId /\ (call[c].pc = "new" <=> call[c].id = -1)
  /\ \A c, d \in Calls : call[c].id = call[d].id /\ call[c].id # -1 => c = d

(* A message of a caller carries the caller's own id                       *)
MsgOk(m) == m \in Notes \/ (m \in OfCalls /\ Owns(m.of, m.id))
LineOk(m) == m \in Asks \/ (m \in Answers /\ Owns(m.of, m.id))
PoolOk == \A p \in pool : p \in Int \X Calls /\ Owns(p[2], p[1])
SendsOk == \A j \in sends : MsgOk(j.msg)
QueueOk == peerRx \in Seq(OfCalls \cup Notes) /\ \A i \in 1 .. Len(peerRx) : MsgOk(peerRx[i])
WireOk == \A m \in wire : m \in OfCalls /\ Owns(m.of, m.id)
InboxOk == /\ inbox \in Seq(Asks \cup Answers) /\ \A i \in 1 .. Len(inbox) : LineOk(inbox[i])
           /\ half \in BOOLEAN /\ (half => inbox # <<>>)

(* The inductive invariant of AnswersMatch                                 *)
TalkInv == CallersOk /\ PoolOk /\ SendsOk /\ QueueOk /\ WireOk /\ InboxOk /\ AnswersMatch

HandlerStates == {"none", "running", "notifying", "calling", "answered", "sent", "unsent",
                  "panicked", "lost"}

(* The inductive invariant of DrainDelivers: an answer that is not sent is *)
(* in the channel or being sent, and is lost only once all is closed; none *)
(* is being sent when the drain is left.                                   *)
DrainInv ==
  /\ handler \in [Reqs -> HandlerStates]
  /\ sink \in Seq(Reqs) /\ resps \subseteq Reqs
  /\ \A h \in Reqs : handler[h] = "answered" => h \in resps \/ \E i \in 1 .. Len(sink) : sink[i] = h
  /\ \A h \in Reqs : handler[h] = "lost" => phase = "closed"
  /\ phase = "broken" => resps = {}

----------------------------------------------------------------------------
(* What a step leaves of the callers' ids                                  *)
IdsKept == \A c \in Calls : call[c].id # -1 => call'[c].id = call[c].id

(* A step that gives callers an outcome, or an answer of their own, and    *)
(* moves no id                                                             *)
Moved(c) ==
  /\ call'[c].id = call[c].id /\ (call'[c].pc = "new" <=> call[c].pc = "new")
  /\ call'[c].res \in {call[c].res, c} \cup Outcome

(* Messages keep their owner while ids are kept                            *)
LEMMA OwnsKept ==
  ASSUME IdsKept, NEW c \in Calls, NEW i, Owns(c, i)
  PROVE  Owns(c, i)'
BY DEF IdsKept, Owns

(* A message of a caller that keeps its id.                                *)
LEMMA MsgKept ==
  ASSUME IdsKept, NEW m, MsgOk(m)
  PROVE  MsgOk(m)'
BY DEF IdsKept, Owns, MsgOk, OfCalls

(* An answer to a caller that keeps its id.                                *)
LEMMA LineKept ==
  ASSUME IdsKept, NEW m, LineOk(m)
  PROVE  LineOk(m)'
BY DEF IdsKept, Owns, LineOk, Answers

(* Callers that keep their ids keep what was known of them                 *)
LEMMA CallersKept ==
  ASSUME CallersOk, AnswersMatch, nextId' = nextId, call' \in [Calls -> Caller],
         \A c \in Calls : Moved(c)
  PROVE  CallersOk' /\ AnswersMatch' /\ IdsKept
<1>1. CallersOk'
  BY DEF CallersOk, Moved
<1>2. IdsKept
  BY DEF IdsKept, Moved
<1>3. ASSUME NEW c \in Calls, call'[c].res \in Calls PROVE call'[c].res = c
  BY <1>3, ServiceAssumption DEF Moved, AnswersMatch, Outcome
<1> QED BY <1>1, <1>2, <1>3 DEF AnswersMatch

(* Responders leave the pool.                                              *)
LEMMA PoolKept ==
  ASSUME PoolOk, IdsKept, pool' \subseteq pool PROVE PoolOk'
<1> SUFFICES ASSUME NEW p \in pool' PROVE p \in Int \X Calls /\ Owns(p[2], p[1])'
  BY DEF PoolOk
<1>1. p \in Int \X Calls /\ Owns(p[2], p[1])
  BY DEF PoolOk
<1>2. p[2] \in Calls
  BY <1>1
<1> QED BY <1>1, <1>2, OwnsKept

(* Sends end.                                                              *)
LEMMA SendsKept ==
  ASSUME SendsOk, IdsKept, sends' \subseteq sends PROVE SendsOk'
<1> SUFFICES ASSUME NEW j \in sends' PROVE MsgOk(j.msg)'
  BY DEF SendsOk
<1>1. MsgOk(j.msg)
  BY DEF SendsOk
<1> QED BY <1>1, MsgKept

(* Requests leave the wire.                                                *)
LEMMA WireKept ==
  ASSUME WireOk, IdsKept, wire' \subseteq wire PROVE WireOk'
BY OwnsKept DEF WireOk, OfCalls

(* The queue of the peers is as it was.                                    *)
LEMMA QueueKept ==
  ASSUME QueueOk, IdsKept, peerRx' = peerRx PROVE QueueOk'
BY MsgKept DEF QueueOk

(* A peer queues a message.                                                *)
LEMMA QueueGrows ==
  ASSUME QueueOk, IdsKept, NEW m, MsgOk(m)', peerRx' = Append(peerRx, m)
  PROVE  QueueOk'
<1>1. m \in OfCalls \cup Notes
  BY DEF MsgOk
<1>2. peerRx' \in Seq(OfCalls \cup Notes)
  BY <1>1 DEF QueueOk
<1>3. ASSUME NEW i \in 1 .. Len(peerRx') PROVE MsgOk(peerRx[i])'
  <2>1. CASE i = Len(peerRx) + 1
    BY <2>1 DEF QueueOk
  <2>2. CASE i # Len(peerRx) + 1
    <3>1. i \in 1 .. Len(peerRx) /\ peerRx'[i] = peerRx[i]
      BY <2>2 DEF QueueOk
    <3> QED BY <3>1, MsgKept DEF QueueOk
  <2> QED BY <2>1, <2>2
<1> QED BY <1>2, <1>3 DEF QueueOk

(* The lines received are as they were.                                    *)
LEMMA InboxKept ==
  ASSUME InboxOk, IdsKept, inbox' = inbox, half' = half PROVE InboxOk'
BY LineKept DEF InboxOk

(* A line is taken by the loop.                                            *)
LEMMA InboxShrinks ==
  ASSUME InboxOk, IdsKept, inbox # <<>>, inbox' = Tail(inbox), half' = FALSE PROVE InboxOk'
<1>1. inbox' \in Seq(Asks \cup Answers)
  BY DEF InboxOk
<1>2. ASSUME NEW i \in 1 .. Len(inbox') PROVE LineOk(inbox[i])'
  <2>1. i + 1 \in 1 .. Len(inbox) /\ inbox'[i] = inbox[i + 1]
    BY DEF InboxOk
  <2> QED BY <2>1, LineKept DEF InboxOk
<1> QED BY <1>1, <1>2 DEF InboxOk

(* A line comes in.                                                        *)
LEMMA InboxGrows ==
  ASSUME InboxOk, IdsKept, NEW m, LineOk(m), inbox' = Append(inbox, m), half' = half
  PROVE  InboxOk'
<1>1. m \in Asks \cup Answers
  BY DEF LineOk
<1>2. inbox' \in Seq(Asks \cup Answers) /\ inbox' # <<>>
  BY <1>1 DEF InboxOk
<1>3. ASSUME NEW i \in 1 .. Len(inbox') PROVE LineOk(inbox[i])'
  <2>1. CASE i = Len(inbox) + 1
    BY <2>1, LineKept DEF InboxOk
  <2>2. CASE i # Len(inbox) + 1
    <3>1. i \in 1 .. Len(inbox) /\ inbox'[i] = inbox[i]
      BY <2>2 DEF InboxOk
    <3> QED BY <3>1, LineKept DEF InboxOk
  <2> QED BY <2>1, <2>2
<1> QED BY <1>2, <1>3 DEF InboxOk

(* What an event of the loop does to the line that was read in part        *)
LEMMA InboxTorn ==
  ASSUME InboxOk, IdsKept, Selected PROVE InboxOk'
<1>1. CASE half
  <2>1. inbox # <<>> /\ inbox' = Tail(inbox) /\ half' = FALSE
    BY <1>1 DEF Selected, Torn, InboxOk
  <2> QED BY <2>1, InboxShrinks
<1>2. CASE ~half
  <2>1. inbox' = inbox /\ half' = half
    BY <1>2 DEF Selected, Torn, InboxOk
  <2> QED BY <2>1, InboxKept
<1> QED BY <1>1, <1>2

----------------------------------------------------------------------------
(* A step that moves callers and takes from the pools                      *)
LEMMA TalkKept ==
  ASSUME TalkInv, CallersOk', AnswersMatch', IdsKept, QueueOk', InboxOk',
         pool' \subseteq pool, sends' \subseteq sends, wire' \subseteq wire
  PROVE  TalkInv'
BY PoolKept, SendsKept, WireKept DEF TalkInv

(* A step that leaves the callers and their messages alone                 *)
LEMMA TalkUnchanged ==
  ASSUME TalkInv, UNCHANGED <<call, nextId>>
  PROVE  CallersOk' /\ AnswersMatch' /\ IdsKept
BY DEF TalkInv, CallersOk, AnswersMatch, IdsKept

(* A request begins with an id that nobody has                             *)
LEMMA BeginStep ==
  ASSUME TalkInv, NEW c \in Calls, NEW h \in Reqs \cup {None}, Begin(c, h),
         UNCHANGED <<pool, sends, wire, inbox, half>>
  PROVE  TalkInv'
<1>1. PICK r \in Caller : /\ call' = [call EXCEPT ![c] = r]
                          /\ r.id = nextId /\ r.res \in Outcome /\ r.pc # "new"
  <2>1. CASE phase = "closed"
    BY <2>1 DEF Begin, FreshId, Caller, Outcome, TalkInv, CallersOk
  <2>2. CASE phase # "closed"
    BY <2>2 DEF Begin, FreshId, Caller, Outcome, TalkInv, CallersOk
  <2> QED BY <2>1, <2>2
<1>2. /\ nextId \in Nat /\ nextId' = nextId + 1 /\ call \in [Calls -> Caller] /\ call[c].id = -1
      /\ \A d \in Calls : call[d].id < nextId
  BY DEF Begin, TalkInv, CallersOk
<1>3. /\ call' \in [Calls -> Caller] /\ call'[c] = r
      /\ \A d \in Calls : d # c => call'[d] = call[d]
  BY <1>1, <1>2
<1>4. CallersOk'
  <2>1. \A d \in Calls : call'[d].id < nextId' /\ (call'[d].pc = "new" <=> call'[d].id = -1)
    BY <1>1, <1>2, <1>3 DEF TalkInv, CallersOk, Caller
  <2>2. \A d, e \in Calls : call'[d].id = call'[e].id /\ call'[d].id # -1 => d = e
    BY <1>1, <1>2, <1>3 DEF TalkInv, CallersOk, Caller
  <2> QED BY <1>2, <1>3, <2>1, <2>2 DEF CallersOk
<1>5. IdsKept
  BY <1>2, <1>3 DEF IdsKept
<1>6. AnswersMatch'
  BY <1>1, <1>3, ServiceAssumption DEF AnswersMatch, TalkInv, Outcome
<1>7. QueueOk'
  <2>1. CASE phase = "closed"
    BY <2>1, <1>5, QueueKept DEF Begin, TalkInv
  <2>2. CASE phase # "closed"
    <3>0. PICK m : m = Msg("request", nextId, c)
      OBVIOUS
    <3>1. peerRx' = Append(peerRx, m)
      BY <2>2, <3>0 DEF Begin, FreshId
    <3>2. m \in OfCalls /\ m.id = nextId /\ m.of = c
      BY <1>2, <3>0 DEF Msg, OfCalls
    <3>3. nextId # -1
      BY <1>2
    <3>4. MsgOk(m)'
      <4>1. m.id # -1 /\ call'[m.of].id = m.id
        BY <3>2, <3>3, <1>1, <1>3
      <4> QED BY <3>2, <4>1 DEF MsgOk, Owns
    <3> QED BY <3>1, <3>4, <1>5, QueueGrows DEF TalkInv
  <2> QED BY <2>1, <2>2
<1>8. InboxOk'
  BY <1>5, InboxKept DEF TalkInv
<1> QED BY <1>4, <1>5, <1>6, <1>7, <1>8, TalkKept

(* A caller that gives up sends a cancellation with its own id             *)
LEMMA GiveUpStep ==
  ASSUME TalkInv, NEW c \in Calls, NEW res \in {"Timeout", "Dropped"}, GiveUp(c, res)
  PROVE  TalkInv'
<1>0. /\ UNCHANGED <<nextId, pool, sends, wire, inbox, half>>
      /\ call[c].pc = "waiting" /\ call \in [Calls -> Caller]
      /\ call' = [call EXCEPT ![c].pc = "cancelling", ![c].res = res]
      /\ peerRx' = Append(peerRx, Msg("cancel", call[c].id, c))
  BY DEF GiveUp, loopVars, peerVars, TalkInv, CallersOk
<1>1. PICK r \in Caller : /\ call' = [call EXCEPT ![c] = r]
                          /\ r.id = call[c].id /\ r.res \in Outcome /\ r.pc # "new"
  <2>1. call[c] \in Caller
    BY <1>0
  <2> DEFINE r == [call[c] EXCEPT !.pc = "cancelling", !.res = res]
  <2>2. r \in Caller /\ r.id = call[c].id /\ r.res \in Outcome /\ r.pc # "new"
    BY <2>1 DEF Caller, Outcome
  <2>3. call' = [call EXCEPT ![c] = r]
    BY <1>0, <2>1 DEF Caller
  <2> QED BY <2>2, <2>3
<1>2. call' \in [Calls -> Caller] /\ call'[c] = r /\ \A d \in Calls : d # c => call'[d] = call[d]
  BY <1>0, <1>1
<1>3. \A d \in Calls : Moved(d)
  BY <1>0, <1>1, <1>2 DEF Moved
<1>4. CallersOk' /\ AnswersMatch' /\ IdsKept
  BY <1>0, <1>2, <1>3, CallersKept DEF TalkInv
<1>5. QueueOk'
  <2>0. PICK m : m = Msg("cancel", call[c].id, c)
    OBVIOUS
  <2>1. call[c].id # -1 /\ call[c].id \in Int
    BY <1>0 DEF TalkInv, CallersOk, Caller
  <2>2. m \in OfCalls /\ m.id = call[c].id /\ m.of = c
    BY <2>0, <2>1 DEF Msg, OfCalls
  <2>3. MsgOk(m)'
    BY <2>1, <2>2, <1>1, <1>2 DEF MsgOk, Owns
  <2> QED BY <1>0, <2>0, <2>3, <1>4, QueueGrows DEF TalkInv
<1>6. InboxOk'
  BY <1>0, <1>4, InboxKept DEF TalkInv
<1> QED BY <1>0, <1>4, <1>5, <1>6, TalkKept

(* Handlers and the other peer                                             *)
LEMMA NotifyStep ==
  ASSUME TalkInv, NEW h \in Reqs, Notify(h)
  PROVE  TalkInv'
<1>0. /\ UNCHANGED <<call, nextId, pool, sends, wire, inbox, half>>
      /\ peerRx' = Append(peerRx, Msg("note", -1, h))
  BY DEF Notify, callers, loopVars, peerVars
<1>1. CallersOk' /\ AnswersMatch' /\ IdsKept
  BY <1>0, TalkUnchanged
<1>2. PICK m : m = Msg("note", -1, h)
  OBVIOUS
<1>3. m \in Notes
  BY <1>2 DEF Msg, Notes
<1>4. MsgOk(m)'
  BY <1>3 DEF MsgOk
<1>5. QueueOk'
  BY <1>0, <1>1, <1>2, <1>4, QueueGrows DEF TalkInv
<1>6. InboxOk'
  BY <1>0, <1>1, InboxKept DEF TalkInv
<1> QED BY <1>0, <1>1, <1>5, <1>6, TalkKept

(* The other side asks, cancels and answers what it was sent.              *)
LEMMA PeerStep ==
  ASSUME TalkInv,
         \/ \E h \in Reqs : PeerAsks(h) \/ PeerCancels(h)
         \/ \E m \in wire : PeerAnswers(m)
  PROVE  TalkInv'
<1> DEFINE Written == /\ UNCHANGED <<call, nextId, pool, sends, peerRx, half>>
                      /\ wire' \subseteq wire
                      /\ \E m : LineOk(m) /\ inbox' = Append(inbox, m)
<1>0. Written
  <2>1. ASSUME NEW h \in Reqs, PeerAsks(h) PROVE Written
    <3>1. LineOk(Msg("request", h, None))
      BY DEF LineOk, Msg, Asks
    <3> QED BY <2>1, <3>1 DEF PeerAsks, callers, loopVars
  <2>2. ASSUME NEW h \in Reqs, PeerCancels(h) PROVE Written
    <3>1. LineOk(Msg("cancel", h, None))
      BY DEF LineOk, Msg, Asks
    <3> QED BY <2>2, <3>1 DEF PeerCancels, callers, loopVars
  <2>3. ASSUME NEW m \in wire, PeerAnswers(m) PROVE Written
    <3>1. m \in OfCalls /\ Owns(m.of, m.id)
      BY DEF TalkInv, WireOk
    <3>2. PICK a : a = Msg("answer", m.id, m.of)
      OBVIOUS
    <3>3. a \in Answers /\ a.id = m.id /\ a.of = m.of
      BY <3>1, <3>2 DEF OfCalls, Msg, Answers
    <3>4. LineOk(a)
      BY <3>1, <3>3 DEF LineOk
    <3> QED BY <2>3, <3>2, <3>4 DEF PeerAnswers, callers, loopVars
  <2> QED BY <2>1, <2>2, <2>3
<1>1. CallersOk' /\ AnswersMatch' /\ IdsKept
  BY <1>0, TalkUnchanged
<1>2. QueueOk'
  BY <1>0, <1>1, QueueKept DEF TalkInv
<1>3. InboxOk'
  BY <1>0, <1>1, InboxGrows DEF TalkInv
<1> QED BY <1>0, <1>1, <1>2, <1>3, TalkKept

(* A send moves a request to the wire                                      *)
LEMMA SendTalk ==
  ASSUME TalkInv, NEW j \in sends, Send(j.msg)
  PROVE  TalkInv'
<1>0. UNCHANGED <<call, nextId, pool, peerRx, inbox, half>>
  BY DEF Send, callers
<1>1. CallersOk' /\ AnswersMatch' /\ IdsKept
  BY <1>0, TalkUnchanged
<1>2. MsgOk(j.msg)
  BY DEF TalkInv, SendsOk
<1>3. ASSUME NEW k \in sends' PROVE MsgOk(k.msg)'
  <2>1. k \in sends \/ k.msg = j.msg
    BY DEF Send
  <2>2. MsgOk(k.msg)
    BY <2>1, <1>2 DEF TalkInv, SendsOk
  <2> QED BY <2>2, <1>1, MsgKept
<1>4. WireOk'
  <2>1. \A m \in wire' : m \in wire \/ (m = j.msg /\ m.kind = "request")
    BY DEF Send
  <2>2. ASSUME NEW m \in wire' PROVE m \in OfCalls /\ Owns(m.of, m.id)
    BY <2>1, <1>2 DEF TalkInv, WireOk, MsgOk, Notes
  <2>3. ASSUME NEW m \in wire' PROVE m \in OfCalls /\ Owns(m.of, m.id)'
    BY <2>2, <1>1, OwnsKept DEF OfCalls
  <2> QED BY <2>3 DEF WireOk
<1>5. PoolOk' /\ QueueOk' /\ InboxOk'
  BY <1>0, <1>1, PoolKept, QueueKept, InboxKept DEF TalkInv
<1> QED BY <1>1, <1>3, <1>4, <1>5 DEF TalkInv, SendsOk

----------------------------------------------------------------------------
(* The loop.  A request enters the pool under the id of its caller.        *)
LEMMA ProxyStep ==
  ASSUME TalkInv, LoopProxy
  PROVE  TalkInv'
<1>0. /\ UNCHANGED <<call, nextId, wire>> /\ Selected /\ peerRx # <<>>
      /\ peerRx' = Tail(peerRx) /\ sends' = sends \cup {Sending(Head(peerRx))}
      /\ pool' = IF Head(peerRx).kind = "request"
                 THEN RemoveId(Head(peerRx).id) \cup {<<Head(peerRx).id, Head(peerRx).of>>} ELSE pool
  BY DEF LoopProxy, callers
<1>1. CallersOk' /\ AnswersMatch' /\ IdsKept
  BY <1>0, TalkUnchanged
<1>2. MsgOk(Head(peerRx))
  BY <1>0 DEF TalkInv, QueueOk
<1>3. PICK m : m = Head(peerRx)
  OBVIOUS
<1>4. MsgOk(m)'
  BY <1>1, <1>2, <1>3, MsgKept
<1>5. SendsOk'
  <2>1. ASSUME NEW j \in sends' PROVE MsgOk(j.msg)'
    <3>1. CASE j \in sends
      BY <3>1, <1>1, MsgKept DEF TalkInv, SendsOk
    <3>2. CASE j \notin sends
      <4>1. j = [msg |-> m, st |-> "sending"]
        BY <3>2, <1>0, <1>3 DEF Sending
      <4>2. j.msg = m
        BY <4>1
      <4> QED BY <4>2, <1>4
    <3> QED BY <3>1, <3>2
  <2> QED BY <2>1 DEF SendsOk
<1>6. QueueOk'
  <2>1. peerRx' \in Seq(OfCalls \cup Notes)
    BY <1>0 DEF TalkInv, QueueOk
  <2>2. ASSUME NEW i \in 1 .. Len(peerRx') PROVE MsgOk(peerRx[i])'
    <3>1. i + 1 \in 1 .. Len(peerRx) /\ peerRx'[i] = peerRx[i + 1]
      BY <1>0 DEF TalkInv, QueueOk
    <3> QED BY <3>1, <1>1, MsgKept DEF TalkInv, QueueOk
  <2> QED BY <2>1, <2>2 DEF QueueOk
<1>7. PoolOk'
  <2>1. CASE m.kind = "request"
    <3>1. m \in OfCalls /\ Owns(m.of, m.id)'
      BY <2>1, <1>4 DEF MsgOk, Notes
    <3>2. \A p \in pool' : p \in pool \/ p = <<m.id, m.of>>
      BY <2>1, <1>0, <1>3 DEF RemoveId
    <3>3. ASSUME NEW p \in pool' PROVE p \in Int \X Calls /\ Owns(p[2], p[1])'
      <4>1. CASE p \in pool
        <5>1. p \in Int \X Calls /\ Owns(p[2], p[1])
          BY <4>1 DEF TalkInv, PoolOk
        <5>2. p[2] \in Calls
          BY <5>1
        <5> QED BY <5>1, <5>2, <1>1, OwnsKept
      <4>2. CASE p = <<m.id, m.of>>
        <5>1. p \in Int \X Calls /\ p[1] = m.id /\ p[2] = m.of
          BY <4>2, <3>1 DEF OfCalls
        <5> QED BY <5>1, <3>1
      <4> QED BY <3>2, <4>1, <4>2
    <3> QED BY <3>3 DEF PoolOk
  <2>2. CASE m.kind # "request"
    BY <2>2, <1>0, <1>1, <1>3, PoolKept DEF TalkInv
  <2> QED BY <2>1, <2>2
<1>8. WireOk' /\ InboxOk'
  BY <1>0, <1>1, WireKept, InboxTorn DEF TalkInv
<1> QED BY <1>1, <1>5, <1>6, <1>7, <1>8 DEF TalkInv

(* Resolving the owners of an id with an outcome, or with their own answer *)
LEMMA ResolveStep ==
  ASSUME TalkInv, nextId' = nextId, NEW id, NEW res,
         call' = [c \in Calls |-> IF c \in OwnerOf(id) THEN Resolved(c, res) ELSE call[c]],
         \A c \in OwnerOf(id) : res \in {c} \cup Outcome
  PROVE  CallersOk' /\ AnswersMatch' /\ IdsKept
<1>1. call \in [Calls -> Caller]
  BY DEF TalkInv, CallersOk
<1>2. ASSUME NEW c \in Calls PROVE call'[c] \in Caller /\ Moved(c)
  <2>1. CASE c \in OwnerOf(id) /\ call[c].pc = "waiting"
    <3> DEFINE r == [call[c] EXCEPT !.pc = "over", !.res = res]
    <3>1. call'[c] = r
      BY <2>1 DEF Resolved
    <3>2. call[c] \in Caller /\ res \in Calls \cup Outcome /\ res \in {c} \cup Outcome
      BY <1>1, <2>1
    <3>3. r \in Caller /\ r.id = call[c].id /\ r.pc = "over" /\ r.res = res
      BY <3>2 DEF Caller
    <3> HIDE DEF r
    <3> QED BY <2>1, <3>1, <3>2, <3>3 DEF Moved
  <2>2. CASE ~(c \in OwnerOf(id) /\ call[c].pc = "waiting")
    <3>1. call'[c] = call[c]
      BY <2>2 DEF Resolved
    <3> QED BY <1>1, <3>1 DEF Moved
  <2> QED BY <2>1, <2>2
<1>3. call' \in [Calls -> Caller]
  BY <1>2
<1> QED BY <1>2, <1>3, CallersKept DEF TalkInv

(* A caller whose cancellation was sent is let go                          *)
LEMMA LetGoStep ==
  ASSUME TalkInv, nextId' = nextId, NEW c \in Calls, call[c].id # -1,
         call' = [call EXCEPT ![c].pc = "over"]
  PROVE  CallersOk' /\ AnswersMatch' /\ IdsKept
<1>1. call \in [Calls -> Caller] /\ call[c].pc # "new"
  BY DEF TalkInv, CallersOk
<1> DEFINE r == [call[c] EXCEPT !.pc = "over"]
<1>2. call[c] \in Caller
  BY <1>1
<1>3. r \in Caller /\ r.id = call[c].id /\ r.pc = "over" /\ r.res = call[c].res
  BY <1>2 DEF Caller
<1>4. call'[c] = r /\ (\A d \in Calls : d # c => call'[d] = call[d]) /\ call' = [call EXCEPT ![c] = r]
  BY <1>1
<1> HIDE DEF r
<1>5. call' \in [Calls -> Caller] /\ \A d \in Calls : Moved(d)
  BY <1>1, <1>3, <1>4 DEF Moved
<1> QED BY <1>5, CallersKept DEF TalkInv

(* A send task is joined: its failure goes to the caller it was for.       *)
LEMMA JoinStep ==
  ASSUME TalkInv, LoopJoin
  PROVE  TalkInv'
<1>0. /\ UNCHANGED <<nextId, wire, peerRx>> /\ Selected
  BY DEF LoopJoin
<1>1. PICK j \in sends : Joined(j.msg, j.st = "ok") /\ sends' = sends \ {j}
  BY DEF LoopJoin
<1>2. PICK m : m = j.msg /\ MsgOk(m)
  BY DEF TalkInv, SendsOk
<1>3. Joined(m, j.st = "ok")
  BY <1>1, <1>2
<1>4. CallersOk' /\ AnswersMatch' /\ IdsKept /\ pool' \subseteq pool
  <2>1. CASE m \in Notes
    <3>1. m.kind = "note"
      BY <2>1 DEF Notes
    <3>2. UNCHANGED <<call, pool>>
      BY <3>1, <1>3 DEF Joined
    <3> QED BY <3>2, <1>0, TalkUnchanged
  <2>2. CASE m \in OfCalls /\ Owns(m.of, m.id) /\ m.kind = "cancel"
    <3>1. call' = [call EXCEPT ![m.of].pc = "over"] /\ pool' = RemoveId(m.id)
      BY <2>2, <1>3 DEF Joined
    <3>2. m.of \in Calls /\ call[m.of].id # -1
      BY <2>2 DEF OfCalls, Owns
    <3> QED BY <1>0, <3>1, <3>2, LetGoStep DEF RemoveId
  <2>3. CASE m \in OfCalls /\ m.kind = "request" /\ j.st = "ok"
    BY <2>3, <1>0, <1>3, TalkUnchanged DEF Joined
  <2>4. CASE m \in OfCalls /\ m.kind = "request" /\ j.st # "ok"
    <3>1. /\ call' = [c \in Calls |-> IF c \in OwnerOf(m.id) THEN Resolved(c, "SendError") ELSE call[c]]
          /\ pool' = RemoveId(m.id)
      BY <2>4, <1>3 DEF Joined
    <3>2. "SendError" \in Outcome
      BY DEF Outcome
    <3> QED BY <1>0, <3>1, <3>2, ResolveStep DEF RemoveId
  <2>5. m \in OfCalls => m.kind \in {"request", "cancel"}
    BY DEF OfCalls
  <2> QED BY <1>2, <2>1, <2>2, <2>3, <2>4, <2>5 DEF MsgOk
<1>5. QueueOk' /\ InboxOk'
  BY <1>0, <1>4, QueueKept, InboxTorn DEF TalkInv
<1> QED BY <1>0, <1>1, <1>4, <1>5, TalkKept

(* An answer resolves the only caller that has its id: the one that asked  *)
LEMMA ReceiveStep ==
  ASSUME TalkInv, LoopReceive
  PROVE  TalkInv'
<1>0. /\ UNCHANGED <<nextId, wire, peerRx, sends>>
      /\ inbox # <<>> /\ inbox' = Tail(inbox) /\ half' = FALSE
  BY DEF LoopReceive
<1>1. PICK m : m = Head(inbox) /\ LineOk(m)
  BY <1>0 DEF TalkInv, InboxOk
<1>2. CallersOk' /\ AnswersMatch' /\ IdsKept /\ pool' \subseteq pool
  <2>1. CASE m \in Asks
    <3>1. m.kind \in {"request", "cancel"}
      BY <2>1 DEF Asks
    <3>2. UNCHANGED <<call, pool>>
      BY <1>1, <3>1 DEF LoopReceive
    <3> QED BY <1>0, <3>2, TalkUnchanged
  <2>2. CASE m \in Answers /\ Owns(m.of, m.id)
    <3>1. m.kind = "answer" /\ m.of \in Calls
      BY <2>2 DEF Answers
    <3>2. Answered(m)
      BY <1>1, <3>1 DEF LoopReceive
    <3>3. ASSUME NEW c \in OwnerOf(m.id) PROVE c = m.of
      <4>1. c \in Calls /\ <<m.id, c>> \in pool
        BY DEF OwnerOf
      <4>2. Owns(c, m.id)
        <5> DEFINE p == <<m.id, c>>
        <5>1. Owns(p[2], p[1])
          BY <4>1 DEF TalkInv, PoolOk
        <5> QED BY <5>1
      <4> QED BY <2>2, <3>1, <4>1, <4>2 DEF Owns, TalkInv, CallersOk
    <3> QED BY <1>0, <3>2, <3>3, ResolveStep DEF Answered, RemoveId
  <2> QED BY <1>1, <2>1, <2>2 DEF LineOk
<1>3. QueueOk' /\ InboxOk'
  BY <1>0, <1>2, QueueKept, InboxShrinks DEF TalkInv
<1> QED BY <1>0, <1>2, <1>3, TalkKept

(* The end releases every caller                                           *)
LEMMA CloseStep ==
  ASSUME TalkInv, Close
  PROVE  TalkInv'
<1>0. /\ UNCHANGED <<nextId, wire, inbox, half>> /\ peerRx' = <<>> /\ pool' = {} /\ sends' = {}
      /\ call' = [c \in Calls |-> IF call[c].pc = "cancelling" THEN [call[c] EXCEPT !.pc = "over"]
                                  ELSE Resolved(c, "Closed")]
  BY DEF Close, peerVars
<1>1. call \in [Calls -> Caller]
  BY DEF TalkInv, CallersOk
<1>2. ASSUME NEW c \in Calls PROVE call'[c] \in Caller /\ Moved(c)
  <2>0. call[c] \in Caller
    BY <1>1
  <2>1. CASE call[c].pc = "cancelling"
    <3> DEFINE r == [call[c] EXCEPT !.pc = "over"]
    <3>1. call'[c] = r
      BY <2>1, <1>0
    <3>2. r \in Caller /\ r.id = call[c].id /\ r.pc = "over" /\ r.res = call[c].res
      BY <2>0 DEF Caller
    <3> HIDE DEF r
    <3> QED BY <2>1, <3>1, <3>2 DEF Moved
  <2>2. CASE call[c].pc = "waiting"
    <3> DEFINE r == [call[c] EXCEPT !.pc = "over", !.res = "Closed"]
    <3>1. call'[c] = r
      BY <2>2, <1>0 DEF Resolved
    <3>2. r \in Caller /\ r.id = call[c].id /\ r.pc = "over" /\ r.res \in Outcome
      BY <2>0 DEF Caller, Outcome
    <3> HIDE DEF r
    <3> QED BY <2>2, <3>1, <3>2 DEF Moved
  <2>3. CASE call[c].pc \notin {"cancelling", "waiting"}
    <3>1. call'[c] = call[c]
      BY <2>3, <1>0 DEF Resolved
    <3> QED BY <2>0, <3>1 DEF Moved
  <2> QED BY <2>1, <2>2, <2>3
<1>3. call' \in [Calls -> Caller]
  BY <1>0, <1>2
<1>4. CallersOk' /\ AnswersMatch' /\ IdsKept
  BY <1>0, <1>2, <1>3, CallersKept DEF TalkInv
<1>5. QueueOk'
  BY <1>0 DEF QueueOk
<1>6. InboxOk'
  BY <1>0, <1>4, InboxKept DEF TalkInv
<1> QED BY <1>0, <1>4, <1>5, <1>6, TalkKept

(* The steps that touch neither callers nor messages, or only drop lines   *)
LEMMA QuietStep ==
  ASSUME TalkInv, UNCHANGED <<call, nextId, peerRx>>, pool' = pool, sends' = sends,
         wire' \subseteq wire,
         \/ UNCHANGED <<inbox, half>>
         \/ Selected
         \/ inbox' = <<>> /\ half' = FALSE
         \/ inbox # <<>> /\ inbox' = inbox /\ half' = TRUE
  PROVE  TalkInv'
<1>1. CallersOk' /\ AnswersMatch' /\ IdsKept
  BY TalkUnchanged
<1>2. QueueOk'
  BY <1>1, QueueKept DEF TalkInv
<1>3. InboxOk'
  <2>1. CASE UNCHANGED <<inbox, half>>
    BY <2>1, <1>1, InboxKept DEF TalkInv
  <2>2. CASE Selected
    BY <2>2, <1>1, InboxTorn DEF TalkInv
  <2>3. CASE inbox' = <<>> /\ half' = FALSE
    <3>1. inbox' \in Seq(Asks \cup Answers) /\ Len(inbox') = 0
      BY <2>3
    <3>2. half' \in BOOLEAN /\ ~half'
      BY <2>3
    <3> QED BY <3>1, <3>2 DEF InboxOk
  <2>4. CASE inbox # <<>> /\ inbox' = inbox /\ half' = TRUE
    BY <2>4, <1>1, LineKept DEF TalkInv, InboxOk
  <2> QED BY <2>1, <2>2, <2>3, <2>4
<1> QED BY <1>1, <1>2, <1>3, TalkKept

(* Every step of the service keeps the invariant of the answers            *)
LEMMA TalkStep ==
  ASSUME TalkInv, [Next]_vars
  PROVE  TalkInv'
<1>1. ASSUME NEW c \in Calls, SendRequest(c) PROVE TalkInv'
  <2>1. Begin(c, None) /\ UNCHANGED <<pool, sends, wire, inbox, half>>
    BY <1>1 DEF SendRequest, loopVars, peerVars
  <2> QED BY <2>1, BeginStep
<1>2. ASSUME NEW c \in Calls, Timeout(c) \/ Cancel(c) PROVE TalkInv'
  BY <1>2, GiveUpStep DEF Timeout, Cancel
<1>3. ASSUME NEW h \in Reqs, HandlerStep(h) \/ Panic(h) PROVE TalkInv'
  <2>1. UNCHANGED <<call, nextId, peerRx, pool, sends, wire, inbox, half>>
    BY <1>3 DEF HandlerStep, GotAnswer, Finish, Panic, callers, loopVars, peerVars
  <2> QED BY <2>1, QuietStep
<1>4. ASSUME NEW h \in Reqs, Notify(h) PROVE TalkInv'
  BY <1>4, NotifyStep
<1>5. ASSUME NEW h \in Reqs, NEW c \in Nested, CallPeer(h, c) PROVE TalkInv'
  <2>1. Begin(c, h) /\ UNCHANGED <<pool, sends, wire, inbox, half>> /\ c \in Calls
    BY <1>5, ServiceAssumption DEF CallPeer, loopVars, peerVars
  <2> QED BY <2>1, BeginStep
<1>6. CASE LoopProxy
  BY <1>6, ProxyStep
<1>7. CASE LoopJoin
  BY <1>7, JoinStep
<1>8. CASE LoopReceive
  BY <1>8, ReceiveStep
<1>9. CASE LoopSink
  <2>1. Selected /\ UNCHANGED <<call, nextId, peerRx, pool, sends, wire>>
    BY <1>9 DEF LoopSink, callers
  <2> QED BY <2>1, QuietStep
<1>10. ASSUME NEW r, LoopQuits(r) PROVE TalkInv'
  <2>1. inbox' = <<>> /\ half' = FALSE /\ wire' = {} /\ UNCHANGED <<call, nextId, peerRx, pool, sends>>
    BY <1>10 DEF LoopQuits, callers
  <2> QED BY <2>1, QuietStep
<1>11. CASE ReadHalf
  <2>1. /\ inbox # <<>> /\ half' = TRUE
        /\ UNCHANGED <<call, nextId, peerRx, pool, sends, wire, inbox>>
    BY <1>11 DEF ReadHalf, callers, loopVars, peerVars
  <2> QED BY <2>1, QuietStep
<1>12. CASE DrainSink
  <2>1. UNCHANGED <<call, nextId, peerRx, pool, sends, wire, inbox, half>>
    BY <1>12 DEF DrainSink, callers, peerVars
  <2> QED BY <2>1, QuietStep
<1>13. CASE DrainDone \/ BreakDone \/ DrainTimeout
  BY <1>13, CloseStep DEF DrainDone, BreakDone, DrainTimeout
<1>14. ASSUME NEW j \in sends, Send(j.msg) PROVE TalkInv'
  BY <1>14, SendTalk
<1>15. ASSUME NEW h \in resps, SendResponse(h) PROVE TalkInv'
  <2>1. UNCHANGED <<call, nextId, peerRx, pool, sends, wire, inbox, half>>
    BY <1>15 DEF SendResponse, callers, peerVars
  <2> QED BY <2>1, QuietStep
<1>16. CASE (\E h \in Reqs : PeerAsks(h) \/ PeerCancels(h)) \/ \E m \in wire : PeerAnswers(m)
  BY <1>16, PeerStep
<1>17. CASE PeerCloses
  <2>1. UNCHANGED <<call, nextId, peerRx, pool, sends, wire, inbox, half>>
    BY <1>17 DEF PeerCloses, callers, loopVars
  <2> QED BY <2>1, QuietStep
<1>18. CASE UNCHANGED vars
  <2>1. UNCHANGED <<call, nextId, peerRx, pool, sends, wire, inbox, half>>
    BY <1>18 DEF vars
  <2> QED BY <2>1, QuietStep
<1> QED BY <1>1, <1>2, <1>3, <1>4, <1>5, <1>6, <1>7, <1>8, <1>9, <1>10, <1>11, <1>12, <1>13,
           <1>14, <1>15, <1>16, <1>17, <1>18
        DEF Next, LoopStep, OwnerCloses, DrainStep, SendStep

(* No caller has asked yet.                                                *)
LEMMA TalkInit == Init => TalkInv
<1> SUFFICES ASSUME Init PROVE TalkInv
  OBVIOUS
<1>1. /\ nextId = 0 /\ pool = {} /\ sends = {} /\ peerRx = <<>> /\ wire = {} /\ inbox = <<>> /\ half = FALSE
      /\ call = [c \in Calls |-> [pc |-> "new", id |-> -1, res |-> None, by |-> None]]
  BY DEF Init
<1>2. [pc |-> "new", id |-> -1, res |-> None, by |-> None] \in Caller
  BY DEF Caller, Outcome
<1>3. CallersOk
  <2>1. nextId \in Nat /\ call \in [Calls -> Caller]
    BY <1>1, <1>2
  <2>2. \A c \in Calls : call[c].id = -1 /\ call[c].pc = "new"
    BY <1>1
  <2> QED BY <1>1, <2>1, <2>2 DEF CallersOk
<1>4. AnswersMatch
  BY <1>1, ServiceAssumption DEF AnswersMatch
<1>5. PoolOk /\ SendsOk /\ WireOk
  BY <1>1 DEF PoolOk, SendsOk, WireOk
<1>6. QueueOk
  BY <1>1 DEF QueueOk
<1>7. InboxOk
  <2>1. inbox \in Seq(Asks \cup Answers) /\ Len(inbox) = 0
    BY <1>1
  <2>2. half \in BOOLEAN /\ ~half
    BY <1>1
  <2> QED BY <2>1, <2>2 DEF InboxOk
<1> QED BY <1>3, <1>4, <1>5, <1>6, <1>7 DEF TalkInv

(* Ids and callers go together throughout.                                 *)
LEMMA TalkInvariant == Spec => []TalkInv
<1>1. TalkInv /\ [Next]_vars => TalkInv'
  BY TalkStep
<1> QED BY TalkInit, <1>1, PTL DEF Spec

(* Whatever is cancelled, times out, is sent in another order or answered  *)
(* late, Peer::send_request returns only the answer to its own request,    *)
(* for any callers and any handlers: an id is given once, and every        *)
(* message and every entry of the pool carries the id of its caller.       *)
THEOREM AnswersCorrect == Spec => []AnswersMatch
<1>1. TalkInv => AnswersMatch
  BY DEF TalkInv
<1> QED BY TalkInvariant, <1>1, PTL

----------------------------------------------------------------------------
(* The drain.  A handler that changes to anything but "answered" and       *)
(* "lost" disturbs nothing while the answers stay where they are.          *)
LEMMA HandlerMoves ==
  ASSUME DrainInv, NEW h \in Reqs, NEW st \in HandlerStates \ {"answered", "lost"},
         handler' = [handler EXCEPT ![h] = st], UNCHANGED <<sink, resps, phase>>
  PROVE  DrainInv'
<1>1. /\ handler \in [Reqs -> HandlerStates] /\ handler' \in [Reqs -> HandlerStates]
      /\ \A g \in Reqs : handler'[g] \in {handler[g], st}
  BY DEF DrainInv
<1> QED BY <1>1 DEF DrainInv

(* The steps that leave the handlers and their answers alone               *)
LEMMA HandlersUnchanged ==
  ASSUME DrainInv, UNCHANGED <<handler, sink, resps>>,
         phase' = phase \/ (phase = "loop" /\ phase' # "broken")
  PROVE  DrainInv'
BY DEF DrainInv

(* A handler hands its response to the sink, or is too late for it.        *)
LEMMA FinishDrain ==
  ASSUME DrainInv, NEW h \in Reqs, Finish(h)
  PROVE  DrainInv'
<1>0. resps' = resps /\ phase' = phase
  BY DEF Finish, loopVars
<1>1. CASE phase = "closed"
  <2>1. handler' = [handler EXCEPT ![h] = "lost"] /\ sink' = sink
    BY <1>1 DEF Finish
  <2>2. handler' \in [Reqs -> HandlerStates] /\ \A g \in Reqs : handler'[g] \in {handler[g], "lost"}
    BY <2>1 DEF DrainInv, HandlerStates
  <2> QED BY <1>0, <1>1, <2>1, <2>2 DEF DrainInv
<1>2. CASE phase # "closed"
  <2>1. handler' = [handler EXCEPT ![h] = "answered"] /\ sink' = Append(sink, h)
    BY <1>2 DEF Finish
  <2>2. /\ handler' \in [Reqs -> HandlerStates]
        /\ \A g \in Reqs : g # h => handler'[g] = handler[g]
        /\ handler'[h] = "answered"
    BY <2>1 DEF DrainInv, HandlerStates
  <2>3. /\ sink' \in Seq(Reqs) /\ Len(sink') = Len(sink) + 1 /\ sink'[Len(sink) + 1] = h
        /\ \A i \in 1 .. Len(sink) : sink'[i] = sink[i] /\ i \in 1 .. Len(sink')
        /\ Len(sink) + 1 \in 1 .. Len(sink')
    BY <2>1 DEF DrainInv
  <2>4. ASSUME NEW g \in Reqs, handler'[g] = "answered"
        PROVE  g \in resps \/ \E i \in 1 .. Len(sink') : sink'[i] = g
    <3>1. CASE g = h
      BY <3>1, <2>3
    <3>2. CASE g # h
      BY <3>2, <2>4, <2>2, <2>3 DEF DrainInv
    <3> QED BY <3>1, <3>2
  <2> QED BY <1>0, <2>2, <2>3, <2>4 DEF DrainInv
<1> QED BY <1>1, <1>2

(* The first answer of the channel leaves it                               *)
LEMMA SinkTail ==
  ASSUME sink \in Seq(Reqs), sink # <<>>
  PROVE  /\ Head(sink) \in Reqs /\ Tail(sink) \in Seq(Reqs)
         /\ \A i \in 1 .. Len(sink) : \/ sink[i] = Head(sink)
                                      \/ \E k \in 1 .. Len(Tail(sink)) : Tail(sink)[k] = sink[i]
<1>1. Head(sink) \in Reqs /\ Tail(sink) \in Seq(Reqs) /\ Len(Tail(sink)) = Len(sink) - 1
  OBVIOUS
<1>2. ASSUME NEW i \in 1 .. Len(sink), i # 1
      PROVE  \E k \in 1 .. Len(Tail(sink)) : Tail(sink)[k] = sink[i]
  <2>1. i - 1 \in 1 .. Len(Tail(sink)) /\ Tail(sink)[i - 1] = sink[i]
    BY <1>1, <1>2
  <2> QED BY <2>1
<1>3. sink[1] = Head(sink)
  OBVIOUS
<1> QED BY <1>1, <1>2, <1>3

(* A response leaves the sink to be sent.                                  *)
LEMMA SinkDrain ==
  ASSUME DrainInv, LoopSink \/ DrainSink
  PROVE  DrainInv'
<1>0. sink # <<>> /\ sink' = Tail(sink) /\ phase # "closed"
  BY DEF LoopSink, DrainSink, Selected
<1>1. /\ Head(sink) \in Reqs /\ sink' \in Seq(Reqs)
      /\ \A i \in 1 .. Len(sink) : \/ sink[i] = Head(sink)
                                   \/ \E k \in 1 .. Len(sink') : sink'[k] = sink[i]
  BY <1>0, SinkTail DEF DrainInv
<1>2. CASE LoopSink
  <2>1. /\ handler' = handler /\ resps' = resps \cup {Head(sink)}
        /\ phase = "loop" /\ phase' = phase
    BY <1>2 DEF LoopSink, Selected
  <2> QED BY <1>0, <1>1, <2>1 DEF DrainInv
<1>3. CASE DrainSink
  <2>1. /\ \E st \in {"sent", "unsent"} : handler' = [handler EXCEPT ![Head(sink)] = st]
        /\ resps = {} /\ resps' = resps
    BY <1>3 DEF DrainSink
  <2>2. /\ handler' \in [Reqs -> HandlerStates] /\ handler'[Head(sink)] \in {"sent", "unsent"}
        /\ \A g \in Reqs : g # Head(sink) => handler'[g] = handler[g]
    BY <1>1, <2>1 DEF DrainInv, HandlerStates
  <2> QED BY <1>0, <1>1, <2>1, <2>2 DEF DrainInv
<1> QED BY <1>2, <1>3

(* A response is sent, or its send fails.                                  *)
LEMMA ResponseDrain ==
  ASSUME DrainInv, NEW h \in resps, SendResponse(h)
  PROVE  DrainInv'
<1>1. /\ resps' = resps \ {h} /\ sink' = sink /\ phase' = phase /\ h \in Reqs
      /\ \E st \in {"sent", "unsent"} : handler' = [handler EXCEPT ![h] = st]
  BY DEF SendResponse, DrainInv
<1>2. /\ handler' \in [Reqs -> HandlerStates] /\ handler'[h] \in {"sent", "unsent"}
      /\ \A g \in Reqs : g # h => handler'[g] = handler[g]
  BY <1>1 DEF DrainInv, HandlerStates
<1> QED BY <1>1, <1>2 DEF DrainInv

(* The sink is closed, with whatever is left in it.                        *)
LEMMA CloseDrain ==
  ASSUME DrainInv, Close
  PROVE  DrainInv'
<1>1. /\ phase' = "closed" /\ sink' = <<>> /\ resps' = {}
      /\ handler' = [h \in Reqs |-> CASE handler[h] = "notifying" -> "running"
                                      [] handler[h] = "answered"  -> "lost"
                                      [] OTHER -> handler[h]]
  BY DEF Close
<1>2. ASSUME NEW h \in Reqs PROVE handler'[h] \in HandlerStates \ {"answered"}
  <2>1. handler[h] \in HandlerStates
    BY DEF DrainInv
  <2> QED BY <1>1, <2>1 DEF HandlerStates
<1>3. handler' \in [Reqs -> HandlerStates]
  BY <1>1, <1>2
<1> QED BY <1>1, <1>2, <1>3 DEF DrainInv

(* Every step keeps account of where each response is.                     *)
LEMMA DrainStepKept ==
  ASSUME TalkInv, DrainInv, [Next]_vars
  PROVE  DrainInv'
<1>0. {"running", "notifying", "calling", "panicked"} \subseteq HandlerStates \ {"answered", "lost"}
  BY DEF HandlerStates
<1>1. ASSUME NEW c \in Calls, SendRequest(c) \/ Timeout(c) \/ Cancel(c) PROVE DrainInv'
  BY <1>1, HandlersUnchanged DEF SendRequest, Timeout, Cancel, GiveUp, handlers, loopVars
<1>2. ASSUME NEW h \in Reqs, GotAnswer(h) \/ Notify(h) \/ Panic(h) PROVE DrainInv'
  <2>1. /\ UNCHANGED <<sink, resps, phase>>
        /\ \E st \in {"running", "notifying", "panicked"} : handler' = [handler EXCEPT ![h] = st]
    BY <1>2 DEF GotAnswer, Notify, Panic, loopVars
  <2> QED BY <1>0, <2>1, HandlerMoves
<1>3. ASSUME NEW h \in Reqs, NEW c \in Nested, CallPeer(h, c) PROVE DrainInv'
  <2>1. UNCHANGED <<sink, resps, phase>> /\ handler' = [handler EXCEPT ![h] = "calling"]
    BY <1>3 DEF CallPeer, loopVars
  <2> QED BY <1>0, <2>1, HandlerMoves
<1>4. ASSUME NEW h \in Reqs, Finish(h) PROVE DrainInv'
  BY <1>4, FinishDrain
<1>5. CASE LoopProxy \/ ReadHalf \/ PeerCloses
  BY <1>5, HandlersUnchanged DEF LoopProxy, ReadHalf, PeerCloses, handlers, loopVars
<1>6. CASE LoopJoin
  <2>1. UNCHANGED <<sink, resps, phase>>
    BY <1>6 DEF LoopJoin
  <2>2. PICK j \in sends : Joined(j.msg, j.st = "ok")
    BY <1>6 DEF LoopJoin
  <2>3. PICK m : m = j.msg /\ MsgOk(m)
    BY DEF TalkInv, SendsOk
  <2>4. CASE m \in Notes
    <3>1. m.kind = "note" /\ m.of \in Reqs
      BY <2>4 DEF Notes
    <3>2. handler' = [handler EXCEPT ![m.of] = "running"]
      BY <2>2, <2>3, <3>1 DEF Joined
    <3> QED BY <1>0, <2>1, <3>1, <3>2, HandlerMoves
  <2>5. CASE m \in OfCalls
    <3>1. m.kind \in {"request", "cancel"}
      BY <2>5 DEF OfCalls
    <3>2. handler' = handler
      BY <2>2, <2>3, <3>1 DEF Joined
    <3> QED BY <2>1, <3>2, HandlersUnchanged
  <2> QED BY <2>3, <2>4, <2>5 DEF MsgOk
<1>7. CASE LoopReceive
  <2>1. UNCHANGED <<sink, resps, phase>> /\ inbox # <<>>
    BY <1>7 DEF LoopReceive
  <2>2. PICK m : m = Head(inbox) /\ LineOk(m)
    BY <2>1 DEF TalkInv, InboxOk
  <2>3. CASE m \in Asks
    <3>1. m.kind \in {"request", "cancel"} /\ m.id \in Reqs
      BY <2>3 DEF Asks
    <3>2. handler' = handler \/ handler' = [handler EXCEPT ![m.id] = "running"]
      BY <1>7, <2>2, <3>1 DEF LoopReceive
    <3> QED BY <1>0, <2>1, <3>1, <3>2, HandlerMoves, HandlersUnchanged
  <2>4. CASE m \in Answers
    <3>1. m.kind = "answer"
      BY <2>4 DEF Answers
    <3>2. handler' = handler
      BY <1>7, <2>2, <3>1 DEF LoopReceive
    <3> QED BY <2>1, <3>2, HandlersUnchanged
  <2> QED BY <2>2, <2>3, <2>4 DEF LineOk
<1>8. CASE LoopSink \/ DrainSink
  BY <1>8, SinkDrain
<1>9. ASSUME NEW r, LoopQuits(r) PROVE DrainInv'
  BY <1>9, HandlersUnchanged DEF LoopQuits, handlers
<1>10. CASE DrainDone \/ BreakDone \/ DrainTimeout
  BY <1>10, CloseDrain DEF DrainDone, BreakDone, DrainTimeout
<1>11. ASSUME NEW j \in sends, Send(j.msg) PROVE DrainInv'
  BY <1>11, HandlersUnchanged DEF Send, handlers
<1>12. ASSUME NEW h \in resps, SendResponse(h) PROVE DrainInv'
  BY <1>12, ResponseDrain
<1>13. ASSUME NEW h \in Reqs, PeerAsks(h) \/ PeerCancels(h) PROVE DrainInv'
  BY <1>13, HandlersUnchanged DEF PeerAsks, PeerCancels, handlers, loopVars
<1>14. ASSUME NEW m \in wire, PeerAnswers(m) PROVE DrainInv'
  BY <1>14, HandlersUnchanged DEF PeerAnswers, handlers, loopVars
<1>15. CASE UNCHANGED vars
  BY <1>15, HandlersUnchanged DEF vars
<1> QED BY <1>1, <1>2, <1>3, <1>4, <1>5, <1>6, <1>7, <1>8, <1>9, <1>10, <1>11, <1>12, <1>13,
           <1>14, <1>15
        DEF Next, HandlerStep, LoopStep, OwnerCloses, DrainStep, SendStep

(* What is left of a handler's answer when the transport closes            *)
Settled(h) == handler[h] \in {"none", "sent", "unsent", "panicked", "notifying", "calling"}
LeftBehind(h) == phase = "broken" /\ (handler[h] = "running" \/ \E i \in 1 .. Len(sink) : sink[i] = h)

(* Only the end of the drain closes: it has nothing left to deliver, or    *)
(* leaves what is in the channel                                           *)
LEMMA ClosesDrained ==
  ASSUME DrainInv, [Next]_vars, phase' = "closed", phase # "closed", NEW h \in Reqs
  PROVE  Settled(h) \/ LeftBehind(h)
<1>1. DrainDone \/ BreakDone \/ DrainTimeout
  <2>1. ~(phase' = phase) /\ phase' # "drain" /\ phase' # "broken"
    OBVIOUS
  <2> QED BY <2>1 DEF Next, vars, SendRequest, Timeout, Cancel, GiveUp, HandlerStep, GotAnswer, Finish,
            Notify, Panic, CallPeer, LoopStep, LoopProxy, LoopJoin, LoopSink, LoopReceive, LoopQuits,
            OwnerCloses, ReadHalf, DrainStep, DrainSink, SendStep, Send, SendResponse, PeerAsks,
            PeerCancels, PeerAnswers, PeerCloses, loopVars
<1>2. handler[h] \in HandlerStates /\ handler[h] # "lost"
  BY DEF DrainInv
<1>3. CASE DrainDone \/ DrainTimeout
  <2>1. resps = {} /\ Len(sink) = 0 /\ handler[h] # "running"
    BY <1>3 DEF DrainDone, DrainTimeout, InFlight
  <2>2. handler[h] # "answered"
    BY <2>1 DEF DrainInv
  <2> QED BY <1>2, <2>1, <2>2 DEF HandlerStates, Settled
<1>4. CASE BreakDone
  <2>1. phase = "broken" /\ resps = {}
    BY <1>4 DEF BreakDone, DrainInv
  <2>2. handler[h] = "answered" => \E i \in 1 .. Len(sink) : sink[i] = h
    BY <2>1 DEF DrainInv
  <2> QED BY <1>2, <2>1, <2>2 DEF HandlerStates, Settled, LeftBehind
<1> QED BY <1>1, <1>3, <1>4

(* When the transport closes, every handler that finished on its own has   *)
(* had its answer sent, however many there are and whatever the channel    *)
(* holds, unless a send of the drain of serve_inner has failed: then those *)
(* still in the channel are lost, and none that the loop had taken out.    *)
THEOREM DrainCorrect == Spec => DrainDelivers
<1>1. Init => DrainInv
  BY DEF Init, DrainInv, HandlerStates
<1>2. TalkInv /\ DrainInv /\ [Next]_vars => DrainInv'
  BY DrainStepKept
<1>3. DrainInv /\ [Next]_vars =>
        [phase' = "closed" /\ phase # "closed" =>
           \A h \in Reqs :
             \/ handler[h] \in {"none", "sent", "unsent", "panicked", "notifying", "calling"}
             \/ phase = "broken" /\ (handler[h] = "running" \/ \E i \in 1 .. Len(sink) : sink[i] = h)]_vars
  BY ClosesDrained DEF Settled, LeftBehind
<1> QED BY <1>1, <1>2, <1>3, TalkInvariant, PTL DEF Spec, DrainDelivers
=============================================================================
