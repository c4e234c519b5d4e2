-------------------------- MODULE HttpClient_proofs --------------------------
(***************************************************************************)
(* The OAuth client and the HTTP client transport, for every number of     *)
(* requests, messages, tokens, sessions and failures.                      *)
(***************************************************************************)
EXTENDS HttpClient, Auth, TLAPS

-----------------------------------------------------------------------------
(* OAuth.                                                                  *)

(* The manager, the credentials, the tokens and the requests keep their    *)
(* types.                                                                  *)
Manager == [home : BOOLEAN, ready : BOOLEAN, scopes : SUBSET Scopes, attempts : Nat]
Request == [pc : {"idle", "refresh", "sent", "save", "token", "reauth"}, tok : Nat]

StateOK == st \in {"Unauthorized", "Session", "Authorized", "HttpClient", "Client"}
ManagerOK == mgr \in Manager
CredsOK == creds \in Credentials \cup {Nothing} /\ lost \in BOOLEAN
ServerOK == auth_server \in [last : Nat, live : Nat, scopes : SUBSET Scopes]
TasksOK == task \in [Tasks -> Request] /\ lock \in Tasks \cup {Nothing}

TokensOK == CredsOK /\ ServerOK /\ TasksOK
AuthTypeOK == StateOK /\ ManagerOK /\ TokensOK

(* The authorization urls: a flow whose state is still stored was handed   *)
(* out and never exchanged.                                                *)
FlowsOK ==
  /\ flows \in Seq(SUBSET Scopes) /\ uses \in Seq(Nat) /\ Len(uses) = Len(flows)
  /\ \A f \in states : f \in 1 .. Len(flows) /\ uses[f] = 0

(* A callback by &self keeps the application out of the session, and has    *)
(* loaded the state of a flow.                                              *)
CallbacksOK ==
  /\ callback \in [Tasks -> [pc : {"idle", "loaded", "sent"}, flow : Nat, valid : BOOLEAN]]
  /\ \A t \in Tasks : callback[t].pc # "idle" =>
       st = "Session" /\ callback[t].flow \in 1 .. Len(flows)

(* Requests run only while a client serves; behind AuthClient the one that *)
(* runs holds the mutex.                                                   *)
Locked ==
  /\ ~Serving => Quiet
  /\ st = "Client" => \A t \in Tasks : task[t].pc # "idle" => lock = t

(* No token is newer than the last one issued                              *)
Issued ==
  /\ auth_server.live <= auth_server.last
  /\ creds # Nothing => creds.tok <= auth_server.last
  /\ \A t \in Tasks : task[t].tok <= auth_server.last
  /\ \A t \in Tasks : task[t].pc = "refresh" => creds # Nothing

(* A request that has a new token to save is the only one: the store holds *)
(* the token it spent, and no request is on its way with the new one.      *)
SaveAlone ==
  ~lost => \A t \in Tasks : task[t].pc = "save" =>
    /\ task[t].tok = auth_server.live
    /\ creds # Nothing => creds.tok # auth_server.live
    /\ \A u \in Tasks : /\ task[u].pc = "sent" => task[u].tok # auth_server.live
                        /\ task[u].pc = "save" => u = t

(* The token the server accepts is in the store, or about to be saved      *)
NeverLost ==
  ~lost /\ creds # Nothing =>
    \/ creds.tok = auth_server.live
    \/ \E t \in Tasks : task[t].pc = "save" /\ task[t].tok = auth_server.live

TokenInv == TokensOK /\ Locked /\ Issued /\ SaveAlone /\ NeverLost
AuthInv == AuthTypeOK /\ FlowsOK /\ CallbacksOK /\ TokenInv

-----------------------------------------------------------------------------
(* A new flow is the next number, and nothing was exchanged for it          *)
LEMMA NewFlowUnused ==
  ASSUME FlowsOK, NEW wants \in SUBSET Scopes, NewFlow(wants)
  PROVE  FlowsOK'
<1>1. /\ flows' \in Seq(SUBSET Scopes) /\ uses' \in Seq(Nat)
      /\ Len(flows') = Len(flows) + 1 /\ Len(uses') = Len(uses) + 1
      /\ Len(flows) \in Nat
  BY DEF NewFlow, FlowsOK
<1>2. \A f \in 1 .. Len(flows) : uses'[f] = uses[f]
  BY DEF NewFlow, FlowsOK
<1>3. uses'[Len(flows) + 1] = 0
  BY DEF NewFlow, FlowsOK
<1>4. ASSUME NEW f \in states'
      PROVE  f \in 1 .. Len(flows') /\ uses'[f] = 0
  BY <1>1, <1>2, <1>3 DEF NewFlow, FlowsOK
<1> QED BY <1>1, <1>4 DEF FlowsOK

(* A step that hands out no url and exchanges nothing may only forget flows*)
LEMMA FlowsForgotten ==
  ASSUME FlowsOK, UNCHANGED <<flows, uses>>, states' \subseteq states
  PROVE  FlowsOK'
BY DEF FlowsOK

(* A code exchange spends the state of its flow, whether it works or not    *)
LEMMA FlowSpent ==
  ASSUME FlowsOK, NEW f \in 1 .. Len(flows), flows' = flows,
         uses' = [uses EXCEPT ![f] = @ + 1], states' = states \ {f}
  PROVE  FlowsOK'
<1>1. uses' \in Seq(Nat) /\ Len(uses') = Len(flows)
  BY DEF FlowsOK
<1>2. \A g \in 1 .. Len(flows) : g # f => uses'[g] = uses[g]
  BY DEF FlowsOK
<1> QED BY <1>1, <1>2 DEF FlowsOK

(* Only a flow whose state is stored is exchanged, and the state goes with *)
(* it.                                                                     *)
LEMMA FlowsStep ==
  ASSUME AuthTypeOK, FlowsOK, CallbacksOK, AuthNext
  PROVE  FlowsOK'
<1>1. CASE StartAuthorization
  <2>1. CASE \E wants \in (SUBSET Scopes) \ {{}} : NewFlow(wants)
    BY <2>1, NewFlowUnused
  <2>2. CASE UNCHANGED <<flows, uses>> /\ states' = {}
    BY <2>2, FlowsForgotten
  <2> QED BY <1>1, <2>1, <2>2 DEF StartAuthorization, Placeholder
<1>2. ASSUME NEW r \in (SUBSET Scopes) \ {{}}, RequestScopeUpgrade(r)
      PROVE  FlowsOK'
  <2>1. CASE UpgradeAttempt(r)
    <3>1. compute_scope_union(mgr.scopes, r) \in SUBSET Scopes
      BY DEF compute_scope_union, AuthTypeOK, ManagerOK, Manager
    <3> QED BY <2>1, <3>1, NewFlowUnused DEF UpgradeAttempt
  <2>2. CASE UNCHANGED <<states, flows, uses>>
    BY <2>2, FlowsForgotten
  <2> QED BY <1>2, <2>1, <2>2 DEF RequestScopeUpgrade
<1>3. ASSUME NEW c \in Callbacks, HandleCallback(c[1], c[2])
      PROVE  FlowsOK'
  <2>1. CASE /\ c[1] \in states /\ uses' = [uses EXCEPT ![c[1]] = @ + 1]
             /\ flows' = flows /\ states' = states \ {c[1]}
    <3>1. c[1] \in 1 .. Len(flows)
      BY <2>1 DEF FlowsOK
    <3> QED BY <2>1, <3>1, FlowSpent
  <2>2. CASE UNCHANGED <<flows, uses>> /\ states' \subseteq states
    BY <2>2, FlowsForgotten
  <2> QED BY <1>3, <2>1, <2>2 DEF HandleCallback, ExchangeState
<1>4. CASE \/ CompleteAuthorization \/ HandOverTooEarly
           \/ SetCredentials \/ AuthenticateClientCredentials \/ RefreshAuthorized
           \/ \E to \in {"Client", "HttpClient"} : HandOver(to)
           \/ Expire \/ Restart
  <2>1. UNCHANGED <<flows, uses>> /\ states' \subseteq states
    BY <1>4 DEF CompleteAuthorization, HandOverTooEarly, SetCredentials, Placeholder,
                AuthenticateClientCredentials, RefreshAuthorized, HandOver, Expire, Restart
  <2> QED BY <2>1, FlowsForgotten
<1>5. CASE \E t \in Tasks : RequestStep(t)
  <2>1. UNCHANGED <<flows, uses, states>>
    BY <1>5 DEF RequestStep, GetAccessToken, RefreshToken, RefreshAnswered, SaveRefreshed,
                RequestDone
  <2> QED BY <2>1, FlowsForgotten
<1>6. ASSUME NEW t \in Tasks, CallbackStep(t)
      PROVE  FlowsOK'
  <2>1. CASE SessionDeletes(t) /\ callback[t].valid
    <3>1. /\ uses' = [uses EXCEPT ![callback[t].flow] = @ + 1] /\ flows' = flows
          /\ states' = states \ {callback[t].flow} /\ callback[t].pc = "loaded"
      BY <2>1 DEF SessionDeletes, ExchangeState
    <3>2. callback[t].flow \in 1 .. Len(flows)
      BY <3>1 DEF CallbacksOK
    <3> QED BY <3>1, <3>2, FlowSpent
  <2>2. CASE UNCHANGED <<flows, uses>> /\ states' \subseteq states
    BY <2>2, FlowsForgotten
  <2> QED BY <1>6, <2>1, <2>2 DEF CallbackStep, SessionCallback, SessionDeletes, SessionExchanges,
                                  ExchangeState
<1> QED BY <1>1, <1>2, <1>3, <1>4, <1>5, <1>6 DEF AuthNext, AuthStep

(* A step of the application, or of a request: callbacks go on in the       *)
(* session they began in.                                                   *)
LEMMA CallbacksKept ==
  ASSUME FlowsOK, CallbacksOK, callback' = callback, FlowsOK', Len(flows) <= Len(flows'),
         st' = st \/ st # "Session" \/ \A t \in Tasks : callback[t] = NoCallback
  PROVE  CallbacksOK'
<1>1. Len(flows) \in Nat /\ Len(flows') \in Nat
  BY DEF FlowsOK
<1>2. NoCallback.pc = "idle"
  BY DEF NoCallback
<1> QED BY <1>1, <1>2 DEF CallbacksOK

(* A step of one callback                                                   *)
LEMMA CallbackMoves ==
  ASSUME FlowsOK, CallbacksOK, NEW t \in Tasks, CallbackStep(t)
  PROVE  CallbacksOK'
<1>1. flows' = flows /\ st' = st
  BY DEF CallbackStep, SessionCallback, SessionDeletes, SessionExchanges
<1>2. ASSUME NEW c \in [pc : {"idle", "loaded", "sent"}, flow : Nat, valid : BOOLEAN],
             callback' = [callback EXCEPT ![t] = c],
             c.pc # "idle" => st = "Session" /\ c.flow \in 1 .. Len(flows)
      PROVE  CallbacksOK'
  BY <1>1, <1>2 DEF CallbacksOK
<1>3. ASSUME NEW c \in Callbacks, SessionCallback(t, c[1], c[2]) PROVE CallbacksOK'
  <2> DEFINE v == validate_authorization_response_issuer(c[2])
             new == [pc |-> "loaded", flow |-> c[1], valid |-> v]
  <2>1. callback' = [callback EXCEPT ![t] = new] /\ st = "Session" /\ c[1] \in states
    BY <1>3 DEF SessionCallback
  <2>2. v \in BOOLEAN
    BY DEF validate_authorization_response_issuer
  <2>3. c[1] \in 1 .. Len(flows) /\ Len(flows) \in Nat
    BY <2>1 DEF FlowsOK
  <2> HIDE DEF v
  <2>4. /\ new \in [pc : {"idle", "loaded", "sent"}, flow : Nat, valid : BOOLEAN]
        /\ new.flow \in 1 .. Len(flows)
    BY <2>2, <2>3
  <2> HIDE DEF new
  <2> QED BY <1>2, <2>1, <2>4
<1>4. NoCallback \in [pc : {"idle", "loaded", "sent"}, flow : Nat, valid : BOOLEAN] /\ NoCallback.pc = "idle"
  BY DEF NoCallback
<1>5. CASE callback' = [callback EXCEPT ![t] = NoCallback]
  BY <1>2, <1>4, <1>5
<1>6. CASE SessionDeletes(t) /\ callback' = [callback EXCEPT ![t].pc = "sent"]
  <2> DEFINE new == [callback[t] EXCEPT !.pc = "sent"]
  <2>1. callback[t] \in [pc : {"idle", "loaded", "sent"}, flow : Nat, valid : BOOLEAN]
    BY DEF CallbacksOK
  <2>2. /\ new \in [pc : {"idle", "loaded", "sent"}, flow : Nat, valid : BOOLEAN]
        /\ new.flow = callback[t].flow
    BY <2>1
  <2>3. callback' = [callback EXCEPT ![t] = new]
    BY <1>6
  <2>4. st = "Session" /\ callback[t].flow \in 1 .. Len(flows)
    BY <1>6 DEF SessionDeletes, CallbacksOK
  <2> HIDE DEF new
  <2> QED BY <1>2, <2>2, <2>3, <2>4
<1> QED BY <1>3, <1>5, <1>6 DEF CallbackStep, SessionDeletes, SessionExchanges

(* Every step leaves the callbacks in their session.                        *)
LEMMA CallbacksStep ==
  ASSUME AuthTypeOK, FlowsOK, CallbacksOK, AuthNext
  PROVE  CallbacksOK'
<1>1. FlowsOK'
  BY FlowsStep
<1>2. CASE \E t \in Tasks : CallbackStep(t)
  BY <1>2, CallbackMoves
<1>3. CASE Restart
  <2>1. /\ NoCallback \in [pc : {"idle", "loaded", "sent"}, flow : Nat, valid : BOOLEAN]
        /\ NoCallback.pc = "idle"
    BY DEF NoCallback
  <2> QED BY <1>3, <2>1 DEF Restart, CallbacksOK
<1>4. CASE \/ StartAuthorization \/ CompleteAuthorization \/ HandOverTooEarly
           \/ SetCredentials \/ AuthenticateClientCredentials \/ RefreshAuthorized
           \/ \E c \in Callbacks : HandleCallback(c[1], c[2])
           \/ \E r \in (SUBSET Scopes) \ {{}} : RequestScopeUpgrade(r)
  <2>1. callback' = callback /\ \A t \in Tasks : callback[t] = NoCallback
    BY <1>4 DEF StartAuthorization, CompleteAuthorization, HandOverTooEarly, SetCredentials,
                AuthenticateClientCredentials, RefreshAuthorized, HandleCallback,
                RequestScopeUpgrade, Exclusive
  <2>2. NoCallback.pc = "idle"
    BY DEF NoCallback
  <2> QED BY <2>1, <2>2 DEF CallbacksOK
<1>5. CASE \/ \E to \in {"Client", "HttpClient"} : HandOver(to)
           \/ \E t \in Tasks : RequestStep(t)
           \/ Expire
  <2>1. callback' = callback /\ flows' = flows /\ (st' = st \/ st # "Session")
    BY <1>5 DEF HandOver, RequestStep, GetAccessToken, RefreshToken, RefreshAnswered, SaveRefreshed,
                RequestDone, Expire
  <2>2. Len(flows) <= Len(flows')
    BY <2>1 DEF FlowsOK
  <2> QED BY <1>1, <2>1, <2>2, CallbacksKept
<1> QED BY <1>2, <1>3, <1>4, <1>5 DEF AuthNext, AuthStep

-----------------------------------------------------------------------------
(* The tokens.                                                             *)

(* The manager's fields are set one at a time                              *)
LEMMA ManagerFields ==
  ASSUME NEW m \in Manager
  PROVE  /\ \A b \in BOOLEAN : Fresh(b) \in Manager
         /\ \A b \in BOOLEAN : [m EXCEPT !.ready = b] \in Manager
         /\ \A s \in SUBSET Scopes : [m EXCEPT !.scopes = s] \in Manager
         /\ \A b \in BOOLEAN, s \in SUBSET Scopes :
              [m EXCEPT !.ready = b, !.scopes = s] \in Manager
<1>1. \A b \in BOOLEAN : Fresh(b) \in Manager
  BY DEF Fresh, Manager
<1>2. /\ m.home \in BOOLEAN /\ m.ready \in BOOLEAN /\ m.scopes \in SUBSET Scopes
      /\ m.attempts \in Nat
  BY DEF Manager
<1>3. \A b \in BOOLEAN : [m EXCEPT !.ready = b] \in Manager
  BY <1>2 DEF Manager
<1>4. \A s \in SUBSET Scopes : [m EXCEPT !.scopes = s] \in Manager
  BY <1>2 DEF Manager
<1>5. \A b \in BOOLEAN, s \in SUBSET Scopes :
        [m EXCEPT !.ready = b, !.scopes = s] \in Manager
  BY <1>2 DEF Manager
<1> QED BY <1>1, <1>3, <1>4, <1>5

(* Every step leaves the manager a record of its type.                     *)
LEMMA ManagerStep ==
  ASSUME AuthTypeOK, FlowsOK, CallbacksOK, AuthNext
  PROVE  ManagerOK'
<1> USE DEF AuthTypeOK, ManagerOK
<1>1. CASE StartAuthorization
  <2>1. mgr' \in {Fresh(FALSE), [mgr EXCEPT !.ready = TRUE]}
    BY <1>1 DEF StartAuthorization, Placeholder
  <2> QED BY <2>1, ManagerFields
<1>2. CASE CompleteAuthorization \/ HandOverTooEarly
  <2>1. mgr' \in {Fresh(FALSE), mgr}
    BY <1>2 DEF CompleteAuthorization, HandOverTooEarly, Placeholder
  <2> QED BY <2>1, ManagerFields
<1>3. CASE SetCredentials \/ AuthenticateClientCredentials
  <2>1. CASE \E given \in SUBSET Scopes : mgr' = [mgr EXCEPT !.ready = TRUE, !.scopes = given]
    BY <2>1, ManagerFields
  <2>2. CASE mgr' \in {Fresh(FALSE), mgr}
    BY <2>2, ManagerFields
  <2> QED BY <1>3, <2>1, <2>2 DEF SetCredentials, AuthenticateClientCredentials, Placeholder
<1>4. CASE RefreshAuthorized
  <2>1. mgr' = mgr \/ mgr' = [mgr EXCEPT !.scopes = mgr.scopes]
    BY <1>4 DEF RefreshAuthorized, RefreshedScopes
  <2>2. mgr.scopes \in SUBSET Scopes
    BY DEF Manager
  <2> QED BY <2>1, <2>2, ManagerFields
<1>5. ASSUME NEW c \in Callbacks, HandleCallback(c[1], c[2])
      PROVE  ManagerOK'
  <2>1. c[1] \in states => flows[c[1]] \in SUBSET Scopes
    BY DEF FlowsOK
  <2>2. \/ mgr' = mgr
        \/ \E s \in SUBSET Scopes : mgr' = [mgr EXCEPT !.scopes = s, !.attempts = 0]
    BY <1>5, <2>1 DEF HandleCallback, Exchanged, NotExchanged, Grant
  <2>3. ASSUME NEW s \in SUBSET Scopes PROVE [mgr EXCEPT !.scopes = s, !.attempts = 0] \in Manager
    BY DEF Manager
  <2> QED BY <2>2, <2>3
<1>6. ASSUME NEW r \in (SUBSET Scopes) \ {{}}, RequestScopeUpgrade(r)
      PROVE  ManagerOK'
  <2>1. \/ mgr' = mgr
        \/ mgr' = [mgr EXCEPT !.attempts = mgr.attempts + 1]
        \/ mgr' = [mgr EXCEPT !.attempts = mgr.attempts]
    BY <1>6 DEF RequestScopeUpgrade, UpgradeAttempt, UpgradeFails
  <2>2. [mgr EXCEPT !.attempts = mgr.attempts + 1] \in Manager
    BY DEF Manager
  <2>3. [mgr EXCEPT !.attempts = mgr.attempts] \in Manager
    BY DEF Manager
  <2> QED BY <2>1, <2>2, <2>3
<1>7. ASSUME NEW t \in Tasks, RequestStep(t)
      PROVE  ManagerOK'
  <2>1. mgr' = mgr \/ mgr' = [mgr EXCEPT !.scopes = mgr.scopes]
    BY <1>7 DEF RequestStep, GetAccessToken, RefreshToken, RefreshAnswered, SaveRefreshed,
                RefreshedScopes, RequestDone
  <2>2. mgr.scopes \in SUBSET Scopes
    BY DEF Manager
  <2> QED BY <2>1, <2>2, ManagerFields
<1>8. CASE Expire \/ (\E to \in {"Client", "HttpClient"} : HandOver(to))
  BY <1>8 DEF Expire, HandOver
<1>9. CASE Restart
  <2>1. mgr' = Fresh(TRUE) \/ mgr' = [Fresh(TRUE) EXCEPT !.ready = TRUE]
    BY <1>9 DEF Restart
  <2> QED BY <2>1, ManagerFields
<1>10. ASSUME NEW t \in Tasks, CallbackStep(t)
       PROVE  ManagerOK'
  <2>1. callback[t].pc = "sent" => flows[callback[t].flow] \in SUBSET Scopes
    BY DEF FlowsOK, CallbacksOK
  <2>2. \/ mgr' = mgr
        \/ \E s \in SUBSET Scopes : mgr' = [mgr EXCEPT !.scopes = s, !.attempts = 0]
    BY <1>10, <2>1 DEF CallbackStep, SessionCallback, SessionDeletes, SessionExchanges,
                       Exchanged, NotExchanged, Grant
  <2>3. ASSUME NEW s \in SUBSET Scopes PROVE [mgr EXCEPT !.scopes = s, !.attempts = 0] \in Manager
    BY DEF Manager
  <2> QED BY <2>2, <2>3
<1> QED BY <1>1, <1>2, <1>3, <1>4, <1>5, <1>6, <1>7, <1>8, <1>9, <1>10 DEF AuthNext, AuthStep

(* A step that touches no token, no request and no mutex: the state changes*)
(* only while no request runs.                                             *)
LEMMA TokensKept ==
  ASSUME TokenInv, UNCHANGED <<creds, auth_server, task, lock, lost>>, st' = st \/ Quiet
  PROVE  TokenInv'
<1> USE DEF TokenInv
<1>1. TokensOK'
  BY DEF TokensOK, CredsOK, ServerOK, TasksOK
<1>2. Locked'
  BY DEF Locked, Serving, Quiet
<1>3. Issued' /\ SaveAlone' /\ NeverLost'
  BY DEF Issued, SaveAlone, NeverLost
<1> QED BY <1>1, <1>2, <1>3

(* A new token reaches the store while no request runs                     *)
LEMMA TokenReceived ==
  ASSUME TokenInv, Quiet, UNCHANGED <<task, lock>>, NEW given \in SUBSET Scopes,
         NEW granted \in SUBSET Scopes, creds' = Saved(auth_server.last + 1, granted), lost' = FALSE,
         auth_server' = [last |-> auth_server.last + 1, live |-> auth_server.last + 1, scopes |-> given]
  PROVE  TokenInv'
<1> USE DEF TokenInv
<1>1. auth_server.last \in Nat
  BY DEF TokensOK, ServerOK
<1>2. creds' \in Credentials /\ creds'.tok = auth_server.last + 1
  BY <1>1 DEF Saved, Credentials
<1>3. auth_server'.last = auth_server.last + 1 /\ auth_server'.live = auth_server.last + 1
  OBVIOUS
<1>4. TokensOK'
  <2>1. ServerOK'
    BY <1>1 DEF ServerOK
  <2>2. CredsOK' /\ TasksOK'
    BY <1>2 DEF TokensOK, CredsOK, TasksOK
  <2> QED BY <2>1, <2>2 DEF TokensOK
<1>5. Locked' /\ SaveAlone'
  BY DEF Locked, SaveAlone, Serving, Quiet
<1>6. Issued'
  <2>1. \A t \in Tasks : task[t].tok \in Nat
    BY DEF TokensOK, TasksOK, Request
  <2> QED BY <1>1, <1>2, <1>3, <2>1 DEF Issued, Quiet
<1>7. NeverLost'
  BY <1>2, <1>3 DEF NeverLost
<1> QED BY <1>4, <1>5, <1>6, <1>7

(* A refresh the server accepts                                            *)
Rotated ==
  /\ auth_server.last \in Nat /\ auth_server.live \in Nat
  /\ auth_server'.last = auth_server.last + 1 /\ auth_server'.live = auth_server.last + 1
  /\ ServerOK'

(* The authorization server hands out a new token.                         *)
LEMMA Rotation ==
  ASSUME TokensOK,
         auth_server' = [auth_server EXCEPT !.last = @ + 1, !.live = auth_server.last + 1]
  PROVE  Rotated
<1>1. auth_server.last \in Nat /\ auth_server.live \in Nat /\ auth_server.scopes \in SUBSET Scopes
  BY DEF TokensOK, ServerOK
<1>2. auth_server = [last |-> auth_server.last, live |-> auth_server.live, scopes |-> auth_server.scopes]
  BY DEF TokensOK, ServerOK
<1>3. auth_server' = [last |-> auth_server.last + 1, live |-> auth_server.last + 1,
                      scopes |-> auth_server.scopes]
  BY <1>2
<1>4. ServerOK'
  BY <1>1, <1>3 DEF ServerOK
<1> QED BY <1>1, <1>3, <1>4 DEF Rotated

(* A rotation whose answer is lost                                         *)
LEMMA TokenLost ==
  ASSUME TokenInv, Quiet, UNCHANGED <<creds, task, lock>>, lost' = TRUE,
         auth_server' = [auth_server EXCEPT !.last = @ + 1, !.live = auth_server.last + 1]
  PROVE  TokenInv'
<1> USE DEF TokenInv
<1>1. Rotated
  BY Rotation
<1>2. TokensOK'
  BY <1>1 DEF Rotated, TokensOK, CredsOK, TasksOK
<1>3. Locked' /\ SaveAlone' /\ NeverLost'
  BY DEF Locked, SaveAlone, NeverLost, Serving, Quiet
<1>4. Issued'
  <2>1. \A t \in Tasks : task[t].tok \in Nat
    BY DEF TokensOK, TasksOK, Request
  <2>2. creds # Nothing => creds.tok \in Nat
    BY DEF TokensOK, CredsOK, Credentials
  <2> QED BY <1>1, <2>1, <2>2 DEF Rotated, Issued
<1> QED BY <1>2, <1>3, <1>4

(* What is known of the tokens before a step                                *)
LEMMA TokenNumbers ==
  ASSUME TokenInv
  PROVE  /\ auth_server.last \in Nat /\ auth_server.live \in Nat
         /\ creds # Nothing => creds \in Credentials /\ creds.tok \in Nat
         /\ \A t \in Tasks : task[t] \in Request /\ task[t].tok \in Nat
BY DEF TokenInv, TokensOK, CredsOK, ServerOK, TasksOK, Credentials, Request

(* A request takes the stored token, or finds that it has to be renewed.   *)
LEMMA GetAccessTokenStep ==
  ASSUME TokenInv, NEW t \in Tasks, GetAccessToken(t)
  PROVE  TokenInv'
<1> USE DEF TokenInv
<1> DEFINE r == IF Stored = Nothing THEN [pc |-> "reauth", tok |-> 0]
                ELSE [pc |-> IF Stored.stale THEN "refresh" ELSE "token", tok |-> Stored.tok]
<1>1. /\ task' = [task EXCEPT ![t] = r] /\ UNCHANGED <<st, creds, auth_server, lost>>
      /\ Serving /\ MayEnter(t) /\ lock' = IF st = "Client" THEN t ELSE lock
  BY DEF GetAccessToken
<1>2. /\ r \in Request /\ r.pc \in {"reauth", "refresh", "token"} /\ r.tok <= auth_server.last
      /\ r.pc = "refresh" => creds # Nothing
  <2>1. CASE Stored = Nothing
    BY <2>1, TokenNumbers DEF Request
  <2>2. CASE Stored # Nothing
    <3>1. Stored = creds /\ creds # Nothing
      BY <2>2 DEF Stored
    <3>2. creds.tok \in Nat /\ creds.tok <= auth_server.last
      BY <3>1, TokenNumbers DEF Issued
    <3> QED BY <2>2, <3>1, <3>2 DEF Request
  <2> QED BY <2>1, <2>2
<1> HIDE DEF r
<1>3. task'[t] = r /\ \A u \in Tasks : u # t => task'[u] = task[u]
  BY <1>1 DEF TokensOK, TasksOK
<1>4. TokensOK'
  BY <1>1, <1>2 DEF TokensOK, CredsOK, ServerOK, TasksOK
<1>5. Locked'
  <2>1. Serving'
    BY <1>1 DEF Serving
  <2>2. ASSUME st = "Client", NEW u \in Tasks, u # t PROVE task[u].pc = "idle"
    BY <1>1, <2>2, AuthAssumption DEF Locked, MayEnter
  <2>3. ASSUME st = "Client", NEW u \in Tasks, task'[u].pc # "idle" PROVE lock' = u
    BY <1>1, <1>3, <2>2, <2>3
  <2> QED BY <1>1, <2>1, <2>3 DEF Locked
<1>6. Issued'
  BY <1>1, <1>2, <1>3 DEF Issued
<1>7. SaveAlone'
  BY <1>1, <1>2, <1>3 DEF SaveAlone
<1>8. NeverLost'
  <2>1. task[t].pc = "idle"
    BY DEF GetAccessToken
  <2> QED BY <1>1, <1>3, <2>1 DEF NeverLost
<1> QED BY <1>4, <1>5, <1>6, <1>7, <1>8

(* The refresh goes out with the token on record.                          *)
LEMMA RefreshTokenStep ==
  ASSUME TokenInv, NEW t \in Tasks, RefreshToken(t)
  PROVE  TokenInv'
<1> USE DEF TokenInv
<1> DEFINE r == [pc |-> "sent", tok |-> creds.tok]
<1>1. /\ task' = [task EXCEPT ![t] = r] /\ UNCHANGED <<st, creds, auth_server, lost, lock>>
      /\ Serving /\ task[t].pc = "refresh"
  BY DEF RefreshToken
<1>2. creds # Nothing /\ creds.tok \in Nat /\ creds.tok <= auth_server.last
  BY <1>1, TokenNumbers DEF Issued
<1>3. r \in Request /\ r.pc = "sent" /\ r.tok = creds.tok
  BY <1>2 DEF Request
<1> HIDE DEF r
<1>4. task'[t] = r /\ \A u \in Tasks : u # t => task'[u] = task[u]
  BY <1>1 DEF TokensOK, TasksOK
<1>5. TokensOK'
  BY <1>1, <1>3 DEF TokensOK, CredsOK, ServerOK, TasksOK
<1>6. Locked'
  BY <1>1, <1>4 DEF Locked, Serving, Quiet
<1>7. Issued'
  BY <1>1, <1>2, <1>3, <1>4 DEF Issued
<1>8. SaveAlone'
  BY <1>1, <1>2, <1>3, <1>4 DEF SaveAlone
<1>9. NeverLost'
  BY <1>1, <1>4 DEF NeverLost
<1> QED BY <1>5, <1>6, <1>7, <1>8, <1>9

(* The new token reaches the store under the lock.                         *)
LEMMA SaveRefreshedStep ==
  ASSUME TokenInv, AuthTypeOK, NEW t \in Tasks, SaveRefreshed(t)
  PROVE  TokenInv'
<1> USE DEF TokenInv
<1>1. /\ task' = [task EXCEPT ![t].pc = "token"] /\ UNCHANGED <<st, auth_server, lost, lock>>
      /\ Serving /\ task[t].pc = "save"
      /\ creds' = Saved(task[t].tok, mgr.scopes)
  BY DEF SaveRefreshed, RefreshedScopes
<1>2. mgr.scopes \in SUBSET Scopes
  BY DEF AuthTypeOK, ManagerOK, Manager
<1>3. creds' \in Credentials /\ creds'.tok = task[t].tok
  BY <1>1, <1>2, TokenNumbers DEF Saved, Credentials
<1>4. creds' # Nothing
  BY <1>3, AuthAssumption
<1>5. /\ task' \in [Tasks -> Request]
      /\ task'[t].pc = "token" /\ task'[t].tok = task[t].tok
      /\ \A u \in Tasks : u # t => task'[u] = task[u]
  BY <1>1 DEF TokensOK, TasksOK, Request
<1>6. TokensOK'
  BY <1>1, <1>3, <1>5 DEF TokensOK, CredsOK, ServerOK, TasksOK
<1>7. Locked'
  BY <1>1, <1>5 DEF Locked, Serving, Quiet
<1>8. Issued'
  BY <1>1, <1>3, <1>4, <1>5 DEF Issued
<1>9. SaveAlone'
  BY <1>1, <1>5 DEF SaveAlone
<1>10. NeverLost'
  BY <1>1, <1>3 DEF NeverLost, SaveAlone
<1> QED BY <1>6, <1>7, <1>8, <1>9, <1>10

(* The lock is given back with the token.                                  *)
LEMMA RequestDoneStep ==
  ASSUME TokenInv, NEW t \in Tasks, RequestDone(t)
  PROVE  TokenInv'
<1> USE DEF TokenInv
<1>1. /\ task' = [task EXCEPT ![t] = Idle] /\ UNCHANGED <<st, creds, auth_server, lost>>
      /\ task[t].pc \in {"token", "reauth"} /\ lock' = IF lock = t THEN Nothing ELSE lock
  BY DEF RequestDone
<1>2. Idle \in Request /\ Idle.pc = "idle" /\ Idle.tok = 0
  BY DEF Idle, Request
<1>3. task'[t] = Idle /\ \A u \in Tasks : u # t => task'[u] = task[u]
  BY <1>1 DEF TokensOK, TasksOK
<1>4. TokensOK'
  BY <1>1, <1>2 DEF TokensOK, CredsOK, ServerOK, TasksOK
<1>5. Locked'
  BY <1>1, <1>2, <1>3 DEF Locked, Serving, Quiet
<1>6. Issued'
  BY <1>1, <1>2, <1>3, TokenNumbers DEF Issued
<1>7. SaveAlone'
  BY <1>1, <1>2, <1>3 DEF SaveAlone
<1>8. NeverLost'
  BY <1>1, <1>3 DEF NeverLost
<1> QED BY <1>4, <1>5, <1>6, <1>7, <1>8

(* The server has rotated the token, or the answer is lost.                *)
LEMMA RefreshAnsweredStep ==
  ASSUME TokenInv, NEW t \in Tasks, RefreshAnswered(t)
  PROVE  TokenInv'
<1> USE DEF TokenInv
<1>1. UNCHANGED <<st, creds, lock>> /\ Serving /\ task[t].pc = "sent"
  BY DEF RefreshAnswered
<1>2. ASSUME NEW r \in Request, r.pc # "idle", task' = [task EXCEPT ![t] = r],
             ServerOK', lost' \in BOOLEAN
      PROVE  /\ TokensOK' /\ Locked' /\ task'[t] = r
             /\ \A u \in Tasks : u # t => task'[u] = task[u]
  <2>1. TokensOK'
    BY <1>1, <1>2 DEF TokensOK, CredsOK, TasksOK
  <2>2. task'[t] = r /\ \A u \in Tasks : u # t => task'[u] = task[u]
    BY <1>2 DEF TokensOK, TasksOK
  <2>3. Locked'
    BY <1>1, <1>2, <2>2 DEF Locked, Serving, Quiet
  <2> QED BY <2>1, <2>2, <2>3
<1> DEFINE fresh == [pc |-> "save", tok |-> auth_server.last + 1]
           back == [task[t] EXCEPT !.pc = "reauth"]
<1>3. back \in Request /\ back.pc = "reauth" /\ back.tok = task[t].tok
  BY TokenNumbers DEF Request
<1>4. CASE /\ task[t].tok = auth_server.live
           /\ auth_server' = [auth_server EXCEPT !.last = @ + 1, !.live = auth_server.last + 1]
           /\ task' = [task EXCEPT ![t] = [pc |-> "save", tok |-> auth_server.last + 1]]
           /\ lost' = lost
  <2>1. Rotated
    BY <1>4, Rotation
  <2>2. /\ lost' \in BOOLEAN /\ task' = [task EXCEPT ![t] = fresh]
        /\ fresh \in Request /\ fresh.pc = "save" /\ fresh.tok = auth_server.last + 1
    BY <1>4, TokenNumbers DEF TokensOK, CredsOK, Request
  <2> HIDE DEF fresh
  <2>3. /\ TokensOK' /\ Locked'
        /\ task'[t].pc = "save" /\ task'[t].tok = auth_server.last + 1
        /\ \A u \in Tasks : u # t => task'[u] = task[u]
    BY <1>2, <2>1, <2>2 DEF Rotated
  <2>4. \A u \in Tasks : u # t => task'[u].tok < auth_server'.live
    BY <2>1, <2>3, TokenNumbers DEF Rotated, Issued
  <2>5. creds # Nothing => creds'.tok < auth_server'.live
    BY <1>1, <2>1, TokenNumbers DEF Rotated, Issued
  <2>6. Issued'
    BY <1>1, <2>1, <2>3, TokenNumbers DEF Rotated, Issued
  <2>7. ~lost => \A u \in Tasks : task[u].pc # "save"
    BY <1>1, <1>4 DEF SaveAlone
  <2>8. SaveAlone'
    <3> SUFFICES ASSUME ~lost, NEW u \in Tasks, task'[u].pc = "save"
                 PROVE  /\ task'[u].tok = auth_server'.live
                        /\ creds' # Nothing => creds'.tok # auth_server'.live
                        /\ \A v \in Tasks : /\ task'[v].pc = "sent" => task'[v].tok # auth_server'.live
                                            /\ task'[v].pc = "save" => v = u
      BY <1>4 DEF SaveAlone
    <3>1. u = t
      BY <2>3, <2>7
    <3>2. task'[u].tok = auth_server'.live
      BY <3>1, <2>1, <2>3 DEF Rotated
    <3>3. creds' # Nothing => creds'.tok # auth_server'.live
      BY <1>1, <2>1, TokenNumbers, <2>5 DEF Rotated
    <3>4. ASSUME NEW v \in Tasks, task'[v].pc = "sent" PROVE task'[v].tok # auth_server'.live
      <4>1. v # t
        BY <2>3, <3>4
      <4>2. task'[v].tok \in Nat /\ task'[v].tok < auth_server'.live
        BY <4>1, <2>3, <2>4, TokenNumbers
      <4> QED BY <4>2, <2>1 DEF Rotated
    <3>5. ASSUME NEW v \in Tasks, task'[v].pc = "save" PROVE v = u
      BY <2>3, <2>7, <3>1, <3>5
    <3> QED BY <3>2, <3>3, <3>4, <3>5
  <2>9. NeverLost'
    BY <2>1, <2>3 DEF NeverLost, Rotated
  <2> QED BY <2>3, <2>6, <2>8, <2>9
<1>5. CASE /\ auth_server' = [auth_server EXCEPT !.last = @ + 1, !.live = auth_server.last + 1]
           /\ lost' = TRUE /\ task' = [task EXCEPT ![t].pc = "reauth"]
  <2>1. Rotated
    BY <1>5, Rotation
  <2>2. task' = [task EXCEPT ![t] = back]
    BY <1>5 DEF TokensOK, TasksOK
  <2> HIDE DEF back
  <2>3. /\ TokensOK' /\ Locked'
        /\ task'[t].pc = "reauth" /\ task'[t].tok = task[t].tok
        /\ \A u \in Tasks : u # t => task'[u] = task[u]
    BY <1>2, <1>5, <1>3, <2>1, <2>2 DEF Rotated
  <2>4. Issued'
    BY <1>1, <2>1, <2>3, TokenNumbers DEF Rotated, Issued
  <2>5. SaveAlone' /\ NeverLost'
    BY <1>5 DEF SaveAlone, NeverLost
  <2> QED BY <2>3, <2>4, <2>5
<1>6. CASE task' = [task EXCEPT ![t].pc = "reauth"] /\ UNCHANGED <<auth_server, lost>>
  <2>1. task' = [task EXCEPT ![t] = back]
    BY <1>6 DEF TokensOK, TasksOK
  <2> HIDE DEF back
  <2>2. ServerOK' /\ lost' \in BOOLEAN
    BY <1>6 DEF TokensOK, ServerOK, CredsOK
  <2>3. /\ TokensOK' /\ Locked'
        /\ task'[t].pc = "reauth" /\ task'[t].tok = task[t].tok
        /\ \A u \in Tasks : u # t => task'[u] = task[u]
    BY <1>2, <1>3, <2>1, <2>2
  <2>4. Issued' /\ SaveAlone' /\ NeverLost'
    BY <1>1, <1>6, <2>3 DEF Issued, SaveAlone, NeverLost
  <2> QED BY <2>3, <2>4
<1> QED BY <1>4, <1>5, <1>6 DEF RefreshAnswered

(* Time passes: a token goes stale where it is.                            *)
LEMMA ExpireStep ==
  ASSUME TokenInv, Expire
  PROVE  TokenInv'
<1> USE DEF TokenInv
<1>1. creds' \in Credentials /\ creds'.tok = creds.tok /\ creds # Nothing
  BY DEF Expire, TokensOK, CredsOK, Credentials
<1>2. UNCHANGED <<st, auth_server, task, lock, lost>>
  BY DEF Expire
<1>3. TokensOK'
  BY <1>1, <1>2 DEF TokensOK, CredsOK, ServerOK, TasksOK
<1>4. Locked' /\ Issued' /\ SaveAlone' /\ NeverLost'
  BY <1>1, <1>2, AuthAssumption DEF Locked, Serving, Quiet, Issued, SaveAlone, NeverLost
<1> QED BY <1>3, <1>4

(* The process starts again: no request runs, and the store is what it     *)
(* was.                                                                    *)
LEMMA RestartStep ==
  ASSUME TokenInv, Restart
  PROVE  TokenInv'
<1> USE DEF TokenInv
<1>1. /\ task' = [t \in Tasks |-> Idle] /\ lock' = Nothing /\ UNCHANGED <<creds, auth_server>>
      /\ lost' = (lost \/ (creds # Nothing /\ creds.tok # auth_server.live))
  BY DEF Restart
<1>2. Idle \in Request /\ Idle.pc = "idle" /\ Idle.tok = 0
  BY DEF Idle, Request
<1>3. TokensOK'
  BY <1>1, <1>2 DEF TokensOK, CredsOK, ServerOK, TasksOK
<1>4. Locked'
  BY <1>1, <1>2 DEF Locked, Serving, Quiet
<1>5. Issued'
  BY <1>1, <1>2, TokenNumbers DEF Issued
<1>6. SaveAlone'
  BY <1>1, <1>2 DEF SaveAlone
<1>7. NeverLost'
  BY <1>1 DEF NeverLost
<1> QED BY <1>3, <1>4, <1>5, <1>6, <1>7

(* Every step leaves OAuthState in one of its variants.                    *)
LEMMA StateStep ==
  ASSUME AuthTypeOK, AuthNext
  PROVE  StateOK'
BY DEF AuthTypeOK, StateOK, AuthNext, AuthStep, StartAuthorization, CompleteAuthorization,
       HandOverTooEarly, SetCredentials, AuthenticateClientCredentials, RefreshAuthorized,
       HandleCallback, CallbackStep, SessionCallback, SessionDeletes, SessionExchanges,
       RequestScopeUpgrade, HandOver, RequestStep, GetAccessToken, RefreshToken,
       RefreshAnswered, SaveRefreshed, RequestDone, Expire, Restart, Placeholder

(* Every step keeps what is known of the tokens.                           *)
LEMMA TokenStep ==
  ASSUME AuthInv, AuthNext
  PROVE  TokenInv'
<1> USE DEF AuthInv
<1>1. CASE \/ StartAuthorization \/ CompleteAuthorization \/ HandOverTooEarly
           \/ \E r \in (SUBSET Scopes) \ {{}} : RequestScopeUpgrade(r)
  <2>1. UNCHANGED <<creds, auth_server, task, lock, lost>> /\ Quiet
    BY <1>1 DEF StartAuthorization, CompleteAuthorization, HandOverTooEarly, RequestScopeUpgrade,
                Exclusive
  <2> QED BY <2>1, TokensKept
<1>2. CASE SetCredentials \/ AuthenticateClientCredentials
  <2>1. UNCHANGED <<task, lock>> /\ Quiet
    BY <1>2 DEF SetCredentials, AuthenticateClientCredentials, Exclusive
  <2>2. CASE \E given \in SUBSET Scopes : Receives(given)
    BY <2>1, <2>2, TokenReceived DEF Receives
  <2>3. CASE UNCHANGED <<creds, auth_server, lost>>
    BY <2>1, <2>3, TokensKept
  <2> QED BY <1>2, <2>2, <2>3 DEF SetCredentials, AuthenticateClientCredentials
<1>3. CASE RefreshAuthorized
  <2>1. UNCHANGED <<task, lock>> /\ Quiet
    BY <1>3 DEF RefreshAuthorized, Exclusive
  <2>2. CASE /\ auth_server' = [auth_server EXCEPT !.last = @ + 1, !.live = auth_server.last + 1]
             /\ creds' = Saved(auth_server.last + 1, RefreshedScopes) /\ lost' = lost
    <3>1. CASE lost' = FALSE
      <4>1. auth_server' = [last |-> auth_server.last + 1, live |-> auth_server.last + 1,
                            scopes |-> auth_server.scopes]
        BY <2>2 DEF TokenInv, TokensOK, ServerOK
      <4>2. auth_server.scopes \in SUBSET Scopes /\ RefreshedScopes \in SUBSET Scopes
        BY DEF TokenInv, TokensOK, ServerOK, RefreshedScopes, AuthTypeOK, ManagerOK, Manager
      <4> QED BY <2>1, <2>2, <3>1, <4>1, <4>2, TokenReceived
    <3>2. CASE lost' = TRUE
      <4>1. Rotated
        BY <2>2, Rotation DEF TokenInv
      <4>2. creds' \in Credentials /\ creds'.tok = auth_server.last + 1
        BY <2>2, TokenNumbers DEF Saved, Credentials, RefreshedScopes, AuthTypeOK, ManagerOK, Manager
      <4>3. TokensOK'
        BY <2>1, <3>2, <4>1, <4>2 DEF Rotated, TokenInv, TokensOK, CredsOK, TasksOK
      <4>4. Locked' /\ SaveAlone' /\ NeverLost'
        BY <2>1, <3>2 DEF TokenInv, Locked, SaveAlone, NeverLost, Quiet
      <4>5. Issued'
        BY <2>1, <4>1, <4>2, TokenNumbers DEF Rotated, TokenInv, Issued, Quiet
      <4> QED BY <4>3, <4>4, <4>5 DEF TokenInv
    <3> QED BY <2>2, <3>1, <3>2 DEF TokenInv, TokensOK, CredsOK
  <2>3. CASE /\ auth_server' = [auth_server EXCEPT !.last = @ + 1, !.live = auth_server.last + 1]
             /\ lost' = TRUE /\ creds' = creds
    BY <2>1, <2>3, TokenLost
  <2>4. CASE UNCHANGED <<creds, auth_server, lost>>
    BY <2>1, <2>4, TokensKept
  <2> QED BY <1>3, <2>2, <2>3, <2>4 DEF RefreshAuthorized
<1>4. ASSUME NEW f, flows[f] \in SUBSET Scopes, Exchanged(f), UNCHANGED <<task, lock>>, Quiet
      PROVE  TokenInv'
  <2>1. mgr'.scopes \in SUBSET Scopes
    BY ManagerStep DEF ManagerOK, Manager
  <2> QED BY <1>4, <2>1, TokenReceived DEF Exchanged, Grant
<1>8. ASSUME NEW c \in Callbacks, HandleCallback(c[1], c[2])
      PROVE  TokenInv'
  <2>1. UNCHANGED <<task, lock>> /\ Quiet
    BY <1>8 DEF HandleCallback, Exclusive
  <2>2. CASE UNCHANGED <<creds, auth_server, lost>>
    BY <2>1, <2>2, TokensKept
  <2>3. CASE c[1] \in states /\ Exchanged(c[1])
    <3>1. flows[c[1]] \in SUBSET Scopes
      BY <2>3 DEF FlowsOK
    <3> QED BY <1>4, <2>1, <2>3, <3>1
  <2> QED BY <1>8, <2>2, <2>3 DEF HandleCallback, NotExchanged
<1>9. ASSUME NEW t \in Tasks, CallbackStep(t)
      PROVE  TokenInv'
  <2>1. UNCHANGED <<st, task, lock>>
    BY <1>9 DEF CallbackStep, SessionCallback, SessionDeletes, SessionExchanges
  <2>2. CASE UNCHANGED <<creds, auth_server, lost>>
    BY <2>1, <2>2, TokensKept
  <2>3. CASE callback[t].pc = "sent" /\ Exchanged(callback[t].flow)
    <3>1. st = "Session" /\ callback[t].flow \in 1 .. Len(flows)
      BY <2>3 DEF CallbacksOK
    <3>2. Quiet /\ flows[callback[t].flow] \in SUBSET Scopes
      BY <3>1 DEF TokenInv, Locked, Serving, FlowsOK
    <3> QED BY <1>4, <2>1, <2>3, <3>2
  <2> QED BY <1>9, <2>2, <2>3 DEF CallbackStep, SessionCallback, SessionDeletes, SessionExchanges,
                                  NotExchanged
<1>5. ASSUME NEW to \in {"Client", "HttpClient"}, HandOver(to)
      PROVE  TokenInv'
  <2>1. UNCHANGED <<creds, auth_server, task, lock, lost>> /\ Quiet
    BY <1>5 DEF HandOver, TokenInv, Locked, Serving
  <2> QED BY <2>1, TokensKept
<1>6. ASSUME NEW t \in Tasks, RequestStep(t)
      PROVE  TokenInv'
  BY <1>6, GetAccessTokenStep, RefreshTokenStep, RefreshAnsweredStep, SaveRefreshedStep,
     RequestDoneStep DEF RequestStep
<1>7. CASE Expire \/ Restart
  BY <1>7, ExpireStep, RestartStep
<1> QED BY <1>1, <1>2, <1>3, <1>4, <1>5, <1>6, <1>7, <1>8, <1>9 DEF AuthNext, AuthStep

(* OAuthState, the manager and the store keep the inductive invariant, for *)
(* any number of tasks, flows, tokens and failures.                        *)
THEOREM AuthInvariant == AuthSpec => []AuthInv
<1>1. AuthInit => AuthInv
  <2> SUFFICES ASSUME AuthInit PROVE AuthInv
    OBVIOUS
  <2> USE DEF AuthInit
  <2>1. StateOK /\ ManagerOK
    BY DEF StateOK, ManagerOK, Manager, Fresh
  <2>2. Idle \in Request /\ Idle.pc = "idle" /\ Idle.tok = 0
    BY DEF Idle, Request
  <2>3. CredsOK /\ ServerOK /\ TasksOK
    BY <2>2 DEF CredsOK, ServerOK, TasksOK
  <2>4. FlowsOK
    BY DEF FlowsOK
  <2>5. Locked /\ SaveAlone /\ NeverLost
    BY <2>2 DEF Locked, Quiet, SaveAlone, NeverLost
  <2>6. Issued
    BY <2>2 DEF Issued
  <2>7. CallbacksOK
    <3>1. /\ NoCallback \in [pc : {"idle", "loaded", "sent"}, flow : Nat, valid : BOOLEAN]
          /\ NoCallback.pc = "idle"
      BY DEF NoCallback
    <3> QED BY <3>1 DEF CallbacksOK
  <2> QED BY <2>1, <2>3, <2>4, <2>5, <2>6, <2>7 DEF AuthInv, AuthTypeOK, TokenInv, TokensOK
<1>2. AuthInv /\ [AuthNext]_authVars => AuthInv'
  <2> SUFFICES ASSUME AuthInv, [AuthNext]_authVars PROVE AuthInv'
    OBVIOUS
  <2>1. CASE AuthNext
    <3>1. FlowsOK'
      BY <2>1, FlowsStep DEF AuthInv
    <3>2. ManagerOK' /\ StateOK'
      BY <2>1, ManagerStep, StateStep DEF AuthInv
    <3>3. TokenInv'
      BY <2>1, TokenStep
    <3>4. CallbacksOK'
      BY <2>1, CallbacksStep DEF AuthInv
    <3> QED BY <3>1, <3>2, <3>3, <3>4 DEF AuthInv, AuthTypeOK, TokenInv
  <2>2. CASE UNCHANGED authVars
    <3>1. FlowsOK'
      BY <2>2, FlowsForgotten DEF AuthInv, authVars
    <3>2. TokenInv'
      BY <2>2, TokensKept DEF AuthInv, authVars
    <3>3. StateOK' /\ ManagerOK'
      BY <2>2 DEF AuthInv, AuthTypeOK, StateOK, ManagerOK, authVars
    <3>4. CallbacksOK'
      BY <2>2 DEF AuthInv, CallbacksOK, authVars
    <3> QED BY <3>1, <3>2, <3>3, <3>4 DEF AuthInv, AuthTypeOK, TokenInv
  <2> QED BY <2>1, <2>2
<1> QED BY <1>1, <1>2, PTL DEF AuthSpec

(* The state of a flow that a code was sent for is in no store any more,    *)
(* however many callbacks run together and whatever failed: only a callback *)
(* that loaded it before can still use it.                                  *)
THEOREM StateCorrect == AuthSpec => []StateIsSpent
<1>1. AuthInv => StateIsSpent
  BY DEF AuthInv, FlowsOK, StateIsSpent
<1> QED BY <1>1, AuthInvariant, PTL

(* Behind AuthClient the store holds, between requests, the refresh token   *)
(* the server accepts, unless an answer was lost.                           *)
THEOREM StoreCorrect == AuthSpec => []StoreIsCurrent
<1>1. AuthInv => StoreIsCurrent
  <2> SUFFICES ASSUME AuthInv, st = "Client", lock = Nothing, creds # Nothing, ~lost
               PROVE  creds.tok = auth_server.live
    BY DEF StoreIsCurrent
  <2>1. \A t \in Tasks : task[t].pc = "idle"
    BY AuthAssumption DEF AuthInv, TokenInv, Locked
  <2> QED BY <2>1 DEF AuthInv, TokenInv, NeverLost
<1> QED BY <1>1, AuthInvariant, PTL

-----------------------------------------------------------------------------
(* The transport: types.                                                   *)

Gone == {"cleanup", "done"}
Hands == {"post", "reinit", "renotice", "repost"}
Holding == Hands \cup {"deliver"}
Places == {"init", "notice", "loop", "forward"} \cup Holding \cup Gone

QueueOK ==
  /\ pc \in Places
  /\ result \in [Messages -> {"new", "queued", "ok", "failed"}]
  /\ handled \in [Messages -> Nat]
  /\ inbox \in Seq(Messages)

(* The worker owns the responders of the message in hand and of those that *)
(* wait, each once.                                                        *)
Owned ==
  /\ pc \in Holding => /\ cur \in Messages /\ result[cur] = "queued"
                       /\ \A i \in DOMAIN inbox : inbox[i] # cur
  /\ \A i \in DOMAIN inbox : result[inbox[i]] = "queued"
  /\ \A i, j \in DOMAIN inbox : inbox[i] = inbox[j] => i = j

(* The server took no message whose responder is still open, unless its    *)
(* answer is being delivered.                                              *)
Once ==
  \A m \in Messages :
    /\ handled[m] <= 1
    /\ result[m] \in {"new", "queued"} /\ ~(pc = "deliver" /\ m = cur) => handled[m] = 0

HandledInv == QueueOK /\ Owned /\ Once

-----------------------------------------------------------------------------
(* A message is handled once.                                              *)

(* A POST adds at most one to the message in hand                          *)
Counts == handled' = handled \/ (pc \in Hands /\ handled' = [handled EXCEPT ![cur] = @ + 1])

(* A message is counted only by the POST the worker makes of it.           *)
LEMMA CountedOnce ==
  ASSUME HandledInv, Counts
  PROVE  /\ handled' \in [Messages -> Nat] /\ \A m \in Messages : handled'[m] <= 1
         /\ \A m \in Messages : handled'[m] # handled[m] => pc \in Hands /\ m = cur
<1>1. CASE handled' = handled
  BY <1>1 DEF HandledInv, QueueOK, Once
<1>2. CASE pc \in Hands /\ handled' = [handled EXCEPT ![cur] = @ + 1]
  <2>1. cur \in Messages /\ handled[cur] = 0
    BY <1>2 DEF HandledInv, Owned, Once, Hands, Holding
  <2>2. handled' \in [Messages -> Nat] /\ handled'[cur] = 1
    BY <1>2, <2>1 DEF HandledInv, QueueOK
  <2>3. \A m \in Messages : m # cur => handled'[m] = handled[m]
    BY <1>2, <2>1 DEF HandledInv, QueueOK
  <2> QED BY <1>2, <2>2, <2>3 DEF HandledInv, Once
<1> QED BY <1>1, <1>2 DEF Counts

(* A step that leaves the messages alone and takes none                    *)
LEMMA MessagesKept ==
  ASSUME HandledInv, UNCHANGED <<result, handled, inbox>>, pc' \in Places,
         pc' \in Holding => pc \in Holding /\ cur' = cur,
         pc = "deliver" => pc' = "deliver"
  PROVE  HandledInv'
BY DEF HandledInv, QueueOK, Owned, Once, Holding

(* run returns: every open responder is dropped                            *)
LEMMA ReturnsOnce ==
  ASSUME HandledInv, Returns, Counts
  PROVE  HandledInv'
<1>1. /\ pc' = "done" /\ inbox' = <<>>
      /\ result' = [m \in Messages |-> IF result[m] = "queued" THEN "failed" ELSE result[m]]
  BY DEF Returns
<1>2. QueueOK'
  BY <1>1, CountedOnce DEF HandledInv, QueueOK, Gone, Places
<1>3. Owned'
  BY <1>1 DEF Owned, Hands, Holding
<1>4. Once'
  <2> SUFFICES ASSUME NEW m \in Messages, result'[m] \in {"new", "queued"}
               PROVE  handled'[m] = 0
    BY CountedOnce DEF Once
  <2>1. result[m] = "new"
    BY <1>1 DEF HandledInv, QueueOK
  <2>2. pc \in Holding => m # cur
    BY <2>1 DEF HandledInv, Owned
  <2> QED BY <2>1, <2>2, CountedOnce DEF HandledInv, Once, Holding
<1> QED BY <1>2, <1>3, <1>4 DEF HandledInv

(* The responder of the message in hand is answered                        *)
LEMMA ConcludesOnce ==
  ASSUME HandledInv, pc \in Holding, inbox' = inbox, Counts,
         NEW v \in {"ok", "failed"}, Concludes(v)
  PROVE  HandledInv'
<1>0. pc' = "loop" /\ result' = [result EXCEPT ![cur] = v]
  BY DEF Concludes
<1>1. cur \in Messages /\ result'[cur] = v /\ \A m \in Messages : m # cur => result'[m] = result[m]
  BY <1>0 DEF HandledInv, QueueOK, Owned
<1>2. QueueOK'
  BY <1>0, CountedOnce DEF HandledInv, QueueOK, Places
<1>3. Owned'
  <2>1. \A i \in DOMAIN inbox : inbox[i] \in Messages
    BY DEF HandledInv, QueueOK
  <2> QED BY <1>0, <1>1, <2>1 DEF HandledInv, Owned, Hands, Holding
<1>4. Once'
  <2> SUFFICES ASSUME NEW m \in Messages, result'[m] \in {"new", "queued"}
               PROVE  handled'[m] = 0
    BY CountedOnce DEF Once
  <2>1. m # cur
    BY <1>1
  <2> QED BY <1>1, <2>1, CountedOnce DEF HandledInv, Once
<1> QED BY <1>2, <1>3, <1>4 DEF HandledInv

(* The message in hand has its answer, which is still to be delivered      *)
LEMMA DeliversOnce ==
  ASSUME HandledInv, pc \in Hands, Counts, pc' = "deliver", UNCHANGED <<cur, result, inbox>>
  PROVE  HandledInv'
<1>1. QueueOK'
  BY CountedOnce DEF HandledInv, QueueOK, Places, Holding
<1>2. Owned'
  BY DEF HandledInv, Owned, Holding
<1>3. Once'
  <2> SUFFICES ASSUME NEW m \in Messages, result'[m] \in {"new", "queued"}, m # cur
               PROVE  handled'[m] = 0
    BY CountedOnce DEF Once
  <2> QED BY CountedOnce DEF HandledInv, Once
<1> QED BY <1>1, <1>2, <1>3 DEF HandledInv

(* The handler's message waits, or fails because the worker is gone        *)
LEMMA SendsOnce ==
  ASSUME HandledInv, NEW m \in Messages, HandlerSends(m)
  PROVE  HandledInv'
<1>1. result[m] = "new" /\ UNCHANGED <<pc, cur, handled>>
  BY DEF HandlerSends, server
<1>2. \A i \in DOMAIN inbox : inbox[i] \in Messages /\ inbox[i] # m
  BY <1>1 DEF HandledInv, QueueOK, Owned
<1>3. ASSUME NEW v \in {"queued", "failed"}, result' = [result EXCEPT ![m] = v]
      PROVE  /\ result' \in [Messages -> {"new", "queued", "ok", "failed"}] /\ Once'
             /\ result'[m] = v /\ \A n \in Messages : n # m => result'[n] = result[n]
  <2>1. /\ result' \in [Messages -> {"new", "queued", "ok", "failed"}]
        /\ result'[m] = v /\ \A n \in Messages : n # m => result'[n] = result[n]
    BY <1>3 DEF HandledInv, QueueOK
  <2>2. Once'
    BY <1>1, <2>1 DEF HandledInv, Once
  <2> QED BY <2>1, <2>2
<1>4. CASE pc = "done" /\ result' = [result EXCEPT ![m] = "failed"] /\ inbox' = inbox
  <2>1. QueueOK'
    BY <1>1, <1>3, <1>4 DEF HandledInv, QueueOK
  <2>2. Owned'
    BY <1>1, <1>2, <1>3, <1>4 DEF HandledInv, Owned, Hands, Holding
  <2> QED BY <1>3, <1>4, <2>1, <2>2 DEF HandledInv
<1>5. CASE result' = [result EXCEPT ![m] = "queued"] /\ inbox' = Append(inbox, m)
  <2>1. /\ inbox' \in Seq(Messages) /\ DOMAIN inbox' = DOMAIN inbox \cup {Len(inbox) + 1}
        /\ inbox'[Len(inbox) + 1] = m /\ \A i \in DOMAIN inbox : inbox'[i] = inbox[i]
    BY <1>5 DEF HandledInv, QueueOK
  <2>2. QueueOK'
    BY <1>1, <1>3, <1>5, <2>1 DEF HandledInv, QueueOK
  <2>3. result'[m] = "queued" /\ \A n \in Messages : n # m => result'[n] = result[n]
    BY <1>3, <1>5
  <2>4. pc \in Holding => cur \in Messages /\ cur # m /\ \A i \in DOMAIN inbox : inbox[i] # cur
    BY <1>1 DEF HandledInv, Owned
  <2>5. \A i \in DOMAIN inbox' : result'[inbox'[i]] = "queued"
    BY <1>2, <2>1, <2>3 DEF HandledInv, Owned
  <2>6. \A i, j \in DOMAIN inbox' : inbox'[i] = inbox'[j] => i = j
    BY <1>2, <2>1 DEF HandledInv, Owned
  <2>7. pc' \in Holding => /\ cur' \in Messages /\ result'[cur'] = "queued"
                         /\ \A i \in DOMAIN inbox' : inbox'[i] # cur'
    BY <1>1, <2>1, <2>3, <2>4 DEF HandledInv, Owned
  <2>8. Owned'
    BY <2>5, <2>6, <2>7 DEF Owned
  <2> QED BY <1>3, <1>5, <2>2, <2>8 DEF HandledInv
<1> QED BY <1>4, <1>5 DEF HandlerSends

(* The worker takes the first message that waits                           *)
LEMMA TakesOnce ==
  ASSUME HandledInv, TakeMessage
  PROVE  HandledInv'
<1>1. /\ inbox \in Seq(Messages) /\ inbox # <<>> /\ inbox' = Tail(inbox) /\ cur' = Head(inbox)
      /\ pc = "loop" /\ pc' = "post" /\ UNCHANGED <<result, handled>>
  BY DEF HandledInv, QueueOK, TakeMessage, server
<1>2. /\ inbox' \in Seq(Messages) /\ 1 \in DOMAIN inbox /\ cur' = inbox[1]
      /\ \A i \in DOMAIN inbox' : i \in Nat \ {0} /\ i + 1 \in DOMAIN inbox /\ inbox'[i] = inbox[i + 1]
  BY <1>1
<1>3. QueueOK'
  BY <1>1, <1>2 DEF HandledInv, QueueOK, Hands, Holding, Places
<1>4. Owned'
  <2>1. cur' \in Messages /\ result'[cur'] = "queued"
    BY <1>1, <1>2 DEF HandledInv, Owned
  <2>2. \A i \in DOMAIN inbox' : inbox'[i] # cur'
    BY <1>2 DEF HandledInv, Owned
  <2>3. \A i \in DOMAIN inbox' : result'[inbox'[i]] = "queued"
    BY <1>1, <1>2 DEF HandledInv, Owned
  <2>4. \A i, j \in DOMAIN inbox' : inbox'[i] = inbox'[j] => i = j
    BY <1>2 DEF HandledInv, Owned
  <2> QED BY <2>1, <2>2, <2>3, <2>4 DEF Owned
<1>5. Once'
  BY <1>1 DEF HandledInv, Once
<1> QED BY <1>3, <1>4, <1>5 DEF HandledInv

(* What comes back from a POST is delivered, or concludes it               *)
LEMMA OutcomeOnce ==
  ASSUME HandledInv, pc \in Hands, Counts, NEW r, Outcome(r)
  PROVE  HandledInv'
<1>1. CASE r = "Json"
  BY <1>1, DeliversOnce DEF Outcome
<1>2. CASE r # "Json"
  <2>1. inbox' = inbox /\ pc \in Holding
    BY DEF Outcome, Holding
  <2>2. \E v \in {"ok", "failed"} : Concludes(v)
    BY <1>2 DEF Outcome
  <2> QED BY <2>1, <2>2, ConcludesOnce
<1> QED BY <1>1, <1>2

(* The answer reaches the channel of the handler, or the handler is gone   *)
LEMMA DeliverOnce ==
  ASSUME HandledInv, Deliver
  PROVE  HandledInv'
<1>1. Counts /\ pc \in Holding
  BY DEF Deliver, Counts, Holding, server
<1>2. CASE Returns
  BY <1>1, <1>2, ReturnsOnce
<1>3. CASE Concludes("ok") /\ inbox' = inbox
  BY <1>1, <1>3, ConcludesOnce
<1> QED BY <1>2, <1>3 DEF Deliver, ReturnsEarly

(* A POST counts the message in hand, unless the session has expired       *)
LEMMA ReplyCounts ==
  ASSUME pc \in Hands, NEW reply, Reply(cur, sid, reply)
  PROVE  /\ Counts
         /\ Post(reply, cur, sid) = "SessionExpired" => handled' = handled /\ reply = "404"
<1>1. Counts
  BY DEF Reply, Counts
<1>2. Post(reply, cur, sid) = "SessionExpired" => reply = "404"
  BY DEF Post, post_message, unix_post_message
<1>3. reply = "404" => handled' = handled
  BY DEF Reply, Taken
<1> QED BY <1>1, <1>2, <1>3

(* The handshake touches no message of the handler                         *)
LEMMA HandshakeOnce ==
  ASSUME HandledInv, PostInitialize \/ PostInitialized
  PROVE  HandledInv'
<1>1. handled' = handled
  BY DEF PostInitialize, PostInitialized, server
<1>2. CASE Returns
  BY <1>1, <1>2, ReturnsOnce DEF Counts
<1>3. CASE pc' \in {"notice", "loop"} /\ UNCHANGED <<result, inbox>>
  <2>1. pc # "deliver"
    BY DEF PostInitialize, PostInitialized
  <2> QED BY <1>1, <1>3, <2>1, MessagesKept DEF Hands, Holding, Places
<1> QED BY <1>2, <1>3 DEF PostInitialize, PostInitialized, ReturnsEarly

(* A session that expired costs no message: the retry is the first POST    *)
(* the server takes.                                                       *)
LEMMA RetryOnce ==
  ASSUME HandledInv, PostMessage \/ Reinitialize \/ Reinitialized \/ Repost
  PROVE  HandledInv'
<1>1. CASE PostMessage
  <2>1. pc \in Hands
    BY <1>1 DEF PostMessage, Hands
  <2>2. PICK reply : /\ Reply(cur, sid, reply)
                     /\ LET r == Post(reply, cur, sid) IN
                        IF Retried(r)
                        THEN pc' = "reinit" /\ UNCHANGED <<cur, result, handler, client>>
                        ELSE Outcome(Failure(r))
    BY <1>1 DEF PostMessage
  <2>3. CASE Retried(Post(reply, cur, sid))
    <3>1. handled' = handled
      BY <2>1, <2>2, <2>3, ReplyCounts DEF Retried
    <3>2. pc' = "reinit" /\ cur' = cur /\ result' = result /\ inbox' = inbox
      BY <2>2, <2>3 DEF client
    <3> QED BY <2>1, <3>1, <3>2, MessagesKept DEF Hands, Holding, Places
  <2>4. CASE ~Retried(Post(reply, cur, sid))
    BY <2>1, <2>2, <2>4, ReplyCounts, OutcomeOnce
  <2> QED BY <2>3, <2>4
<1>2. CASE Reinitialize
  <2>1. pc \in Hands /\ handled' = handled
    BY <1>2 DEF Reinitialize, Hands
  <2>2. CASE pc' = "renotice" /\ UNCHANGED <<cur, result, inbox>>
    BY <2>1, <2>2, MessagesKept DEF Hands, Holding, Places
  <2>3. CASE Outcome("Error")
    BY <2>1, <2>3, OutcomeOnce DEF Counts
  <2> QED BY <1>2, <2>2, <2>3 DEF Reinitialize
<1>3. CASE Reinitialized
  <2>1. pc \in Hands /\ handled' = handled /\ inbox' = inbox
    BY <1>3 DEF Reinitialized, Hands, server
  <2>2. CASE pc' = "repost" /\ UNCHANGED <<cur, result>>
    BY <2>1, <2>2, MessagesKept DEF Hands, Holding, Places
  <2>3. CASE Concludes("failed")
    BY <2>1, <2>3, ConcludesOnce DEF Counts, Holding
  <2> QED BY <1>3, <2>2, <2>3 DEF Reinitialized
<1>4. CASE Repost
  <2>1. pc \in Hands
    BY <1>4 DEF Repost, Hands
  <2>2. PICK reply : Reply(cur, sid, reply) /\ Outcome(Failure(Post(reply, cur, sid)))
    BY <1>4 DEF Repost
  <2> QED BY <2>1, <2>2, ReplyCounts, OutcomeOnce
<1> QED BY <1>1, <1>2, <1>3, <1>4

(* Every step keeps the messages apart: one that the worker has in hand    *)
(* waits nowhere else and was not taken by the server before.              *)
LEMMA HandledStep ==
  ASSUME HandledInv, Next
  PROVE  HandledInv'
<1>1. CASE TakeMessage
  BY <1>1, TakesOnce
<1>2. CASE PostInitialize \/ PostInitialized
  BY <1>2, HandshakeOnce
<1>3. CASE PostMessage \/ Reinitialize \/ Reinitialized \/ Repost
  BY <1>3, RetryOnce
<1>4. CASE Stopped \/ ServerMessage \/ Forward
  <2>1. /\ UNCHANGED <<result, handled, inbox>>
        /\ pc # "deliver" /\ pc' \in {"loop", "cleanup", "forward"}
    BY <1>4 DEF Stopped, ServerMessage, Forward, client, server
  <2> QED BY <2>1, MessagesKept DEF Hands, Holding, Places, Gone
<1>5. CASE DeleteSession
  BY <1>5, ReturnsOnce DEF DeleteSession, Counts
<1>6. CASE StreamStep
  <2>1. UNCHANGED <<pc, cur, result, handled, inbox>>
    BY <1>6 DEF StreamStep, Connect, StreamEvent, StreamPasses, StreamEnds, server
  <2> QED BY <2>1, MessagesKept DEF HandledInv, QueueOK
<1>7. ASSUME NEW m \in Messages, HandlerSends(m) PROVE HandledInv'
  BY <1>7, SendsOnce
<1>8. CASE \/ \E how \in {"closing", "gone"} : HandlerCloses(how)
           \/ \E s \in streams : s.req = None /\ StreamEvent(s)
           \/ \E s \in Live : Forget(s)
           \/ HandlerReceives
  <2>1. UNCHANGED <<pc, cur, result, handled, inbox>>
    BY <1>8 DEF HandlerCloses, HandlerReceives, StreamEvent, Forget, client, server
  <2> QED BY <2>1, MessagesKept DEF HandledInv, QueueOK
<1>9. CASE Deliver
  BY <1>9, DeliverOnce
<1> QED BY <1>1, <1>2, <1>3, <1>4, <1>5, <1>6, <1>7, <1>8, <1>9
        DEF Next, WorkerStep, LoopStep, HandlerStep

(* Nothing has been handled yet.                                           *)
LEMMA HandledInit ==
  ASSUME Init
  PROVE  HandledInv
<1>1. /\ pc = "init" /\ inbox = <<>>
      /\ result = [m \in Messages |-> "new"] /\ handled = [m \in Messages |-> 0]
  BY DEF Init
<1>2. QueueOK
  BY <1>1 DEF QueueOK, Places
<1>3. Owned
  BY <1>1 DEF Owned, Hands, Holding
<1>4. Once
  BY <1>1 DEF Once
<1> QED BY <1>2, <1>3, <1>4 DEF HandledInv

(* What HandledOnce rests on holds throughout.                             *)
LEMMA HandledInvariant == Spec => []HandledInv
<1>1. Init => HandledInv
  BY HandledInit
<1>2. HandledInv /\ [Next]_vars => HandledInv'
  <2> SUFFICES ASSUME HandledInv, [Next]_vars PROVE HandledInv'
    OBVIOUS
  <2>1. CASE UNCHANGED vars
    <3>1. UNCHANGED <<pc, cur, result, handled, inbox>>
      BY <2>1 DEF vars
    <3> QED BY <3>1, MessagesKept DEF HandledInv, QueueOK
  <2> QED BY <2>1, HandledStep
<1> QED BY <1>1, <1>2, PTL DEF Spec

(* The transparent retry of an expired session executes nothing twice: the  *)
(* server takes each message at most once.                                  *)
THEOREM HandledCorrect == Spec => []HandledOnce
<1>1. HandledInv => HandledOnce
  BY DEF HandledInv, Once, HandledOnce
<1> QED BY <1>1, HandledInvariant, PTL

-----------------------------------------------------------------------------
(* Answers have a way.                                                     *)

Stream == [sid : Nat, req : Requests \cup {None}, at : {"connect", "open", "held", "drain"}]

ChannelsOK ==
  /\ sid \in Nat /\ streams \subseteq Stream
  /\ sse \in Seq(Requests \cup {None}) /\ toHandler \in Seq(Requests \cup {None})
  /\ out \in Requests \cup {None}
  /\ pc = "renotice" => pending.sid \in Nat

(* Nothing was sent before the handshake, the worker holds a message for    *)
(* the handler only where it sends one, and it stops only for the handler.  *)
Phases ==
  /\ pc \in {"init", "notice"} => \A r \in Requests : result[r] # "ok"
  /\ pc \notin {"deliver", "forward"} => out = None
  /\ pc = "deliver" /\ cur \in Requests => out = cur
  /\ pc = "cleanup" => owner # "up"

(* Where the answer of r can be, or why there is none                      *)
Way(r) ==
  \/ r \in heard \cup cut \/ out = r
  \/ \E s \in aborted : s.req = r
  \/ \E s \in streams : s.req = r /\ s.at \in {"open", "held"}
  \/ \E i \in DOMAIN sse : sse[i] = r
  \/ \E i \in DOMAIN toHandler : toHandler[i] = r

Ways == owner = "up" => \A r \in Requests : result[r] = "ok" => Way(r)

AnswersInv == ChannelsOK /\ Phases /\ Ways

(* A step that leaves the channels and the streams alone, or only adds     *)
(* streams, keeps every way open.                                          *)
LEMMA WayStays ==
  ASSUME NEW r, Way(r), UNCHANGED <<out, sse, toHandler>>, streams \subseteq streams',
         aborted \subseteq aborted', heard \subseteq heard', cut \subseteq cut'
  PROVE  Way(r)'
BY DEF Way

(* A step that neither ends a phase of the worker nor sends anything       *)
LEMMA AnswersKept ==
  ASSUME AnswersInv, UNCHANGED <<sid, out, sse, toHandler, streams, aborted, heard>>,
         cut \subseteq cut', owner' = "up" => owner = "up",
         \A r \in Requests : result'[r] = "ok" => result[r] = "ok",
         pc' \in {"init", "notice"} => pc' = pc,
         pc \notin {"deliver", "forward"} \/ pc' = pc,
         pc' = "deliver" => pc = "deliver" /\ cur' = cur,
         pc' = "cleanup" => owner' # "up",
         pc' = "renotice" => pc = "renotice" /\ pending' = pending
  PROVE  AnswersInv'
<1> USE DEF AnswersInv
<1>1. ChannelsOK'
  BY DEF ChannelsOK
<1>2. Phases'
  BY DEF Phases
<1>3. Ways'
  BY WayStays DEF Ways
<1> QED BY <1>1, <1>2, <1>3

(* run returns: before anything was sent, or without a handler             *)
LEMMA AnswersReturn ==
  ASSUME AnswersInv, HandledInv, Returns, sid' = sid, toHandler' = toHandler, owner' = owner,
         owner = "up" => pc \in {"init", "notice"}
  PROVE  AnswersInv'
<1>1. pc' = "done" /\ streams' = {} /\ sse' = <<>> /\ out' = None
  BY DEF Returns
<1>2. sse' \in Seq(Requests \cup {None})
  BY <1>1
<1>3. ChannelsOK'
  BY <1>1, <1>2 DEF AnswersInv, ChannelsOK
<1>4. Phases'
  BY <1>1 DEF Phases
<1>5. \A r \in Requests : result'[r] = "ok" => result[r] = "ok"
  BY DEF Returns, Messages
<1>6. Ways'
  BY <1>5 DEF AnswersInv, Phases, Ways
<1> QED BY <1>3, <1>4, <1>6 DEF AnswersInv

(* The common stream of session s, connecting                              *)
LEMMA CommonStream ==
  ASSUME NEW s \in Nat
  PROVE  Common(s) \subseteq Stream
BY DEF Common, Stream

(* The handshake sends no message of the handler.                          *)
LEMMA HandshakeAnswers ==
  ASSUME HandledInv, AnswersInv, PostInitialize \/ PostInitialized
  PROVE  AnswersInv'
<1>1. /\ pc \in {"init", "notice"} /\ UNCHANGED <<aborted, toHandler, heard, owner, cut>>
      /\ \A r \in Requests : result[r] # "ok"
  BY DEF PostInitialize, PostInitialized, ReturnsEarly, handler, AnswersInv, Phases
<1>2. CASE Returns /\ sid' = sid
  BY <1>1, <1>2, AnswersReturn
<1>3. CASE /\ pc' \in {"notice", "loop"} /\ sid' \in Nat /\ streams' \subseteq Stream
           /\ UNCHANGED <<result, sse, out>>
  <2>1. ChannelsOK'
    BY <1>1, <1>3 DEF AnswersInv, ChannelsOK
  <2>2. Phases' /\ Ways'
    BY <1>1, <1>3 DEF AnswersInv, Phases, Ways
  <2> QED BY <2>1, <2>2 DEF AnswersInv
<1>4. CASE PostInitialize
  <2>1. CASE \E s \in 0 .. MaxSessions : pc' = "notice" /\ sid' = s /\ UNCHANGED <<result, sse, out, streams>>
    BY <1>3, <2>1, HttpClientAssumption DEF AnswersInv, ChannelsOK
  <2> QED BY <1>2, <1>4, <2>1 DEF PostInitialize
<1>5. CASE PostInitialized
  <2>1. sid \in Nat
    BY DEF AnswersInv, ChannelsOK
  <2>2. Common(sid) \subseteq Stream
    BY <2>1, CommonStream
  <2> QED BY <1>2, <1>3, <1>5, <2>1, <2>2 DEF PostInitialized, ReturnsEarly
<1> QED BY <1>4, <1>5

(* What the reply to the message in hand says of its answer                *)
LEMMA ReplyAnswers ==
  ASSUME NEW reply, Reply(cur, sid, reply)
  PROVE  /\ cut \subseteq cut'
         /\ Post(reply, cur, sid) = "Sse" => cur \in Requests
         /\ Post(reply, cur, sid) = "Accepted" /\ cur \in Requests => cur \in cut'
<1>1. /\ Post(reply, cur, sid) = "Sse" => reply = "sse"
      /\ Post(reply, cur, sid) = "Accepted" /\ cur \in Requests => reply \in {"202", "unreadable"}
  BY DEF Post, post_message, unix_post_message
<1>2. reply = "sse" => reply \in Replies(cur, sid)
  BY DEF Reply, FaultyReplies
<1>3. reply = "sse" => cur \in Requests
  BY <1>2 DEF Replies
<1>4. reply = "202" => cur \notin Requests
  BY DEF Reply, Replies, FaultyReplies
<1>5. cut \subseteq cut' /\ (reply = "unreadable" => cur \in cut')
  BY DEF Reply
<1> QED BY <1>1, <1>3, <1>4, <1>5

(* The message in hand is concluded, and its answer has a way if it was sent *)
LEMMA ConcludesAnswers ==
  ASSUME HandledInv, AnswersInv, pc \in Holding, NEW v, Concludes(v),
         ChannelsOK', out' = None,
         owner' = "up" => owner = "up",
         \A r \in Requests : Way(r) => Way(r)',
         \A r \in Requests : r = cur /\ v = "ok" => Way(r)'
  PROVE  AnswersInv'
<1>1. pc' = "loop" /\ result' = [result EXCEPT ![cur] = v]
  BY DEF Concludes
<1>2. \A r \in Requests : /\ r # cur => result'[r] = result[r]
                          /\ r = cur => result'[r] = v
  BY <1>1 DEF HandledInv, QueueOK, Messages
<1>3. Phases'
  BY <1>1 DEF Phases
<1>4. Ways'
  BY <1>2 DEF AnswersInv, Ways
<1> QED BY <1>3, <1>4 DEF AnswersInv

(* What comes back from a POST has its way to the handler                  *)
LEMMA OutcomeAnswers ==
  ASSUME HandledInv, AnswersInv, pc \in Hands, cut \subseteq cut',
         NEW r, Outcome(r), r = "Sse" => cur \in Requests,
         r \in {"Json", "Sse", "Accepted", "Error"},
         r = "Accepted" /\ cur \in Requests => cur \in cut'
  PROVE  AnswersInv'
<1>1. UNCHANGED <<sid, aborted, sse, pending, toHandler, heard, owner>>
  BY DEF Outcome, handler
<1>2. out = None
  BY DEF AnswersInv, Phases, Hands
<1>3. CASE r = "Json"
  <2>1. /\ pc' = "deliver" /\ UNCHANGED <<cur, result, streams>>
        /\ out' = IF cur \in Requests THEN cur ELSE None
    BY <1>3 DEF Outcome
  <2>2. ChannelsOK'
    BY <1>1, <2>1 DEF AnswersInv, ChannelsOK
  <2>3. Phases'
    BY <2>1 DEF Phases
  <2>4. ASSUME NEW q \in Requests, Way(q) PROVE Way(q)'
    BY <1>1, <1>2, <2>1, <2>4, HttpClientAssumption DEF Way
  <2>5. Ways'
    BY <1>1, <2>1, <2>4 DEF AnswersInv, Ways
  <2> QED BY <2>2, <2>3, <2>5 DEF AnswersInv
<1>4. CASE r # "Json"
  <2> DEFINE new == [sid |-> sid, req |-> cur, at |-> "open"]
             v == IF r = "Error" THEN "failed" ELSE "ok"
  <2>1. Concludes(v) /\ out' = out
    BY <1>4 DEF Outcome
  <2>2. r = "Sse" => new \in Stream /\ new.req = cur /\ new.at = "open"
    BY DEF Stream, AnswersInv, ChannelsOK
  <2>3. streams' = IF r = "Sse" THEN streams \cup {new} ELSE streams
    BY DEF Outcome
  <2>4. v = "ok" => r \in {"Sse", "Accepted"}
    BY <1>4
  <2> HIDE DEF new, v
  <2>5. pc' = "loop"
    BY <2>1 DEF Concludes
  <2>6. ChannelsOK'
    BY <1>1, <2>1, <2>2, <2>3, <2>5 DEF AnswersInv, ChannelsOK
  <2>7. \A q \in Requests : Way(q) => Way(q)'
    BY <1>1, <2>1, <2>3, WayStays
  <2>8. \A q \in Requests : q = cur /\ v = "ok" => Way(q)'
    BY <2>2, <2>3, <2>4 DEF Way
  <2>9. pc \in Holding
    BY DEF Holding
  <2> QED BY <1>1, <1>2, <2>1, <2>6, <2>7, <2>8, <2>9, ConcludesAnswers
<1> QED BY <1>3, <1>4

(* A message is posted: its answer is there, comes on a stream of its own, *)
(* or never comes.                                                         *)
LEMMA PostAnswers ==
  ASSUME HandledInv, AnswersInv, PostMessage \/ Repost
  PROVE  AnswersInv'
<1>1. pc \in {"post", "repost"}
  BY DEF PostMessage, Repost
<1>2. PICK reply : /\ Reply(cur, sid, reply)
                   /\ \/ pc' = "reinit" /\ UNCHANGED <<cur, result, handler, client>>
                      \/ Outcome(Failure(Post(reply, cur, sid)))
  BY DEF PostMessage, Repost
<1> DEFINE r == Post(reply, cur, sid)
<1>3. /\ cut \subseteq cut' /\ (r = "Sse" => cur \in Requests)
      /\ r = "Accepted" /\ cur \in Requests => cur \in cut'
  BY <1>2, ReplyAnswers
<1>4. r \in {"Json", "Sse", "Accepted", "Error", "SessionExpired"}
  BY DEF Post, post_message, unix_post_message
<1>5. Failure(r) \in {"Json", "Sse", "Accepted", "Error"}
  BY <1>4 DEF Failure
<1> HIDE DEF r
<1>6. CASE pc' = "reinit" /\ UNCHANGED <<cur, result, handler, client>>
  <2>1. UNCHANGED <<sid, out, sse, toHandler, streams, aborted, heard, owner, result>>
    BY <1>6 DEF handler, client
  <2> QED BY <1>1, <1>3, <1>6, <2>1, AnswersKept
<1>7. CASE Outcome(Failure(r))
  <2>1. /\ Failure(r) = "Sse" => cur \in Requests
        /\ Failure(r) = "Accepted" /\ cur \in Requests => cur \in cut'
    BY <1>3, <1>4 DEF Failure
  <2>2. pc \in Hands
    BY <1>1 DEF Hands
  <2> QED BY <1>3, <1>5, <1>7, <2>1, <2>2, OutcomeAnswers
<1> QED BY <1>2, <1>6, <1>7 DEF r

(* Re-initialising aborts the streams of the old session                   *)
LEMMA ReinitAnswers ==
  ASSUME HandledInv, AnswersInv, Reinitialize \/ Reinitialized
  PROVE  AnswersInv'
<1>1. CASE Reinitialize
  <2>1. pc = "reinit" /\ cut' = cut
    BY <1>1 DEF Reinitialize
  <2>2. CASE \E s \in 0 .. MaxSessions, v \in ProtocolVersions :
               /\ pending' = [sid |-> s, ver |-> v] /\ pc' = "renotice"
               /\ UNCHANGED <<sid, streams, aborted, sse, out, result, handler>>
    <3>1. pending'.sid \in Nat /\ pc' = "renotice"
      BY <2>2, HttpClientAssumption
    <3>2. UNCHANGED <<sid, streams, aborted, sse, out, result, toHandler, heard, owner>>
      BY <2>2 DEF handler
    <3>3. ChannelsOK'
      BY <3>1, <3>2 DEF AnswersInv, ChannelsOK
    <3>4. Phases'
      BY <2>1, <3>1, <3>2 DEF AnswersInv, Phases
    <3>5. Ways'
      BY <2>1, <3>2, WayStays DEF AnswersInv, Ways
    <3> QED BY <3>3, <3>4, <3>5 DEF AnswersInv
  <2>3. CASE Outcome("Error")
    BY <2>1, <2>3, OutcomeAnswers DEF Hands
  <2> QED BY <1>1, <2>2, <2>3 DEF Reinitialize
<1>2. CASE Reinitialized
  <2>1. pc = "renotice" /\ UNCHANGED <<cut, sse, out, toHandler, heard, owner>>
    BY <1>2 DEF Reinitialized, handler
  <2>2. pending.sid \in Nat /\ out = None
    BY <2>1 DEF AnswersInv, ChannelsOK, Phases
  <2>3. CASE AdoptSession /\ pc' = "repost" /\ result' = result
    <3>1. sid' = pending.sid /\ streams' = Common(pending.sid) /\ aborted' = aborted \cup streams
      BY <2>3 DEF AdoptSession
    <3>2. streams' \subseteq Stream
      BY <2>2, <3>1, CommonStream
    <3>3. ChannelsOK'
      BY <2>1, <2>2, <2>3, <3>1, <3>2 DEF AnswersInv, ChannelsOK
    <3>4. Phases'
      BY <2>1, <2>2, <2>3 DEF AnswersInv, Phases
    <3>5. \A r \in Requests : Way(r) => Way(r)'
      BY <2>1, <3>1 DEF Way
    <3>6. Ways'
      BY <2>1, <2>3, <3>5 DEF AnswersInv, Ways
    <3> QED BY <3>3, <3>4, <3>6 DEF AnswersInv
  <2>4. CASE Concludes("failed") /\ UNCHANGED <<sid, streams, aborted>>
    <3>1. \A r \in Requests : Way(r) => Way(r)'
      BY <2>1, <2>4, WayStays
    <3>2. pc' = "loop"
      BY <2>4 DEF Concludes
    <3>3. ChannelsOK'
      BY <2>1, <2>4, <3>2 DEF AnswersInv, ChannelsOK
    <3>4. pc \in Holding
      BY <2>1 DEF Holding, Hands
    <3> QED BY <2>1, <2>2, <2>4, <3>1, <3>3, <3>4, ConcludesAnswers
  <2> QED BY <1>2, <2>3, <2>4 DEF Reinitialized
<1> QED BY <1>1, <1>2

(* What a channel holds stays in it when something is added to it          *)
LEMMA Added ==
  ASSUME NEW S, NEW q \in Seq(S), NEW x \in S
  PROVE  /\ Append(q, x) \in Seq(S) /\ Len(q) + 1 \in DOMAIN Append(q, x)
         /\ Append(q, x)[Len(q) + 1] = x
         /\ \A i \in DOMAIN q : i \in DOMAIN Append(q, x) /\ Append(q, x)[i] = q[i]
OBVIOUS

(* What a channel holds comes out first, or stays in it                    *)
LEMMA Removed ==
  ASSUME NEW S, NEW q \in Seq(S), q # <<>>
  PROVE  /\ Tail(q) \in Seq(S) /\ Head(q) \in S /\ q[1] = Head(q)
         /\ \A i \in DOMAIN q : i # 1 => i - 1 \in DOMAIN Tail(q) /\ Tail(q)[i - 1] = q[i]
OBVIOUS

(* send_to_handler puts what the worker holds into the handler's channel    *)
LEMMA SentToHandler ==
  ASSUME AnswersInv, SendToHandler, sse' = sse, streams' = streams, aborted' = aborted,
         heard' = heard, cut' = cut
  PROVE  /\ toHandler' \in Seq(Requests \cup {None})
         /\ \A r \in Requests : Way(r) => Way(r)'
         /\ \A r : r = out => Way(r)'
<1>1. /\ toHandler \in Seq(Requests \cup {None}) /\ out \in Requests \cup {None}
      /\ toHandler' = Append(toHandler, out)
  BY DEF AnswersInv, ChannelsOK, SendToHandler
<1>2. /\ toHandler' \in Seq(Requests \cup {None})
      /\ Len(toHandler) + 1 \in DOMAIN toHandler' /\ toHandler'[Len(toHandler) + 1] = out
      /\ \A i \in DOMAIN toHandler : i \in DOMAIN toHandler' /\ toHandler'[i] = toHandler[i]
  BY <1>1, Added
<1>3. \A r : r = out => Way(r)'
  BY <1>2 DEF Way
<1>4. ASSUME NEW r \in Requests, Way(r) PROVE Way(r)'
  BY <1>2, <1>4 DEF Way
<1> QED BY <1>2, <1>3, <1>4

(* A JSON answer is delivered before its responder is told                 *)
LEMMA DeliverAnswers ==
  ASSUME HandledInv, AnswersInv, Deliver
  PROVE  AnswersInv'
<1>1. pc = "deliver" /\ cut' = cut
  BY DEF Deliver
<1>2. CASE owner = "gone" /\ ReturnsEarly
  BY <1>2, AnswersReturn DEF ReturnsEarly, handler
<1>3. CASE /\ SendToHandler /\ Concludes("ok") /\ out' = None
           /\ UNCHANGED <<sid, header, pending, streams, aborted, sse, inbox, heard, owner>>
  <2>1. /\ toHandler' \in Seq(Requests \cup {None})
        /\ \A r \in Requests : Way(r) => Way(r)'
        /\ \A r : r = out => Way(r)'
    BY <1>1, <1>3, SentToHandler
  <2>2. \A r \in Requests : r = cur => Way(r)'
    BY <1>1, <2>1 DEF AnswersInv, Phases
  <2>3. pc' = "loop"
    BY <1>3 DEF Concludes
  <2>4. ChannelsOK'
    BY <1>3, <2>1, <2>3 DEF AnswersInv, ChannelsOK
  <2>5. pc \in Holding
    BY <1>1 DEF Holding
  <2> QED BY <1>3, <2>1, <2>2, <2>4, <2>5, ConcludesAnswers
<1> QED BY <1>2, <1>3 DEF Deliver

(* A message leaves the channel of the streams for the handler's           *)
LEMMA MessageAnswers ==
  ASSUME AnswersInv, ServerMessage \/ Forward
  PROVE  AnswersInv'
<1>1. UNCHANGED <<sid, streams, aborted, result, heard, owner, cut>>
  BY DEF ServerMessage, Forward, handler
<1>2. CASE ServerMessage
  <2>1. /\ pc = "loop" /\ pc' = "forward" /\ sse # <<>> /\ toHandler' = toHandler
        /\ out' = Head(sse) /\ sse' = Tail(sse) /\ sse \in Seq(Requests \cup {None}) /\ out = None
    BY <1>2 DEF ServerMessage, handler, AnswersInv, ChannelsOK, Phases
  <2>2. /\ sse' \in Seq(Requests \cup {None}) /\ out' \in Requests \cup {None} /\ sse[1] = out'
        /\ \A i \in DOMAIN sse : i # 1 => i - 1 \in DOMAIN sse' /\ sse'[i - 1] = sse[i]
    BY <2>1, Removed
  <2>3. ASSUME NEW r \in Requests, Way(r) PROVE Way(r)'
    <3>1. CASE \E i \in DOMAIN sse : sse[i] = r
      BY <2>2, <3>1 DEF Way
    <3>2. CASE ~(\E i \in DOMAIN sse : sse[i] = r)
      BY <1>1, <2>1, <2>3, <3>2, HttpClientAssumption DEF Way
    <3> QED BY <3>1, <3>2
  <2>4. ChannelsOK'
    BY <1>1, <2>1, <2>2 DEF AnswersInv, ChannelsOK
  <2>5. Phases'
    BY <2>1 DEF Phases
  <2>6. Ways'
    BY <1>1, <2>3 DEF AnswersInv, Ways
  <2> QED BY <2>4, <2>5, <2>6 DEF AnswersInv
<1>3. CASE Forward
  <2>1. pc = "forward" /\ out' = None /\ sse' = sse
    BY <1>3 DEF Forward
  <2>2. CASE owner = "gone" /\ pc' = "cleanup" /\ toHandler' = toHandler
    <3>1. ChannelsOK'
      BY <1>1, <2>1, <2>2 DEF AnswersInv, ChannelsOK
    <3>2. Phases' /\ Ways'
      BY <1>1, <2>1, <2>2 DEF Phases, Ways
    <3> QED BY <3>1, <3>2 DEF AnswersInv
  <2>3. CASE pc' = "loop" /\ SendToHandler
    <3>1. /\ toHandler' \in Seq(Requests \cup {None})
          /\ \A r \in Requests : Way(r) => Way(r)'
      BY <1>1, <2>1, <2>3, SentToHandler
    <3>2. ChannelsOK'
      BY <1>1, <2>1, <2>3, <3>1 DEF AnswersInv, ChannelsOK
    <3>3. Phases' /\ Ways'
      BY <1>1, <2>1, <2>3, <3>1 DEF AnswersInv, Phases, Ways
    <3> QED BY <3>2, <3>3 DEF AnswersInv
  <2> QED BY <1>3, <2>2, <2>3 DEF Forward
<1> QED BY <1>2, <1>3

(* A step of a stream: everything else is left alone                       *)
LEMMA StreamAnswers ==
  ASSUME AnswersInv, ChannelsOK', UNCHANGED <<pc, cur, out, result, owner>>,
         owner = "up" => \A r \in Requests : Way(r) => Way(r)'
  PROVE  AnswersInv'
BY DEF AnswersInv, Phases, Ways

(* A stream that connects carries no answer yet.                           *)
LEMMA ConnectAnswers ==
  ASSUME AnswersInv, NEW s \in streams, Connect(s)
  PROVE  AnswersInv'
<1>1. /\ s.at = "connect" /\ s \in Stream
      /\ UNCHANGED <<pc, cur, sid, aborted, out, toHandler, owner, result, heard, sse, cut, pending>>
  BY DEF Connect, AnswersInv, ChannelsOK, handler
<1>2. PICK reply : streams' = (streams \ {s}) \cup {t \in {[s EXCEPT !.at = Get(reply)]} : t.at = "open"}
  BY DEF Connect
<1>3. streams' \subseteq Stream
  BY <1>1, <1>2 DEF Stream, AnswersInv, ChannelsOK
<1>4. ChannelsOK'
  BY <1>1, <1>3 DEF AnswersInv, ChannelsOK
<1>5. ASSUME NEW r \in Requests, Way(r) PROVE Way(r)'
  BY <1>1, <1>2, <1>5 DEF Way
<1> QED BY <1>1, <1>4, <1>5, StreamAnswers

(* An event that a stream passes on is in the channel of the worker.       *)
LEMMA PassAnswers ==
  ASSUME AnswersInv, NEW s \in streams, Pass(s),
         UNCHANGED <<pc, cur, sid, aborted, out, toHandler, owner, result, heard, cut, pending>>
  PROVE  AnswersInv'
<1> DEFINE d == [s EXCEPT !.at = IF s.req = None THEN "open" ELSE "drain"]
<1>1. s \in Stream /\ sse \in Seq(Requests \cup {None}) /\ s.req \in Requests \cup {None}
  BY DEF AnswersInv, ChannelsOK, Stream
<1>2. sse' = Append(sse, s.req) /\ streams' = (streams \ {s}) \cup {d}
  BY DEF Pass
<1>3. d \in Stream
  BY <1>1 DEF Stream
<1> HIDE DEF d
<1>4. /\ sse' \in Seq(Requests \cup {None}) /\ Len(sse) + 1 \in DOMAIN sse'
      /\ sse'[Len(sse) + 1] = s.req
      /\ \A i \in DOMAIN sse : i \in DOMAIN sse' /\ sse'[i] = sse[i]
  BY <1>1, <1>2, Added
<1>5. ChannelsOK'
  BY <1>2, <1>3, <1>4 DEF AnswersInv, ChannelsOK
<1>6. ASSUME NEW r \in Requests, Way(r) PROVE Way(r)'
  <2>1. CASE r = s.req
    BY <1>4, <2>1 DEF Way
  <2>2. CASE r # s.req
    BY <1>2, <1>4, <1>6, <2>2 DEF Way
  <2> QED BY <2>1, <2>2
<1> QED BY <1>5, <1>6, StreamAnswers

(* An event arrives: it is passed on, or held until there is room.         *)
LEMMA EventAnswers ==
  ASSUME AnswersInv, NEW s \in streams, StreamEvent(s) \/ StreamPasses(s)
  PROVE  AnswersInv'
<1>1. UNCHANGED <<pc, cur, sid, aborted, out, toHandler, owner, result, heard, cut, pending>>
  BY DEF StreamEvent, StreamPasses, handler
<1>2. CASE Pass(s)
  BY <1>1, <1>2, PassAnswers
<1>3. CASE sse' = sse /\ streams' = (streams \ {s}) \cup {[s EXCEPT !.at = "held"]}
  <2> DEFINE h == [s EXCEPT !.at = "held"]
  <2>1. h \in Stream /\ h.req = s.req /\ h.at = "held"
    BY DEF AnswersInv, ChannelsOK, Stream
  <2>2. streams' = (streams \ {s}) \cup {h}
    BY <1>3
  <2> HIDE DEF h
  <2>3. ChannelsOK'
    BY <1>1, <1>3, <2>1, <2>2 DEF AnswersInv, ChannelsOK
  <2>4. ASSUME NEW r \in Requests, Way(r) PROVE Way(r)'
    BY <1>1, <1>3, <2>1, <2>2, <2>4 DEF Way
  <2> QED BY <1>1, <2>3, <2>4, StreamAnswers
<1> QED BY <1>2, <1>3 DEF StreamEvent, StreamPasses

(* A stream ends: it has delivered, the token is cancelled, or it is cut.  *)
LEMMA EndAnswers ==
  ASSUME AnswersInv, NEW s \in streams, StreamEnds(s)
  PROVE  AnswersInv'
<1>1. /\ streams' = streams \ {s} /\ cut \subseteq cut'
      /\ UNCHANGED <<pc, cur, sid, aborted, out, toHandler, owner, result, heard, sse, pending>>
  BY DEF StreamEnds, handler
<1>2. ChannelsOK'
  BY <1>1 DEF AnswersInv, ChannelsOK
<1>3. ASSUME NEW r \in Requests, Way(r), owner = "up" PROVE Way(r)'
  <2>1. s.req = r => s.at \notin {"open", "held"} \/ r \in cut'
    BY <1>3 DEF StreamEnds
  <2> QED BY <1>1, <1>3, <2>1 DEF Way
<1> QED BY <1>1, <1>2, <1>3, StreamAnswers

(* The service loop takes what is in its channel                           *)
LEMMA ReceiveAnswers ==
  ASSUME AnswersInv, HandlerReceives
  PROVE  AnswersInv'
<1>1. /\ UNCHANGED <<pc, cur, sid, aborted, streams, out, owner, result, sse, cut, pending>>
      /\ toHandler \in Seq(Requests \cup {None}) /\ toHandler # <<>> /\ toHandler' = Tail(toHandler)
      /\ heard' = heard \cup ({Head(toHandler)} \cap Requests)
  BY DEF HandlerReceives, client, AnswersInv, ChannelsOK
<1>2. /\ toHandler' \in Seq(Requests \cup {None}) /\ toHandler[1] = Head(toHandler)
      /\ \A i \in DOMAIN toHandler : i # 1 => i - 1 \in DOMAIN toHandler' /\ toHandler'[i - 1] = toHandler[i]
  BY <1>1, Removed
<1>3. ChannelsOK'
  BY <1>1, <1>2 DEF AnswersInv, ChannelsOK
<1>4. ASSUME NEW r \in Requests, Way(r) PROVE Way(r)'
  <2>1. CASE \E i \in DOMAIN toHandler : toHandler[i] = r
    BY <1>1, <1>2, <2>1 DEF Way
  <2>2. CASE ~(\E i \in DOMAIN toHandler : toHandler[i] = r)
    BY <1>1, <1>4, <2>2 DEF Way
  <2> QED BY <2>1, <2>2
<1> QED BY <1>1, <1>3, <1>4, StreamAnswers

(* The handler closes or drops the transport                               *)
LEMMA CloseAnswers ==
  ASSUME AnswersInv, NEW how \in {"closing", "gone"}, HandlerCloses(how)
  PROVE  AnswersInv'
<1>1. /\ UNCHANGED <<pc, cur, sid, streams, out, result, sse, pending>> /\ owner' # "up"
      /\ toHandler' = <<>> \/ toHandler' = toHandler
  BY DEF HandlerCloses, client
<1>2. toHandler' \in Seq(Requests \cup {None})
  <2>1. <<>> \in Seq(Requests \cup {None})
    OBVIOUS
  <2> QED BY <1>1, <2>1 DEF AnswersInv, ChannelsOK
<1>3. ChannelsOK'
  BY <1>1, <1>2 DEF AnswersInv, ChannelsOK
<1>4. Phases' /\ Ways'
  BY <1>1 DEF AnswersInv, Phases, Ways
<1> QED BY <1>3, <1>4 DEF AnswersInv

(* Every step of the worker, its streams and the handler keeps a way open  *)
(* for each answer.                                                        *)
LEMMA AnswersStep ==
  ASSUME HandledInv, AnswersInv, Next
  PROVE  AnswersInv'
<1>1. CASE TakeMessage \/ Stopped
  <2>1. /\ UNCHANGED <<sid, out, sse, toHandler, streams, aborted, heard, owner, cut, result>>
        /\ pc = "loop" /\ pc' \in {"post", "cleanup"} /\ (pc' = "cleanup" => owner # "up")
    BY <1>1 DEF TakeMessage, Stopped, client, handler
  <2> QED BY <2>1, AnswersKept
<1>2. CASE PostInitialize \/ PostInitialized
  BY <1>2, HandshakeAnswers
<1>3. CASE PostMessage \/ Repost
  BY <1>3, PostAnswers
<1>4. CASE Reinitialize \/ Reinitialized
  BY <1>4, ReinitAnswers
<1>5. CASE ServerMessage \/ Forward
  BY <1>5, MessageAnswers
<1>6. CASE DeleteSession
  <2>1. Returns /\ sid' = sid /\ toHandler' = toHandler /\ owner' = owner /\ pc = "cleanup"
    BY <1>6 DEF DeleteSession, handler
  <2>2. owner # "up"
    BY <2>1 DEF AnswersInv, Phases
  <2> QED BY <2>1, <2>2, AnswersReturn
<1>7. ASSUME NEW s \in streams, Connect(s) \/ StreamEvent(s) \/ StreamPasses(s) \/ StreamEnds(s)
      PROVE  AnswersInv'
  BY <1>7, ConnectAnswers, EventAnswers, EndAnswers
<1>8. ASSUME NEW m \in Messages, HandlerSends(m) PROVE AnswersInv'
  <2>1. UNCHANGED <<pc, cur, sid, out, sse, toHandler, streams, aborted, heard, owner, cut, pending>>
    BY <1>8 DEF HandlerSends, handler
  <2>2. \A r \in Requests : result'[r] = "ok" => result[r] = "ok"
    BY <1>8 DEF HandlerSends, HandledInv, QueueOK, Messages
  <2>3. pc = "cleanup" => owner # "up"
    BY DEF AnswersInv, Phases
  <2> QED BY <2>1, <2>2, <2>3, AnswersKept
<1>9. ASSUME NEW how \in {"closing", "gone"}, HandlerCloses(how) PROVE AnswersInv'
  BY <1>9, CloseAnswers
<1>10. ASSUME NEW s \in Live, Forget(s) PROVE AnswersInv'
  <2>1. UNCHANGED <<pc, cur, sid, out, sse, toHandler, streams, aborted, heard, owner, cut, pending, result>>
    BY <1>10 DEF Forget, client, handler
  <2>2. pc = "cleanup" => owner # "up"
    BY DEF AnswersInv, Phases
  <2> QED BY <2>1, <2>2, AnswersKept
<1>11. CASE Deliver
  BY <1>11, DeliverAnswers
<1>12. CASE HandlerReceives
  BY <1>12, ReceiveAnswers
<1> QED BY <1>1, <1>2, <1>3, <1>4, <1>5, <1>6, <1>7, <1>8, <1>9, <1>10, <1>11, <1>12
        DEF Next, WorkerStep, LoopStep, StreamStep, HandlerStep

(* No message is on its way yet.                                           *)
LEMMA AnswersInit ==
  ASSUME Init
  PROVE  AnswersInv
<1>1. /\ pc = "init" /\ sid = 0 /\ streams = {} /\ sse = <<>> /\ toHandler = <<>> /\ out = None
      /\ result = [m \in Messages |-> "new"]
  BY DEF Init
<1>2. sse \in Seq(Requests \cup {None}) /\ toHandler \in Seq(Requests \cup {None})
  BY <1>1
<1>3. ChannelsOK
  BY <1>1, <1>2 DEF ChannelsOK
<1>4. \A r \in Requests : result[r] = "new"
  BY <1>1 DEF Messages
<1>5. Phases /\ Ways
  BY <1>1, <1>4 DEF Phases, Ways
<1> QED BY <1>3, <1>5 DEF AnswersInv

(* While the transport is up, a request whose sending succeeded is         *)
(* answered, or its answer is on a stream, in one of the two bounded       *)
(* channels or in the worker's hands, or it was cut off by the server or   *)
(* aborted by perform_reinitialization; whatever the capacities are.       *)
THEOREM AnswersCorrect == Spec => []AnswersHaveAWay
<1>1. Init => AnswersInv
  BY AnswersInit
<1>2. HandledInv /\ AnswersInv /\ [Next]_vars => AnswersInv'
  <2> SUFFICES ASSUME HandledInv, AnswersInv, [Next]_vars PROVE AnswersInv'
    OBVIOUS
  <2>1. CASE UNCHANGED vars
    <3>1. UNCHANGED <<pc, cur, sid, out, sse, toHandler, streams, aborted, heard, owner, cut, pending, result>>
      BY <2>1 DEF vars
    <3>2. pc = "cleanup" => owner # "up"
      BY DEF AnswersInv, Phases
    <3> QED BY <3>1, <3>2, AnswersKept
  <2> QED BY <2>1, AnswersStep
<1>3. AnswersInv => AnswersHaveAWay
  BY DEF AnswersInv, Ways, Way, AnswersHaveAWay
<1> QED BY <1>1, <1>2, <1>3, HandledInvariant, PTL DEF Spec
=============================================================================
