-------------------------------- MODULE Auth --------------------------------
(***************************************************************************)
(* OAuth in the MCP client: the state machine OAuthState, the              *)
(* AuthorizationManager inside it with its credential and state stores,    *)
(* and the requests that take an access token from the manager, one at a   *)
(* time through AuthClient or together through AuthorizedHttpClient.       *)
(* OAuthState takes the callback of the browser in one exclusive call; an  *)
(* AuthorizationSession takes it by &self, several at a time.              *)
(*                                                                         *)
(* The authorization server is an environment that rotates refresh tokens: *)
(* a refresh invalidates the token it used.  Token n stands for the access *)
(* and refresh token of one response.  The credential store survives a     *)
(* restart of the program; the manager does not.                           *)
(***************************************************************************)
EXTENDS Integers, FiniteSets, Sequences

CONSTANTS
  Scopes, Tasks,
  MaxAttempts,  \* ScopeUpgradeConfig::max_upgrade_attempts, 0 without auto_upgrade
  MaxFlows,     \* bound: authorization urls handed out
  MaxTokens,    \* bound: token responses
  AuthFaults,   \* bound: failing discoveries, exchanges, refreshes, restarts
  Advertised,   \* what servers say of themselves: [issuer, required]; issuer "none" or "server"
  Nothing

Credentials == [tok : Nat, granted : SUBSET Scopes, stale : BOOLEAN]

ASSUME AuthAssumption ==
  /\ MaxAttempts \in Nat /\ MaxFlows \in Nat /\ MaxTokens \in Nat /\ AuthFaults \in Nat
  /\ Nothing \notin Tasks /\ Nothing \notin Credentials

VARIABLES
  st,       \* OAuthState, or "Client" once an AuthClient owns the manager
  mgr,      \* [home, ready, scopes, attempts]; home: not the placeholder manager
  session,  \* the flow of the AuthorizationSession's url
  states,   \* state_store: flows whose verifier can be retrieved
  flows,    \* flow -> the scopes its authorization url asks for
  uses,     \* flow -> code exchanges attempted with it
  creds,    \* credential_store: [tok, granted, stale], or Nothing
  auth_server,   \* [last, live, scopes]: last token issued, live refresh token, its scopes
  callback, \* session callback -> [pc, flow, valid]: its flow, and whether its issuer will do
  task,     \* request -> [pc, tok]
  lock,     \* request that holds AuthClient's mutex
  lost,     \* an answer of the token endpoint was lost or not stored
  outcome,  \* what the last call of the application returned: "ok" or "failed"
  advertised,  \* metadata: the issuer, and whether callbacks name it
  auth_faults

authVars == <<st, mgr, session, states, flows, uses, creds, auth_server, callback, task, lock, lost, outcome,
              advertised, auth_faults>>

Fresh(home) == [home |-> home, ready |-> FALSE, scopes |-> {}, attempts |-> 0]
Idle == [pc |-> "idle", tok |-> 0]
NoCallback == [pc |-> "idle", flow |-> 0, valid |-> FALSE]

AuthInit ==
  /\ st = "Unauthorized" /\ mgr = Fresh(TRUE) /\ session = 0 /\ states = {}
  /\ flows = <<>> /\ uses = <<>> /\ creds = Nothing
  /\ auth_server = [last |-> 0, live |-> 0, scopes |-> {}]
  /\ callback = [t \in Tasks |-> NoCallback]
  /\ task = [t \in Tasks |-> Idle] /\ lock = Nothing
  /\ lost = FALSE /\ outcome = "ok" /\ auth_faults = 0
  /\ advertised \in Advertised

(* What the manager finds in its credential store: the placeholder's is new*)
Stored == IF mgr.home THEN creds ELSE Nothing

(* The application's calls take the state exclusively                      *)
Quiet == \A t \in Tasks : task[t].pc = "idle"
Exclusive == Quiet /\ \A t \in Tasks : callback[t] = NoCallback

AuthFault == auth_faults < AuthFaults /\ auth_faults' = auth_faults + 1
AuthReturns(r) == outcome' = r

(* The state is replaced by a manager for http://localhost before the call *)
(* knows whether it succeeds.                                              *)
Placeholder(s) ==
  /\ st' = s /\ mgr' = Fresh(FALSE) /\ states' = {} /\ session' = 0

----------------------------------------------------------------------------
(* Authorization urls and their one-time state.                            *)

(* get_authorization_url: a new flow, its state saved under its token      *)
NewFlow(wants) ==
  /\ Len(flows) < MaxFlows
  /\ flows' = Append(flows, wants)
  /\ uses' = Append(uses, 0)
  /\ session' = Len(flows) + 1
  /\ states' = states \cup {Len(flows) + 1}

(* start_authorization_with_metadata_url: discovery, registration, url     *)
StartAuthorization ==
  /\ Exclusive
  /\ \/ /\ st = "Unauthorized" /\ mgr.home
        /\ \E wants \in (SUBSET Scopes) \ {{}} : NewFlow(wants)
        /\ st' = "Session" /\ mgr' = [mgr EXCEPT !.ready = TRUE]
        /\ AuthReturns("ok") /\ UNCHANGED auth_faults
     \/ /\ st = "Unauthorized"
        /\ IF mgr.home THEN AuthFault ELSE UNCHANGED auth_faults
        /\ Placeholder("Unauthorized") /\ AuthReturns("failed") /\ UNCHANGED <<flows, uses>>
     \/ /\ st \in {"Session", "Authorized", "HttpClient"}
        /\ Placeholder("Unauthorized") /\ AuthReturns("failed")
        /\ UNCHANGED <<flows, uses, auth_faults>>
  /\ UNCHANGED <<creds, auth_server, callback, task, lock, lost>>

(* What a token response grants, and what the client makes of it: an       *)
(* absent scope field is read as no scopes.                                *)
Grant(wants, told) ==
  /\ auth_server.last < MaxTokens
  /\ auth_server' = [last |-> auth_server.last + 1, live |-> auth_server.last + 1, scopes |-> wants]
  /\ mgr' = [mgr EXCEPT !.scopes = IF told THEN wants ELSE {}, !.attempts = 0]
Saved(tok, granted) == [tok |-> tok, granted |-> granted, stale |-> FALSE]

(* Mutant of ExchangeState: the state goes only once the exchange worked.  *)
ExchangeStateLate(f, ok) == states' = IF ok THEN states \ {f} ELSE states

(* The state of the flow is deleted before anything else is done with it    *)
ExchangeState(f, ok) == states' = states \ {f}

(* from_redirect_url: the flow of the callback, 0 for a url without code   *)
(* or state, and the issuer it names.                                      *)
Callbacks == (0 .. Len(flows)) \X {"none", "server", "other"}

validate_authorization_response_issuer(received) ==
  IF advertised.issuer = "none" \/ received = "none"
    THEN received = "none" /\ ~advertised.required
    ELSE received = advertised.issuer

(* The rest of exchange_code_for_token_with_issuer, once the code is sent  *)
Exchanged(f) ==
  \E told \in BOOLEAN :
    /\ Grant(flows[f], told) /\ creds' = Saved(auth_server.last + 1, mgr'.scopes)
    /\ lost' = FALSE /\ UNCHANGED auth_faults
NotExchanged == AuthFault /\ UNCHANGED <<auth_server, mgr, creds, lost>>

(* OAuthState::handle_callback_with_issuer, with the session's and with    *)
(* complete_authorization, in one exclusive call: the browser may come     *)
(* back with any url that was handed out, more than once.  A callback that *)
(* names another issuer costs the flow its state and exchanges nothing.    *)
HandleCallback(f, issuer) ==
  /\ Exclusive /\ st # "Client"
  /\ \/ /\ st = "Session" /\ f \in states /\ validate_authorization_response_issuer(issuer)
        /\ uses' = [uses EXCEPT ![f] = @ + 1]
        /\ \/ Exchanged(f) /\ ExchangeState(f, TRUE) /\ st' = "Authorized" /\ AuthReturns("ok")
           \/ NotExchanged /\ ExchangeState(f, FALSE) /\ AuthReturns("failed") /\ UNCHANGED st
     \/ /\ st = "Session" /\ f \in states /\ ~validate_authorization_response_issuer(issuer)
        /\ ExchangeState(f, FALSE) /\ AuthReturns("failed")
        /\ UNCHANGED <<st, mgr, uses, creds, auth_server, lost, auth_faults>>
     \/ /\ st = "Session" => f \notin states
        /\ AuthReturns("failed")
        /\ UNCHANGED <<st, mgr, states, uses, creds, auth_server, lost, auth_faults>>
  /\ UNCHANGED <<session, flows, callback, task, lock>>

(* AuthorizationSession::handle_callback_with_issuer by &self: the state   *)
(* is loaded,                                                              *)
SessionCallback(t, f, issuer) ==
  /\ st = "Session" /\ callback[t] = NoCallback /\ f \in states
  /\ callback' = [callback EXCEPT ![t] =
       [pc |-> "loaded", flow |-> f, valid |-> validate_authorization_response_issuer(issuer)]]
  /\ UNCHANGED <<st, mgr, session, states, flows, uses, creds, auth_server, task, lock, lost, outcome, auth_faults>>

(* then deleted, whoever else has loaded it, and the issuer looked at,     *)
SessionDeletes(t) ==
  /\ callback[t].pc = "loaded" /\ ExchangeState(callback[t].flow, FALSE)
  /\ \/ /\ callback[t].valid /\ callback' = [callback EXCEPT ![t].pc = "sent"]
        /\ uses' = [uses EXCEPT ![callback[t].flow] = @ + 1]
     \/ /\ ~callback[t].valid /\ callback' = [callback EXCEPT ![t] = NoCallback] /\ UNCHANGED uses
  /\ UNCHANGED <<st, mgr, session, flows, creds, auth_server, task, lock, lost, outcome, auth_faults>>

(* then the code is exchanged.                                             *)
SessionExchanges(t) ==
  /\ callback[t].pc = "sent" /\ (Exchanged(callback[t].flow) \/ NotExchanged)
  /\ callback' = [callback EXCEPT ![t] = NoCallback]
  /\ UNCHANGED <<st, session, states, flows, uses, task, lock, outcome>>

(* complete_authorization called by the application                        *)
CompleteAuthorization ==
  /\ Exclusive
  /\ \/ /\ st = "Session" /\ st' = "Authorized" /\ AuthReturns("ok")
        /\ UNCHANGED <<mgr, states, session>>
     \/ /\ st \in {"Unauthorized", "Authorized", "HttpClient"}
        /\ Placeholder("Unauthorized") /\ AuthReturns("failed")
  /\ UNCHANGED <<flows, uses, creds, auth_server, callback, task, lock, lost, auth_faults>>

(* An upgrade asks for the scopes held and for those needed                *)
compute_scope_union(current, required) == current \cup required

(* AuthorizationManager::request_scope_upgrade: an attempt is counted      *)
(* before the url is asked for, which fails in a manager without a client. *)
UpgradeAllowed == mgr.attempts < MaxAttempts
UpgradeAttempt(required) ==
  /\ UpgradeAllowed /\ mgr' = [mgr EXCEPT !.attempts = @ + 1]
  /\ mgr.ready /\ NewFlow(compute_scope_union(mgr.scopes, required))
UpgradeFails ==
  /\ ~(UpgradeAllowed /\ mgr.ready)
  /\ mgr' = [mgr EXCEPT !.attempts = IF UpgradeAllowed THEN @ + 1 ELSE @]

(* OAuthState::request_scope_upgrade keeps the manager when it fails       *)
RequestScopeUpgrade(required) ==
  /\ Exclusive
  /\ \/ /\ st = "Authorized" /\ UpgradeAttempt(required)
        /\ st' = "Session" /\ AuthReturns("ok")
     \/ /\ st = "Authorized" /\ UpgradeFails
        /\ AuthReturns("failed") /\ UNCHANGED <<st, session, states, flows, uses>>
     \/ /\ st \in {"Unauthorized", "Session", "HttpClient"}
        /\ AuthReturns("failed")
        /\ UNCHANGED <<st, mgr, session, states, flows, uses>>
  /\ UNCHANGED <<creds, auth_server, callback, task, lock, lost, auth_faults>>

(* A token the application brings along, or the client credentials flow    *)
Receives(given) ==
  /\ auth_server.last < MaxTokens
  /\ auth_server' = [last |-> auth_server.last + 1, live |-> auth_server.last + 1, scopes |-> given]
  /\ creds' = Saved(auth_server.last + 1, given)
  /\ lost' = FALSE

(* set_credentials saves first; a discovery that fails then costs the      *)
(* manager, not the credentials.                                           *)
SetCredentials ==
  /\ Exclusive
  /\ \/ /\ st = "Unauthorized" /\ mgr.home
        /\ \E given \in SUBSET Scopes :
             /\ Receives(given)
             /\ \/ /\ st' = "Authorized" /\ AuthReturns("ok")
                   /\ mgr' = [mgr EXCEPT !.ready = TRUE, !.scopes = given]
                   /\ UNCHANGED <<states, session, auth_faults>>
                \/ AuthFault /\ Placeholder("Unauthorized") /\ AuthReturns("failed")
     \/ /\ st \in {"Session", "Authorized", "HttpClient"}
        /\ AuthReturns("failed")
        /\ UNCHANGED <<st, mgr, session, states, creds, auth_server, lost, auth_faults>>
  /\ UNCHANGED <<flows, uses, callback, task, lock>>

(* authenticate_client_credentials saves last                              *)
AuthenticateClientCredentials ==
  /\ Exclusive
  /\ \/ /\ st = "Unauthorized" /\ mgr.home
        /\ \/ \E given \in SUBSET Scopes :
                /\ Receives(given) /\ st' = "Authorized" /\ AuthReturns("ok")
                /\ mgr' = [mgr EXCEPT !.ready = TRUE, !.scopes = given]
                /\ UNCHANGED <<states, session, auth_faults>>
           \/ /\ AuthFault /\ Placeholder("Unauthorized") /\ AuthReturns("failed")
              /\ UNCHANGED <<creds, auth_server, lost>>
     \/ /\ st \in {"Session", "Authorized", "HttpClient"}
        /\ Placeholder("Unauthorized") /\ AuthReturns("failed")
        /\ UNCHANGED <<creds, auth_server, lost, auth_faults>>
  /\ UNCHANGED <<flows, uses, callback, task, lock>>

(* to_authorized_http_client, or an AuthClient around the manager          *)
HandOver(to) ==
  /\ st = "Authorized"
  /\ st' = to /\ AuthReturns("ok")
  /\ UNCHANGED <<mgr, session, states, flows, uses, creds, auth_server, callback, task, lock, lost, auth_faults>>
HandOverTooEarly ==
  /\ Exclusive /\ st \in {"Unauthorized", "Session", "HttpClient"}
  /\ Placeholder("Authorized") /\ AuthReturns("failed")
  /\ UNCHANGED <<flows, uses, creds, auth_server, callback, task, lock, lost, auth_faults>>

----------------------------------------------------------------------------
(* Requests.  get_access_token stops at the store and at the network.      *)

Serving == st \in {"Client", "HttpClient"}

(* Mutant of MayEnter: AuthClient without its mutex.                       *)
MayEnterUnlocked(t) == TRUE

MayEnter(t) == st = "HttpClient" \/ lock \in {Nothing, t}

GetAccessToken(t) ==
  /\ Serving /\ task[t].pc = "idle" /\ MayEnter(t)
  /\ lock' = IF st = "Client" THEN t ELSE lock
  /\ task' = [task EXCEPT ![t] =
       IF Stored = Nothing THEN [pc |-> "reauth", tok |-> 0]
       ELSE [pc |-> IF Stored.stale THEN "refresh" ELSE "token", tok |-> Stored.tok]]
  /\ UNCHANGED <<st, mgr, session, states, flows, uses, creds, auth_server, callback, lost, outcome, auth_faults>>

(* refresh_token reads the store again                                     *)
RefreshToken(t) ==
  /\ Serving /\ task[t].pc = "refresh"
  /\ task' = [task EXCEPT ![t] = [pc |-> "sent", tok |-> creds.tok]]
  /\ UNCHANGED <<st, mgr, session, states, flows, uses, creds, auth_server, callback, lock, lost, outcome, auth_faults>>

(* The server rotates the token; its answer may be lost                    *)
RefreshAnswered(t) ==
  /\ Serving /\ task[t].pc = "sent"
  /\ \/ /\ task[t].tok = auth_server.live /\ auth_server.last < MaxTokens
        /\ auth_server' = [auth_server EXCEPT !.last = @ + 1, !.live = auth_server.last + 1]
        /\ \/ /\ task' = [task EXCEPT ![t] = [pc |-> "save", tok |-> auth_server.last + 1]]
              /\ UNCHANGED <<lost, auth_faults>>
           \/ AuthFault /\ lost' = TRUE /\ task' = [task EXCEPT ![t].pc = "reauth"]
     \/ /\ task[t].tok # auth_server.live
        /\ task' = [task EXCEPT ![t].pc = "reauth"] /\ UNCHANGED <<auth_server, lost, auth_faults>>
  /\ UNCHANGED <<st, mgr, session, states, flows, uses, creds, callback, lock, outcome>>

(* A response without scopes keeps the manager's                           *)
RefreshedScopes == mgr.scopes

SaveRefreshed(t) ==
  /\ Serving /\ task[t].pc = "save"
  /\ creds' = Saved(task[t].tok, RefreshedScopes)
  /\ mgr' = [mgr EXCEPT !.scopes = RefreshedScopes]
  /\ task' = [task EXCEPT ![t].pc = "token"]
  /\ UNCHANGED <<st, session, states, flows, uses, auth_server, callback, lock, lost, outcome, auth_faults>>

(* OAuthState::refresh_token: the same in one exclusive call               *)
RefreshAuthorized ==
  /\ Exclusive /\ st # "Client"
  /\ \/ /\ st = "Authorized" /\ mgr.ready /\ Stored # Nothing /\ Stored.tok = auth_server.live
        /\ auth_server.last < MaxTokens
        /\ auth_server' = [auth_server EXCEPT !.last = @ + 1, !.live = auth_server.last + 1]
        /\ \/ /\ creds' = Saved(auth_server.last + 1, RefreshedScopes)
              /\ mgr' = [mgr EXCEPT !.scopes = RefreshedScopes]
              /\ AuthReturns("ok") /\ UNCHANGED <<lost, auth_faults>>
           \/ AuthFault /\ lost' = TRUE /\ AuthReturns("failed") /\ UNCHANGED <<creds, mgr>>
     \/ /\ ~(st = "Authorized" /\ mgr.ready /\ Stored # Nothing /\ Stored.tok = auth_server.live)
        /\ AuthReturns("failed") /\ UNCHANGED <<auth_server, creds, mgr, lost, auth_faults>>
  /\ UNCHANGED <<st, session, states, flows, uses, callback, task, lock>>

(* The request has its token, or learns that it must authorize again       *)
RequestDone(t) ==
  /\ task[t].pc \in {"token", "reauth"}
  /\ task' = [task EXCEPT ![t] = Idle]
  /\ lock' = IF lock = t THEN Nothing ELSE lock
  /\ UNCHANGED <<st, mgr, session, states, flows, uses, creds, auth_server, callback, lost, outcome, auth_faults>>

(* Time passes: less than REFRESH_BUFFER_SECS are left                     *)
Expire ==
  /\ creds # Nothing /\ ~creds.stale
  /\ creds' = [creds EXCEPT !.stale = TRUE]
  /\ UNCHANGED <<st, mgr, session, states, flows, uses, auth_server, callback, task, lock, lost, outcome, auth_faults>>

(* The program restarts and calls initialize_from_store: the manager is    *)
(* ready if credentials were stored, and knows no scopes.                  *)
Restart ==
  /\ AuthFault
  /\ lost' = (lost \/ (creds # Nothing /\ creds.tok # auth_server.live))
  /\ session' = 0 /\ states' = {} /\ task' = [t \in Tasks |-> Idle] /\ lock' = Nothing
  /\ callback' = [t \in Tasks |-> NoCallback]
  /\ IF creds = Nothing THEN st' = "Unauthorized" /\ mgr' = Fresh(TRUE)
     ELSE st' = "Authorized" /\ mgr' = [Fresh(TRUE) EXCEPT !.ready = TRUE]
  /\ AuthReturns("ok")
  /\ UNCHANGED <<flows, uses, creds, auth_server>>

RequestStep(t) ==
  \/ GetAccessToken(t) \/ RefreshToken(t) \/ RefreshAnswered(t) \/ SaveRefreshed(t) \/ RequestDone(t)

CallbackStep(t) ==
  \/ \E c \in Callbacks : SessionCallback(t, c[1], c[2])
  \/ SessionDeletes(t) \/ SessionExchanges(t)

AuthStep ==
  \/ StartAuthorization \/ CompleteAuthorization \/ HandOverTooEarly
  \/ SetCredentials \/ AuthenticateClientCredentials \/ RefreshAuthorized
  \/ \E c \in Callbacks : HandleCallback(c[1], c[2])
  \/ \E t \in Tasks : CallbackStep(t)
  \/ \E r \in (SUBSET Scopes) \ {{}} : RequestScopeUpgrade(r)
  \/ \E to \in {"Client", "HttpClient"} : HandOver(to)
  \/ \E t \in Tasks : RequestStep(t)
  \/ Expire \/ Restart

AuthNext == AuthStep /\ UNCHANGED advertised

AuthSpec == AuthInit /\ [][AuthNext]_authVars

----------------------------------------------------------------------------
(* An authorization state that was used cannot be used again: once a code   *)
(* was sent for a flow, no later callback finds its state, whatever failed. *)
StateIsSpent == \A f \in DOMAIN uses : uses[f] > 0 => f \notin states

(* An authorization state is used once: no code is sent twice for one flow, *)
(* however many callbacks of the browser come in, and when.                 *)
(* Does not hold (README, section 4).                                      *)
StateUsedOnce == \A f \in DOMAIN uses : uses[f] <= 1

(* Refreshes behind AuthClient are serial: between requests the store holds*)
(* the refresh token the server accepts, unless an answer was lost on the  *)
(* way; no request overwrites a newer token or refreshes with a spent one. *)
StoreIsCurrent ==
  st = "Client" /\ lock = Nothing /\ creds # Nothing /\ ~lost => creds.tok = auth_server.live

=============================================================================
