------------------------------ MODULE HttpGate ------------------------------
(***************************************************************************)
(* One request at the streamable HTTP server, from its headers to the call *)
(* that serves it (StreamableHttpService::handle, tower.rs).  The checks   *)
(* come in the order of the code, and some of them after the first call    *)
(* that changes something; what those calls do to the sessions is the      *)
(* subject of HttpSessions.  A header gets its value when it is read.      *)
(*                                                                         *)
(* A host or an origin is a name, as normalize_host writes it, with a      *)
(* port, 0 where none is written.                                          *)
(***************************************************************************)
EXTENDS Integers, Sequences, FiniteSets

CONSTANTS AllowedHosts,   \* values of config.allowed_hosts
          AllowedOrigins, \* values of config.allowed_origins
          HostHeader,     \* [name, port] of Host headers that can be parsed
          OriginHeader    \* [name, port] of Origin headers that can be parsed; name is scheme and host

VARIABLES gate,     \* [hosts, origins, stateful, json]: the configuration
          request,  \* what was read of the request
          check,    \* the check that is next
          answer,   \* the status, once there is one
          effects   \* calls that change something, in order

gateVars == <<gate, request, check, answer, effects>>

Unread == [method |-> "unread", host |-> "unread", origin |-> "unread", version |-> "unread",
           session |-> "unread", message |-> "unread"]
BlankEntry == [name : {"blank"}, port : {0}]   \* an entry of white space, which is passed over

GateCalled(configuration) ==
  /\ gate = configuration /\ request = Unread /\ check = "host" /\ answer = "none" /\ effects = <<>>

GateInit ==
  \E hosts \in AllowedHosts, origins \in AllowedOrigins, stateful \in BOOLEAN, json \in BOOLEAN :
    (stateful => ~json) /\ GateCalled([hosts |-> hosts, origins |-> origins, stateful |-> stateful, json |-> json])

-----------------------------------------------------------------------------
ReadsHeader(header, value) == request' = [request EXCEPT ![header] = value]
Refuse(status) == check' = "answered" /\ answer' = status /\ UNCHANGED effects
Pass(next) == check' = next /\ UNCHANGED <<answer, effects>>
Does(call, next) == check' = next /\ effects' = Append(effects, call) /\ UNCHANGED answer
Serves(call, status) == check' = "answered" /\ effects' = Append(effects, call) /\ answer' = status

(* host_is_allowed and origin_is_allowed: an entry without a port is for   *)
(* every port, and a list that is empty for everyone.                      *)
Matches(entry, value) == entry.name = value.name /\ entry.port \in {0, value.port}
is_allowed(value, list) == list = {} \/ \E entry \in list \ BlankEntry : Matches(entry, value)

(* parse_host_header: without a Host header, the authority of the url      *)
ParseHost ==
  /\ check = "host"
  /\ \/ \E value \in {"absent", "garbled"} : ReadsHeader("host", value) /\ Refuse("400")
     \/ \E value \in HostHeader :
          /\ ReadsHeader("host", value)
          /\ IF is_allowed(value, gate.hosts) THEN Pass("origin") ELSE Refuse("403")

(* validate_origin_header: a request without one passes                    *)
ValidateOrigin ==
  /\ check = "origin"
  /\ \/ gate.origins = {} /\ Pass("method") /\ UNCHANGED request
     \/ gate.origins # {} /\ ReadsHeader("origin", "absent") /\ Pass("method")
     \/ gate.origins # {} /\ ReadsHeader("origin", "garbled") /\ Refuse("400")
     \/ \E value \in OriginHeader :
          /\ gate.origins # {} /\ ReadsHeader("origin", value)
          /\ IF is_allowed(value, gate.origins) THEN Pass("method") ELSE Refuse("403")

(* handle: GET and DELETE are for a server that keeps sessions             *)
Dispatch ==
  /\ check = "method"
  /\ \E method \in {"POST", "GET", "DELETE", "PUT"} :
       /\ ReadsHeader("method", method)
       /\ CASE method = "POST" -> Pass("post")
            [] method = "GET" /\ gate.stateful -> Pass("get")
            [] method = "DELETE" /\ gate.stateful -> Pass("delete")
            [] OTHER -> Refuse("405")

(* validate_protocol_version_header.  Version headers: "init" is the       *)
(* version that an initialize request of this client names.                *)
Versions == {"absent", "garbled", "unknown", "init", "other"}
KnownVersion(v) == v \notin {"garbled", "unknown"}
(* validate_header_matches_init_body                                       *)
MatchesInitBody(v) == v \in {"absent", "init"}

(* The session a request names: unknown, in memory, or only in the store   *)
KnownAs == {"unknown", "here", "stored"}

-----------------------------------------------------------------------------
(* handle_get and handle_post of a request that names a session            *)

GetHeaders ==
  /\ check = "get"
  /\ \/ Refuse("406") /\ UNCHANGED request
     \/ ReadsHeader("session", "absent") /\ Refuse("400")
     \/ \E s \in KnownAs : ReadsHeader("session", s) /\ Pass("lookup")

(* has_session, try_restore_from_store                                     *)
Lookup ==
  /\ check = "lookup"
  /\ \/ request.session = "here" /\ Pass("version")
     \/ request.session = "stored" /\ (Does("restore", "version") \/ Refuse("500"))
     \/ request.session = "unknown" /\ Refuse("404")
  /\ UNCHANGED request

CheckVersion ==
  /\ check = "version"
  /\ \E v \in Versions : ReadsHeader("version", v) /\ IF KnownVersion(v) THEN Pass("serve") ELSE Refuse("400")

(* resume with a Last-Event-ID, which is 200 even if it fails,             *)
(* create_standalone_stream, create_stream, accept_message: 500 if the     *)
(* worker of the session is gone                                           *)
ServeSession ==
  /\ check = "serve"
  /\ \/ Refuse("500")
     \/ request.method = "GET" /\ Serves("open stream", "200")
     \/ request.message \in {"initialize", "request"} /\ Serves("request", "200")
     \/ request.message = "notification" /\ Serves("message", "202")
  /\ UNCHANGED request

(* handle_post up to its body, which expect_json may not be able to read   *)
PostHeaders ==
  /\ check = "post"
  /\ \/ \E status \in {"406", "415", "422"} : Refuse(status) /\ UNCHANGED request
     \/ \E message \in {"initialize", "request", "notification"} :
          ReadsHeader("message", message) /\ Pass(IF gate.stateful THEN "post session" ELSE "stateless")

PostSession ==
  /\ check = "post session"
  /\ \/ ReadsHeader("session", "absent") /\ Does("create session", "new session")
     \/ \E s \in KnownAs : ReadsHeader("session", s) /\ Pass("lookup")

(* A POST without a session id opens one: the session is there before the  *)
(* message is looked at.                                                   *)
PostWithoutSession ==
  /\ check = "new session"
  /\ IF request.message # "initialize" THEN Refuse("422") /\ UNCHANGED request
     ELSE \E v \in Versions :
            /\ ReadsHeader("version", v)
            /\ IF MatchesInitBody(v) THEN Serves("initialize", "200") \/ Refuse("500") ELSE Refuse("400")

(* handle_post of a server that keeps no sessions: a service of its own    *)
(* for every request, and none for anything else.  In JSON mode the answer *)
(* waits for the first message of the handler, which may never come.       *)
Stateless ==
  /\ check = "stateless"
  /\ \E v \in Versions :
       /\ ReadsHeader("version", v)
       /\ IF (IF request.message = "initialize" THEN MatchesInitBody(v) ELSE KnownVersion(v))
          THEN \/ Refuse("500")
               \/ request.message = "notification" /\ Refuse("202")
               \/ /\ request.message # "notification"
                  /\ \E status \in (IF gate.json THEN {"200", "500"} ELSE {"200"}) : Serves("own service", status)
          ELSE Refuse("400")

(* Mutant of Delete: the session is closed before the version is checked.  *)
DeleteFirst ==
  /\ check = "delete"
  /\ \/ ReadsHeader("session", "absent") /\ Refuse("400")
     \/ \E s \in KnownAs, v \in Versions :
          /\ request' = [request EXCEPT !.session = s, !.version = v]
          /\ Serves("close", IF KnownVersion(v) THEN "202" ELSE "400")

(* handle_delete                                                           *)
Delete ==
  /\ check = "delete"
  /\ \/ ReadsHeader("session", "absent") /\ Refuse("400")
     \/ \E s \in KnownAs, v \in Versions :
          /\ request' = [request EXCEPT !.session = s, !.version = v]
          /\ IF KnownVersion(v) THEN Serves("close", "202") ELSE Refuse("400")

GateNext ==
  /\ \/ ParseHost \/ ValidateOrigin \/ Dispatch \/ GetHeaders \/ Lookup \/ CheckVersion \/ ServeSession
     \/ PostHeaders \/ PostSession \/ PostWithoutSession \/ Stateless \/ Delete
  /\ UNCHANGED gate

GateSpec == GateInit /\ [][GateNext]_gateVars

-----------------------------------------------------------------------------
(* Properties                                                              *)

Refused == answer \in {"400", "403", "404", "405", "406", "415", "422"}

(* A request that is refused has changed nothing, with two exceptions the  *)
(* order of the checks makes: a POST without a session id leaves the       *)
(* session that was made for it when its message is not an initialize      *)
(* request or names another version than its header, and a stored session  *)
(* is restored before the version is found to be unknown.  A request that  *)
(* is not refused has done one thing, after a restore if it needed one.    *)
RefusalsLeaveNothing ==
  /\ Refused => \/ effects = <<>>
                \/ effects = <<"create session">> /\ request.session = "absent"
                \/ effects = <<"restore">> /\ request.session = "stored" /\ ~KnownVersion(request.version)
  /\ (answer # "none" /\ ~Refused) => Len(effects) <= IF request.session \in {"absent", "stored"} THEN 2 ELSE 1
=============================================================================
