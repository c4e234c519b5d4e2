---------------------------- MODULE ClientSetup -----------------------------
(***************************************************************************)
(* From the metadata of an authorization server to a client that can ask   *)
(* it for a token (transport/auth.rs): the scopes to ask for, the          *)
(* registration of the client or its url as its name, the way it           *)
(* authenticates at the token endpoint, and the two flows without a user,  *)
(* with a secret and with a signed assertion.  One step ends at one        *)
(* request.                                                                *)
(*                                                                         *)
(* A list of scopes is named by where it comes from.                       *)
(***************************************************************************)
EXTENDS Integers, FiniteSets

VARIABLES config,   \* what the application asks for
          offers,   \* the metadata of the authorization server
          known,    \* "header", "resource": where discovery has found scopes
          step,     \* "called", "registering", "exchanging", or how it ended
          oauth_client,  \* [secret, method], once configured
          asks      \* the scopes of the registration and of the authorization url

setupVars == <<config, offers, known, step, oauth_client, asks>>

Unsaid == {"unsaid"}   \* token_endpoint_auth_methods_supported is absent
Unconfigured == [secret |-> FALSE, method |-> "unconfigured"]

(* How the client proves who it is: a public client only names itself      *)
OAuthClient(secret, method) == [secret |-> secret, method |-> IF secret THEN method ELSE "none"]

Authorize == [flow : {"authorize"}, scopes : BOOLEAN, client_metadata_url : {"absent", "https", "other"}]
Credential == [flow : {"secret", "jwt"}, resource : BOOLEAN]

Methods == {Unsaid} \cup SUBSET {"basic", "post", "jwt"}
PlainServer == [registers |-> FALSE, url_ids |-> FALSE, code |-> TRUE, scopes |-> "absent",
          methods |-> Unsaid, urls |-> TRUE, https |-> TRUE, algorithm |-> TRUE]
(* The fields that matter to the flow                                      *)
OffersTo(flow) ==
  IF flow = "authorize"
  THEN [registers : BOOLEAN, url_ids : BOOLEAN, code : BOOLEAN, scopes : {"absent", "some", "offline"},
        methods : Methods, urls : BOOLEAN, https : {TRUE}, algorithm : {TRUE}]
  ELSE [registers : {FALSE}, url_ids : {FALSE}, code : {TRUE}, scopes : {"absent"},
        methods : Methods, urls : BOOLEAN, https : BOOLEAN, algorithm : BOOLEAN]

SetupCalled(c, o, k) == /\ config = c /\ offers = o /\ known = k
                        /\ step = "called" /\ oauth_client = Unconfigured /\ asks = {}

SetupInit == \E c \in Authorize \cup Credential : \E o \in OffersTo(c.flow) :
               \E k \in (IF c.flow = "authorize" THEN SUBSET {"header", "resource"} ELSE {{}}) : SetupCalled(c, o, k)

-----------------------------------------------------------------------------
(* select_base_scopes: the first source that has any                       *)
select_base_scopes ==
  CASE "header" \in known -> {"header"}
    [] "header" \notin known /\ "resource" \in known -> {"resource"}
    [] known = {} /\ offers.scopes # "absent" -> {"server"}
    [] OTHER -> {}

(* add_offline_access_if_supported; the server's own list already has it   *)
add_offline_access(scopes) ==
  IF scopes \in {{}, {"server"}} \/ offers.scopes # "offline" THEN scopes ELSE scopes \cup {"offline_access"}

ScopesToAskFor == add_offline_access(IF config.scopes THEN {"asked"} ELSE select_base_scopes)

(* configure_client: the body only if that is offered and Basic is not     *)
configure_client(secret) ==
  OAuthClient(secret, IF "post" \in offers.methods /\ "basic" \notin offers.methods THEN "post" ELSE "basic")

(* configure_client and get_authorization_url, which end the set-up        *)
Ends(result) == step' = result
OpenSession(secret) ==
  /\ IF offers.urls THEN oauth_client' = configure_client(secret) ELSE UNCHANGED oauth_client
  /\ Ends(IF ~offers.urls THEN "Invalid URL" ELSE IF ~offers.code THEN "InvalidScope" ELSE "Session")

(* AuthorizationSession::new: the url of the client is its name where the  *)
(* server takes that, and any other client is registered.                  *)
NewSession ==
  /\ step = "called" /\ config.flow = "authorize"
  /\ asks' = ScopesToAskFor
  /\ IF offers.url_ids /\ config.client_metadata_url # "absent"
     THEN IF config.client_metadata_url = "https" THEN OpenSession(FALSE)
          ELSE Ends("RegistrationFailed") /\ UNCHANGED oauth_client
     ELSE /\ Ends(IF offers.registers /\ offers.code THEN "registering" ELSE "RegistrationFailed")
          /\ UNCHANGED oauth_client
  /\ UNCHANGED <<config, offers, known>>

(* register_client: the answer of the registration endpoint; it fails also *)
(* when the client cannot be configured.  An empty secret is none.         *)
Registered ==
  /\ step = "registering"
  /\ \/ Ends("RegistrationFailed") /\ UNCHANGED oauth_client
     \/ offers.urls /\ \E client_secret \in {"absent", "empty", "secret"} : OpenSession(client_secret = "secret")
  /\ UNCHANGED <<config, offers, known, asks>>

(* validate_client_credentials_metadata                                    *)
Supported ==
  IF config.flow = "secret" THEN offers.methods = Unsaid \/ offers.methods \cap {"post", "basic"} # {}
  ELSE (offers.methods = Unsaid \/ "jwt" \in offers.methods) /\ offers.algorithm

(* Mutant of configure_client_credentials: the credentials go in the body. *)
configure_in_body == OAuthClient(config.flow = "secret", "post")

(* configure_client_credentials: Basic only if that alone is offered       *)
configure_client_credentials ==
  OAuthClient(config.flow = "secret",
              IF "basic" \in offers.methods /\ "post" \notin offers.methods THEN "basic" ELSE "post")

(* authenticate_client_credentials, with the checks of                     *)
(* exchange_client_credentials before its request and those of             *)
(* exchange_client_credentials_jwt: an assertion goes out over https only. *)
AuthenticateWithCredentials ==
  /\ step = "called" /\ config.flow # "authorize"
  /\ \/ ~Supported /\ Ends("ClientCredentialsError") /\ UNCHANGED oauth_client
     \/ Supported /\ ~offers.urls /\ Ends("Invalid URL") /\ UNCHANGED oauth_client
     \/ /\ Supported /\ offers.urls
        /\ oauth_client' = configure_client_credentials
        /\ Ends(IF config.resource /\ (config.flow = "jwt" => offers.https) THEN "exchanging"
                ELSE "ClientCredentialsError")
  /\ UNCHANGED <<config, offers, known, asks>>

(* The signing key may be of no use; the endpoint may fail or refuse       *)
ExchangeEnds ==
  /\ step = "exchanging"
  /\ \/ Ends("Authorized") \/ Ends("ClientCredentialsError")
     \/ config.flow = "jwt" /\ Ends("JwtSigningError")
  /\ UNCHANGED <<config, offers, known, oauth_client, asks>>

SetupNext == NewSession \/ Registered \/ AuthenticateWithCredentials \/ ExchangeEnds

SetupSpec == SetupInit /\ [][SetupNext]_setupVars

-----------------------------------------------------------------------------
(* Properties                                                              *)

(* How the request for a token is going to be authenticated                *)
Proof == IF config.flow = "jwt" THEN "jwt" ELSE oauth_client.method

(* A client with something to prove proves it in a way the server offers:  *)
(* the choice between the body and the Authorization header is made in two *)
(* places with opposite defaults, and one of them after a separate check.  *)
(* A registered client that was given a secret by a server that offers     *)
(* neither way has no choice.                                              *)
MethodIsOffered ==
  (/\ step \in {"Session", "exchanging", "Authorized"}
   /\ offers.methods # Unsaid
   /\ Proof # "none"
   /\ config.flow = "authorize" => offers.methods \cap {"basic", "post"} # {})
    => Proof \in offers.methods
=============================================================================
