----------------------------- MODULE Discovery ------------------------------
(***************************************************************************)
(* How the MCP client finds its authorization server                       *)
(* (AuthorizationManager::discover_metadata, transport/auth.rs): the       *)
(* resource is asked for its metadata document, the document names         *)
(* authorization servers, each server has several places for its metadata, *)
(* and the resource's own host is the last resort.  One step is one        *)
(* request.                                                                *)
(*                                                                         *)
(* A url is a site and a file of that site.  `world` holds what the        *)
(* documents asked for so far turned out to be: a url that is asked for    *)
(* twice answers the same.                                                 *)
(***************************************************************************)
EXTENDS Integers, Sequences, SequencesExt

CONSTANTS Header,     \* WWW-Authenticate headers, as the parameters in them
          MaxHeaders, \* bound: headers of an answer
          MaxServers  \* bound: authorization servers a document names

ASSUME DiscoveryAssumption ==
  /\ MaxHeaders \in Nat /\ MaxServers \in Nat
  /\ \A h \in Header : ToSet(h) \subseteq {"link", "broken", "unclosed", "scope"}

VARIABLES paths,     \* the sites whose url has a path
          world,     \* url -> its answer
          todo,      \* urls still to ask for at this stage
          stage,     \* "probe", "resource", "servers", "direct", or how it ended
          resource_metadata_url,
          header_scopes, resource_scopes,  \* are there any in www_auth_scopes, resource_scopes
          found      \* where the authorization metadata was

discoveryVars == <<paths, world, todo, stage, resource_metadata_url, header_scopes, resource_scopes, found>>

Base == <<"resource", "itself">>
Linked == <<"resource", "linked">>           \* what the link of a challenge points to
Server == <<"server", "itself">>
Document == <<"server", "document">>         \* a server named by a /.well-known/ url
Blank == <<"", "blank">>                     \* a name of white space
Unresolvable == <<"", "unresolvable">>       \* a name that is no url
Unknown == <<"", "">>

(* generate_discovery_urls                                                 *)
generate_discovery_urls(url) ==
  IF url[1] \in paths
  THEN << <<url[1], "oauth/path">>, <<url[1], "openid/path">>, <<url[1], "path/openid">>, <<url[1], "oauth">> >>
  ELSE << <<url[1], "oauth">>, <<url[1], "openid">> >>

(* well_known_paths(base_url.path(), "oauth-protected-resource")           *)
well_known_paths ==
  IF Base[1] \in paths
  THEN << <<Base[1], "protected/path">>, <<Base[1], "path/protected">>, <<Base[1], "protected">> >>
  ELSE << <<Base[1], "protected">> >>

(* What may stand at a url.  "no": the request failed, the status is       *)
(* another one, or no metadata of a server can be read from the text.      *)
(* "garbled": 200, but no metadata of a resource.                          *)
Candidate == {Blank, Unresolvable, Base, Server, Document}
ResourceDocument == [servers : BoundedSeq(Candidate, MaxServers), scopes : BOOLEAN]
Challenge == BoundedSeq(Header, MaxHeaders)
ResourceAnswer == [kind : {"no", "garbled"}] \cup [kind : {"unauthorized"}, headers : Challenge]
                  \cup [kind : {"resource"}, doc : ResourceDocument]
ServerAnswer == [kind : {"no", "unreadable", "metadata"}]

Asked(url, answer) ==
  IF url \in DOMAIN world
  THEN world[url] = answer /\ UNCHANGED world
  ELSE world' = [u \in DOMAIN world \cup {url} |-> IF u = url THEN answer ELSE world[u]]

DiscoveryCalled(withPath) ==
  /\ paths = withPath /\ world = <<>>
  /\ todo = <<Base>> \o well_known_paths /\ stage = "probe"
  /\ resource_metadata_url = Unknown
  /\ header_scopes = FALSE /\ resource_scopes = FALSE /\ found = Unknown

DiscoveryInit == \E withPath \in SUBSET {Base[1], Server[1]} : DiscoveryCalled(withPath)

-----------------------------------------------------------------------------
(* extract_www_authenticate_params: the first resource_metadata value that *)
(* is a url, unless a quoted value before it is never closed.              *)
Links(header) ==
  \E i \in DOMAIN header : header[i] = "link" /\ \A j \in 1 .. i - 1 : header[j] # "unclosed"
FirstLink(headers) == SelectInSeq(headers, Links)

Falls(next, urls) == stage' = next /\ todo' = urls

(* discover_resource_metadata_url with fetch_resource_metadata_url: an     *)
(* answer of 200 makes the url itself the document's.                      *)
ProbeResource(answer) ==
  /\ stage = "probe" /\ Asked(Head(todo), answer)
  /\ \/ /\ answer.kind \in {"garbled", "resource"}
        /\ resource_metadata_url' = Head(todo) /\ Falls("resource", <<>>)
        /\ UNCHANGED header_scopes
     \/ /\ answer.kind = "unauthorized" /\ FirstLink(answer.headers) # 0
        /\ resource_metadata_url' = Linked /\ Falls("resource", <<>>)
        /\ header_scopes' = ("scope" \in ToSet(answer.headers[FirstLink(answer.headers)]))
     \/ /\ \/ answer.kind = "no"
           \/ answer.kind = "unauthorized" /\ FirstLink(answer.headers) = 0
        /\ IF Len(todo) > 1 THEN Falls("probe", Tail(todo))
                            ELSE Falls("direct", generate_discovery_urls(Base))
        /\ UNCHANGED <<resource_metadata_url, header_scopes>>
  /\ UNCHANGED <<paths, resource_scopes, found>>

(* Where the metadata of a named server may be.  Blank and unresolvable    *)
(* names are passed over; a /.well-known/ url is asked for as it stands.   *)
UrlsOf(candidate) == CASE candidate \in {Blank, Unresolvable} -> <<>>
                       [] candidate = Document -> <<Document>>
                       [] OTHER -> generate_discovery_urls(candidate)
NamedUrls(doc) == FlattenSeq([i \in DOMAIN doc.servers |-> UrlsOf(doc.servers[i])])

(* fetch_resource_metadata_from_url: a document that cannot be read or     *)
(* parsed counts as none.                                                  *)
FetchResource(answer) ==
  /\ stage = "resource" /\ Asked(resource_metadata_url, answer)
  /\ IF answer.kind = "resource"
     THEN /\ resource_scopes' = answer.doc.scopes
          /\ IF NamedUrls(answer.doc) # <<>> THEN Falls("servers", NamedUrls(answer.doc))
             ELSE Falls("direct", generate_discovery_urls(Base))
     ELSE Falls("direct", generate_discovery_urls(Base)) /\ UNCHANGED resource_scopes
  /\ UNCHANGED <<paths, resource_metadata_url, header_scopes, found>>

(* Mutant of Exhausted: the servers of the document are all there is.      *)
ExhaustedAtOnce == Falls("NoAuthorizationSupport", <<>>)

(* discover_metadata: the second of its two ways, or none is left.         *)
Exhausted == IF stage = "servers" THEN Falls("direct", generate_discovery_urls(Base))
                                  ELSE Falls("NoAuthorizationSupport", <<>>)

(* try_discover_oauth_server with fetch_authorization_metadata: a body     *)
(* that breaks off is an error of the whole discovery.                     *)
FetchMetadata(answer) ==
  /\ stage \in {"servers", "direct"} /\ Asked(Head(todo), answer)
  /\ \/ answer.kind = "metadata" /\ Falls("discovered", <<>>) /\ found' = Head(todo)
     \/ answer.kind = "unreadable" /\ Falls("failed", <<>>) /\ UNCHANGED found
     \/ /\ answer.kind = "no" /\ UNCHANGED found
        /\ IF Len(todo) > 1 THEN Falls(stage, Tail(todo)) ELSE Exhausted
  /\ UNCHANGED <<paths, resource_metadata_url, header_scopes, resource_scopes>>

DiscoveryNext ==
  \/ \E answer \in ResourceAnswer : ProbeResource(answer) \/ FetchResource(answer)
  \/ \E answer \in ServerAnswer : FetchMetadata(answer)

DiscoverySpec == DiscoveryInit /\ [][DiscoveryNext]_discoveryVars

-----------------------------------------------------------------------------
(* Properties                                                              *)

Kind(url) == IF url \in DOMAIN world THEN world[url].kind ELSE "not asked"

(* Reference: the document that describes the resource is the first, of    *)
(* the url itself and its well-known places, that is there or is linked.   *)
Describes(url) == \/ Kind(url) = "resource"
                  \/ Kind(url) = "unauthorized" /\ \E i \in DOMAIN world[url].headers : Links(world[url].headers[i])
OwnPlaces == <<Base>> \o well_known_paths
Description ==
  LET first == SelectInSeq(OwnPlaces, Describes)
  IN  IF first = 0 THEN Unknown ELSE IF Kind(OwnPlaces[first]) = "unauthorized" THEN Linked ELSE OwnPlaces[first]

(* All places for the metadata, in the order of preference.                *)
Places == (IF Kind(Description) = "resource" THEN NamedUrls(world[Description].doc) ELSE <<>>)
          \o generate_discovery_urls(Base)

(* "per SEP-985: Protected Resource Metadata first, then direct OAuth":    *)
(* unless a place of the resource answers 200 with something else (see     *)
(* WellKnownIsTried), the metadata that is used is the first that exists   *)
(* at any place the resource's description names, and then at the          *)
(* resource's own host; the client gives up only after it has asked at all *)
(* of them, and a body that breaks off ends the search where it happens.   *)
DiscoveryFindsFirst ==
  /\ stage \in {"discovered", "NoAuthorizationSupport", "failed"}
  /\ \A i \in DOMAIN OwnPlaces : Kind(OwnPlaces[i]) # "garbled"
  => LET first == SelectInSeq(Places, LAMBDA u : Kind(u) # "no")
     IN  CASE stage = "discovered" -> first # 0 /\ Kind(Places[first]) = "metadata" /\ found = Places[first]
           [] stage = "failed" -> first # 0 /\ Kind(Places[first]) = "unreadable"
           [] OTHER -> first = 0

(* "If the primary URL doesn't use WWW-Authenticate, try                   *)
(* oauth-protected-resource discovery": once the resource's url has        *)
(* answered without a challenge, and not with the document either, no      *)
(* search ends before a well-known place was asked.                        *)
(* Does not hold (README, section 4).                                      *)
WellKnownIsTried ==
  (stage \notin {"probe", "resource"} /\ Kind(Base) \in {"no", "garbled"}) => well_known_paths[1] \in DOMAIN world
=============================================================================
