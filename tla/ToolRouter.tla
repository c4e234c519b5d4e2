------------------------------ MODULE ToolRouter -----------------------------
(***************************************************************************)
(* The tools an MCP server offers (Router of router.rs, ToolRouter of      *)
(* router/tool.rs): routes that the server adds, removes, disables and     *)
(* enables while a client is connected, and the notifier that tells the    *)
(* client to list the tools again.  The owner of the router changes it     *)
(* under a lock, so a method is one step; the notice goes out from a task  *)
(* of its own and may come any time later.                                 *)
(*                                                                         *)
(* The client is external: it lists the tools when it likes, and throws    *)
(* away its list, or the answer it waits for, when it is told of a change. *)
(***************************************************************************)
EXTENDS Integers, TLC

CONSTANTS ToolName,
          Version,     \* what a route can be: its handler and its description
          MaxNotices   \* bound: notices on their way

ASSUME RouterAssumption == /\ MaxNotices \in Nat
                           /\ Version \cap {"tool not found", "service"} = {}

VARIABLES map,         \* the routes: a name and its version
          off,         \* the field disabled
          transparent_when_not_found,
          notifier,    \* "none", "deferred" until the peer is known, or "bound" to it
          peer_slot,   \* InitializedNotification was handled
          notices,     \* notify_tool_list_changed spawned and not yet received
          listed,      \* the last list of the client, if it holds one
          silent       \* since then, the list changed when no notice is due

routerVars == <<map, off, transparent_when_not_found, notifier, peer_slot, notices, listed, silent>>

Some(names) == UNION {[dom -> Version] : dom \in SUBSET names}

(* Router::new, and the builders with_tool, with_tools and with_disabled   *)
RouterStarts(routes, disabled, transparent) ==
  /\ map = routes /\ off = disabled
  /\ transparent_when_not_found = transparent
  /\ notifier = "deferred" /\ peer_slot = FALSE
  /\ notices = 0 /\ listed = {} /\ silent = FALSE

RouterInit == \E routes \in Some(ToolName), disabled \in SUBSET ToolName, transparent \in BOOLEAN :
                RouterStarts(routes, disabled, transparent)

-----------------------------------------------------------------------------
(* What the router answers                                                 *)

Enabled(routes, disabled) == [n \in DOMAIN routes \ disabled |-> routes[n]]
list_all == Enabled(map, off)
has_route(name) == name \in DOMAIN map \ off
get(name) == IF name \in off \/ name \notin DOMAIN map THEN {} ELSE {map[name]}

(* ToolRouter::call: the route whose handler runs                          *)
call(name) == IF name \in off \/ name \notin DOMAIN map THEN "tool not found" ELSE map[name]

(* Router::handle_request for CallToolRequest: the router, or the service  *)
(* behind it, which looks the name up for itself.                          *)
CallTool(name) ==
  IF name \in DOMAIN map \/ ~transparent_when_not_found THEN call(name) ELSE "service"

-----------------------------------------------------------------------------
(* Methods of the router                                                   *)

(* The notifier runs: deferred_peer_notifier does nothing without a peer.  *)
Reaches == notifier = "bound" \/ (notifier = "deferred" /\ peer_slot)
Notify(due) == notices' = IF due /\ Reaches THEN notices + 1 ELSE notices

(* A list that changes without the notifier running, or while it reaches   *)
(* nobody, is one the client cannot know of.                               *)
Unannounced(told) == silent' = (silent \/ (list_all' # list_all /\ ~(told /\ Reaches)))

Quietly == Notify(FALSE) /\ Unannounced(FALSE)

add_route(name, version) ==
  /\ map' = (name :> version) @@ map
  /\ off' = off
  /\ Quietly

(* The disabled names of both, and the routes of the other over its own    *)
merge(routes, disabled) ==
  /\ off' = off \cup disabled
  /\ map' = routes @@ map
  /\ Quietly

(* Router::with_tools(other): the iterator of a router leaves out what it  *)
(* has disabled.                                                           *)
AddAll(routes, disabled) ==
  /\ map' = Enabled(routes, disabled) @@ map
  /\ off' = off
  /\ Quietly

remove_route(name) ==
  /\ map' = [n \in DOMAIN map \ {name} |-> map[n]]
  /\ off' = off
  /\ Quietly

(* Mutant of disable_route: the route is looked up after the name has been *)
(* put in the set.                                                         *)
disable_after(name) ==
  /\ off' = off \cup {name}
  /\ map' = map
  /\ Notify(has_route(name) /\ name \notin off') /\ Unannounced(TRUE)

disable_route(name) ==
  /\ Notify(has_route(name))
  /\ off' = off \cup {name}
  /\ map' = map
  /\ Unannounced(TRUE)

enable_route(name) ==
  /\ off' = off \ {name}
  /\ map' = map
  /\ Notify(name \in off /\ name \in DOMAIN map) /\ Unannounced(TRUE)

ChangeRoutes ==
  /\ notices < MaxNotices
  /\ \/ \E n \in ToolName, v \in Version : add_route(n, v)
     \/ \E n \in ToolName : remove_route(n) \/ disable_route(n) \/ enable_route(n)
     \/ \E routes \in Some(ToolName), disabled \in SUBSET ToolName :
          merge(routes, disabled) \/ AddAll(routes, disabled)
  /\ UNCHANGED <<transparent_when_not_found, notifier, peer_slot, listed>>

(* set_notifier, bind_peer_notifier, clear_notifier                        *)
SetNotifier(to) ==
  /\ notifier # to /\ notifier' = to
  /\ UNCHANGED <<map, off, transparent_when_not_found, peer_slot, notices, listed, silent>>

-----------------------------------------------------------------------------
(* The client                                                              *)

(* Router::handle_notification of InitializedNotification.  The loop       *)
(* serves requests before it has come: it waits for nothing.               *)
Initialized ==
  /\ ~peer_slot /\ peer_slot' = TRUE
  /\ UNCHANGED <<map, off, transparent_when_not_found, notifier, notices, listed, silent>>

ListTools ==
  /\ listed' = {list_all} /\ silent' = FALSE
  /\ UNCHANGED <<map, off, transparent_when_not_found, notifier, peer_slot, notices>>

ToldOfChange ==
  /\ notices > 0 /\ notices' = notices - 1
  /\ listed' = {}
  /\ UNCHANGED <<map, off, transparent_when_not_found, notifier, peer_slot, silent>>

RouterNext ==
  \/ ChangeRoutes
  \/ \E to \in {"none", "bound"} : SetNotifier(to)
  \/ Initialized \/ ListTools \/ ToldOfChange

RouterSpec == RouterInit /\ [][RouterNext]_routerVars

-----------------------------------------------------------------------------
(* A client that lists the tools again when it is told to knows what the   *)
(* server offers: once no notice is on its way, its list is the router's,  *)
(* a call of a tool that is on it runs the version it was listed with, and *)
(* a call of any other runs no tool of the router, however the routes were *)
(* disabled, removed and added again.  The exception is the code's own:    *)
(* add_route, merge and remove_route do not notify, and no notice goes out *)
(* before the peer is known.                                               *)
ListIsCurrent ==
  \A list \in listed :
    notices = 0 /\ ~silent =>
      /\ list = list_all
      /\ \A n \in ToolName :
           IF n \in DOMAIN list
             THEN has_route(n) /\ get(n) = {list[n]} /\ CallTool(n) = list[n]
             ELSE ~has_route(n) /\ get(n) = {} /\ CallTool(n) \notin Version
=============================================================================
