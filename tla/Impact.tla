------------------------------- MODULE Impact --------------------------------
(***************************************************************************)
(* The impact analysis: a breadth-first search from the nodes that carry   *)
(* the symbol, against the direction of the edges, and along Drives edges  *)
(* out of a signal.  It is written twice: cmd_impact of the command line   *)
(* tool (crates/hdl-graph-cli/src/main.rs) and hdl_impact of the MCP       *)
(* server (crates/hdl-graph-mcp/src/tools/impact.rs), with different       *)
(* limits, depths and bookkeeping.  One step is one turn of the loop.      *)
(*                                                                         *)
(* The graphs are those the extractor makes (ParentBeforeChild and         *)
(* OneParent of Extractor): every node but a root has one incoming edge,   *)
(* from a smaller id, and a node named by an edge may be missing.  Edge    *)
(* types stand for their class: Contains is followed, Defines is not,      *)
(* Drives is followed both ways.  Drives edges exist in edge.rs, no        *)
(* extractor makes one yet.  Labels and wording are left out: a report is  *)
(* a depth and a node.                                                     *)
(***************************************************************************)
EXTENDS Integers, Sequences, SequencesExt

CONSTANTS MaxNode,    \* node ids are 1..MaxNode
          EdgeType,   \* the edge types of the graph
          MayMiss,    \* the nodes that may be missing
          MaxTargets  \* bound: nodes that carry the symbol

ASSUME NodesAssumption ==
  /\ MaxNode \in Nat \ {0} /\ MaxTargets \in Nat
  /\ MayMiss \subseteq 1 .. MaxNode
  /\ {"Contains"} \subseteq EdgeType /\ EdgeType \subseteq {"Contains", "Defines", "Drives"}

GraphNode == 1 .. MaxNode

VARIABLES tool,     \* which of the two runs
          parent,   \* node -> the source of its incoming edge, 0 for a root
          via,      \* node -> the type of that edge
          signals,  \* the SignalDecl nodes
          exists,   \* the nodes the graph stores
          targets,  \* the nodes that carry the symbol
          queue,    \* VecDeque<(node, depth)>
          visited_nodes,  \* HashSet
          results   \* what is reported: <<depth, node>>

graphVars == <<tool, parent, via, signals, exists, targets>>
impactVars == <<graphVars, queue, visited_nodes, results>>

ImpactInit == /\ tool \in {"cli", "mcp"}
              /\ parent \in {p \in [GraphNode -> 0 .. MaxNode] : \A n \in GraphNode : p[n] < n}
              /\ via \in {t \in [GraphNode -> EdgeType] : \A n \in GraphNode : parent[n] = 0 => t[n] = "Contains"}
              /\ signals = {n \in GraphNode : \E k \in GraphNode : parent[k] = n /\ via[k] = "Drives"}
              /\ exists \in {GraphNode \ m : m \in SUBSET MayMiss}
              /\ targets \in {t \in SUBSET exists : t # {} /\ Cardinality(t) <= MaxTargets}
              /\ visited_nodes = targets
              /\ queue \in {[i \in DOMAIN s |-> <<s[i], 0>>] : s \in SetToSeqs(targets)}
              /\ results = {}

-----------------------------------------------------------------------------
is_impact_edge(type) == type \in {"Contains", "Drives"}

(* The sources of the incoming edges that are followed.                    *)
Sources(n) == {parent[n]} \cap (IF is_impact_edge(via[n]) THEN GraphNode ELSE {})

(* The targets of the outgoing Drives edges of a signal.                   *)
Driven(n) == {k \in GraphNode : n \in signals /\ parent[k] = n /\ via[k] = "Drives"}

(* queue.push_back for each node found, in the order of the edge list.     *)
Pushed(found, depth) == {[i \in DOMAIN s |-> <<s[i], depth>>] : s \in SetToSeqs(found)}

At(found, depth) == {<<depth, n>> : n \in found}

(* Mutant of CliLimit: the limit of the MCP server.                        *)
CliLimitLoose(depth) == depth > 3

(* `if depth >= 3 { continue; }`                                           *)
CliLimit(depth) == depth >= 3

(* cmd_impact: a node is marked before it is looked up, is reported one    *)
(* level below the node it was found from, and is searched from in turn.   *)
CliStep ==
  /\ tool = "cli" /\ queue # <<>>
  /\ LET n == Head(queue)[1]
         depth == Head(queue)[2]
         up == IF CliLimit(depth) THEN {} ELSE Sources(n) \ visited_nodes
         down == IF CliLimit(depth) THEN {} ELSE Driven(n) \ (visited_nodes \cup up)
         found == (up \cup down) \cap exists
     IN  /\ visited_nodes' = visited_nodes \cup up \cup down
         /\ results' = results \cup At(found, depth + 1)
         /\ \E s \in Pushed(up \cap exists, depth + 1), t \in Pushed(down \cap exists, depth + 1) :
              queue' = Tail(queue) \o s \o t
  /\ UNCHANGED graphVars

(* hdl_impact: only stored nodes are marked; what an incoming edge gives   *)
(* is reported at the depth of the node it was found from; what a signal   *)
(* drives is reported and not searched from.                               *)
McpStep ==
  /\ tool = "mcp" /\ queue # <<>>
  /\ LET n == Head(queue)[1]
         depth == Head(queue)[2]
         up == IF depth > 3 THEN {} ELSE (Sources(n) \cap exists) \ visited_nodes
         down == IF depth > 3 THEN {} ELSE (Driven(n) \cap exists) \ (visited_nodes \cup up)
     IN  /\ visited_nodes' = visited_nodes \cup up \cup down
         /\ results' = results \cup At(up, depth) \cup At(down, depth + 1)
         /\ \E s \in Pushed(up, depth + 1) : queue' = Tail(queue) \o s
  /\ UNCHANGED graphVars

ImpactNext == CliStep \/ McpStep

ImpactSpec == ImpactInit /\ [][ImpactNext]_impactVars

-----------------------------------------------------------------------------
(* Properties                                                              *)

(* The stored nodes one step away from a set of nodes.                     *)
Around(near, set) == (UNION {near[n] : n \in set}) \cap exists

(* Reference: the nodes at most d steps from the targets.                  *)
Ball(near, d) ==
  LET ball[k \in 0 .. d] == IF k = 0 THEN targets ELSE ball[k - 1] \cup Around(near, ball[k - 1])
  IN  ball[d]

(* In steps of either kind, and only against the direction of the edges.   *)
Within(d) == Ball([n \in GraphNode |-> Sources(n) \cup Driven(n)], d)
Above(d) == Ball([n \in GraphNode |-> Sources(n)], d)

(* "BFS up to depth 3": when the command line tool is through, exactly the *)
(* nodes at distance 1, 2 and 3 are reported, each with its distance,      *)
(* whichever of several targets is nearest and in whatever order the lists *)
(* hold the edges.  hdl_impact of the server leaves none of the nodes out  *)
(* that contain or drive a target over at most three steps, and reports    *)
(* none twice; how far it goes is the matter of McpStopsAtThree.           *)
ImpactIsExact ==
  queue = <<>> =>
    IF tool = "cli"
      THEN results = UNION {At(Within(d) \ Within(d - 1), d) : d \in 1 .. 3}
      ELSE /\ Above(3) \ targets \subseteq {r[2] : r \in results}
           /\ \A r, s \in results : r[2] = s[2] => r = s

(* "Uses BFS up to depth 3": hdl_impact reports nothing farther than three *)
(* steps from the targets.  Its limit is `depth > 3`, so the nodes at      *)
(* depth 3 are searched from as well.                                      *)
(* Does not hold (README, section 4).                                      *)
McpStopsAtThree == tool = "mcp" => {r[2] : r \in results} \subseteq Within(3)
=============================================================================
