---------------------------- MODULE AbstractGraph ----------------------------
(***************************************************************************)
(* What the `Graph` trait (crates/hdl-graph-core/src/graph.rs) promises to *)
(* the extractors, the incremental indexer and the query tools: a directed *)
(* multigraph.  There is ONE collection of edges here; get_outgoing(n) and *)
(* get_incoming(n) are two views of it.  GraphStore, the in-memory store   *)
(* that keeps two adjacency maps, is shown to implement this module.       *)
(***************************************************************************)
EXTENDS Naturals

CONSTANTS NodeId,     \* node identifiers (u64)
          EdgeType,   \* the edge types of edge.rs
          Label,      \* what a node's kind says of its name
          Absent      \* "no node has this id"

VARIABLES nodes,      \* NodeId -> Label or Absent
          edges       \* Edge -> how many copies the graph holds

vars == <<nodes, edges>>

Edge == [source : NodeId, target : NodeId, edge_type : EdgeType]

NoEdges == [e \in Edge |-> 0]

Init == /\ nodes = [i \in NodeId |-> Absent]
        /\ edges = NoEdges

(* A node is stored under an id; a node that was there is replaced and     *)
(* keeps its edges.                                                        *)
AddNode(i, label) == /\ nodes' = [nodes EXCEPT ![i] = label]
                     /\ UNCHANGED edges

(* An edge is one more copy; its endpoints need not exist.                 *)
AddEdge(e) == /\ edges' = [edges EXCEPT ![e] = @ + 1]
              /\ UNCHANGED nodes

(* A node leaves together with every edge that touches it.                 *)
RemoveNode(i) ==
  /\ nodes' = [nodes EXCEPT ![i] = Absent]
  /\ edges' = [e \in Edge |-> IF i \in {e.source, e.target} THEN 0 ELSE edges[e]]

(* Every copy of every type between the two nodes leaves.                  *)
RemoveEdge(s, t) ==
  /\ edges' = [e \in Edge |-> IF e.source = s /\ e.target = t THEN 0 ELSE edges[e]]
  /\ UNCHANGED nodes

Next == \/ \E i \in NodeId, label \in Label : AddNode(i, label)
        \/ \E e \in Edge : AddEdge(e)
        \/ \E i \in NodeId : RemoveNode(i)
        \/ \E s, t \in NodeId : RemoveEdge(s, t)

Spec == Init /\ [][Next]_vars
=============================================================================
