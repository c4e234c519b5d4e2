----------------------------- MODULE GraphStore ------------------------------
(***************************************************************************)
(* InMemoryGraph (crates/hdl-graph-storage/src/memory.rs): the node table, *)
(* the two adjacency maps, the name index, the store's own symbol table    *)
(* and the id counter, with one action per mutating method.                *)
(*                                                                         *)
(* A Vec<Edge> is a multiset: by_source[n][e] is the number of copies of e *)
(* in n's list (the order of a list is not observed by any property).      *)
(* A missing map key and an empty list are the same to every method, so    *)
(* the maps are total.  A GraphNode is reduced to what the store reads of  *)
(* it: the id and extract_name_id of its kind (its label).                 *)
(***************************************************************************)
EXTENDS Integers, FiniteSets

CONSTANTS MaxId,        \* ids are 0..MaxId (stands for u64::MAX)
          NumNames,     \* interned name ids are 0..NumNames-1
          Strings,      \* strings given to symbols.intern
          EdgeType,     \* edge types
          Unnamed,      \* extract_name_id = None
          Absent,       \* no node under this id
          NotInterned,  \* lookup has no such string
          MaxEdges,     \* bound: edges held at once
          MaxCopies     \* bound: copies of an id in one name list

NodeId == 0 .. MaxId
NameId == 0 .. NumNames - 1
Label == NameId \cup {Unnamed}
Edge == [source : NodeId, target : NodeId, edge_type : EdgeType]

ASSUME BoundsAssumption == MaxId \in Nat /\ NumNames \in Nat /\ MaxEdges \in Nat /\ MaxCopies \in Nat
ASSUME MarkersAssumption == Unnamed \notin NameId /\ Absent \notin Label /\ NotInterned \notin NameId

VARIABLES nodes,             \* node id -> label of the stored kind, or Absent
          by_source,         \* node id -> multiset of edges
          by_target,         \* node id -> multiset of edges
          by_interned_name,  \* name id -> multiset of node ids
          lookup,            \* symbols.lookup: string -> name id
          symbols_len,       \* symbols.strings.len()
          next_id,           \* the next automatic id
          given              \* history: the string add_node_with_name gave the live node

indexVars == <<by_interned_name, lookup, symbols_len>>
edgeVars == <<by_source, by_target>>
vars == <<nodes, by_source, by_target, by_interned_name, lookup, symbols_len, next_id, given>>

NoEdges == [e \in Edge |-> 0]
NoIds == [i \in NodeId |-> 0]

Init == /\ nodes = [i \in NodeId |-> Absent]
        /\ by_source = [i \in NodeId |-> NoEdges]
        /\ by_target = [i \in NodeId |-> NoEdges]
        /\ by_interned_name = [n \in NameId |-> NoIds]
        /\ lookup = [s \in Strings |-> NotInterned]
        /\ symbols_len = 0
        /\ next_id = 0
        /\ given = [i \in NodeId |-> NotInterned]

-----------------------------------------------------------------------------
(* add_node                                                                *)

(* Id 0 asks for the next automatic id.                                    *)
ChosenId(id) == IF id = 0 THEN next_id ELSE id

(* by_interned_name.entry(name_id).push(id): no check for a copy.          *)
Pushed(index, label, i) ==
  IF label \in NameId THEN [index EXCEPT ![label][i] = @ + 1] ELSE index

(* The parts of the store every way of adding a node changes.              *)
StoreNode(i, label) ==
  /\ nodes' = [nodes EXCEPT ![i] = label]
  /\ next_id' = IF i >= next_id THEN i + 1 ELSE next_id
  /\ UNCHANGED edgeVars

(* Bounds: the id fits, and the name list has room.                        *)
Room(i, label) ==
  /\ i \in NodeId
  /\ label \in NameId => by_interned_name[label][i] < MaxCopies

AddNode(id, label) ==
  LET i == ChosenId(id) IN
  /\ Room(i, label)
  /\ StoreNode(i, label)
  /\ by_interned_name' = Pushed(by_interned_name, label, i)
  /\ given' = [given EXCEPT ![i] = NotInterned]
  /\ UNCHANGED <<lookup, symbols_len>>

-----------------------------------------------------------------------------
(* The symbol table, and add_node_with_name                                *)

InternedId(s) == IF lookup[s] = NotInterned THEN symbols_len ELSE lookup[s]

(* SymbolTable::intern                                                     *)
InternString(s) ==
  /\ InternedId(s) \in NameId                             \* bound
  /\ lookup' = [lookup EXCEPT ![s] = InternedId(s)]
  /\ symbols_len' = IF lookup[s] = NotInterned THEN symbols_len + 1 ELSE symbols_len

(* symbols_mut().intern(s): the caller interns a name before building nodes.*)
Intern(s) == /\ InternString(s)
             /\ UNCHANGED <<nodes, by_source, by_target, by_interned_name, next_id, given>>

(* The second index entry, under the store's own id for the name, is only  *)
(* pushed when the list does not hold the id yet.                          *)
Aliased(index, n, i) == IF index[n][i] = 0 THEN [index EXCEPT ![n][i] = 1] ELSE index

AddNodeWithName(id, label, s) ==
  LET i == ChosenId(id) IN
  /\ Room(i, label)
  /\ InternString(s)
  /\ StoreNode(i, label)
  /\ by_interned_name' = Aliased(Pushed(by_interned_name, label, i), InternedId(s), i)
  /\ given' = [given EXCEPT ![i] = s]

-----------------------------------------------------------------------------
(* add_edge, remove_node, remove_edge                                      *)

Has(bag, e) == bag[e] > 0

AddEdge(e) ==
  /\ Cardinality({f \in Edge : Has(by_source[f.source], f)}) < MaxEdges   \* bound
  /\ by_source[e.source][e] < MaxCopies                                   \* bound
  /\ by_source' = [by_source EXCEPT ![e.source][e] = @ + 1]
  /\ by_target' = [by_target EXCEPT ![e.target][e] = @ + 1]
  /\ UNCHANGED <<nodes, by_interned_name, lookup, symbols_len, next_id, given>>

(* Mutant of Unindexed: the whole list of the name is dropped.             *)
UnindexedWholeList(index, i) ==
  IF nodes[i] \in NameId THEN [index EXCEPT ![nodes[i]] = NoIds] ELSE index

(* ids.retain(|nid| nid != id) in the list of the node's OWN name only.    *)
Unindexed(index, i) ==
  IF nodes[i] \in NameId THEN [index EXCEPT ![nodes[i]][i] = 0] ELSE index

(* Mutant of TargetsWithout: the walk over the outgoing list is forgotten. *)
TargetsUnfiltered(i) == [t \in NodeId |-> by_target[t]]

(* by_target after the walk over the outgoing list of the removed node:    *)
(* only the lists of the targets found there are filtered.                 *)
TargetsWithout(i) ==
  [t \in NodeId |->
     IF \E e \in Edge : Has(by_source[i], e) /\ e.target = t
       THEN [e \in Edge |-> IF e.source = i THEN 0 ELSE by_target[t][e]]
       ELSE by_target[t]]

(* by_source after i's own list is gone and the remaining incoming list    *)
(* (tgt) of i has been walked.                                             *)
SourcesWithout(i, tgt) ==
  [s \in NodeId |->
     IF s = i THEN NoEdges
     ELSE IF \E e \in Edge : Has(tgt, e) /\ e.source = s
       THEN [e \in Edge |-> IF e.target = i THEN 0 ELSE by_source[s][e]]
       ELSE by_source[s]]

RemoveNode(i) ==
  /\ by_interned_name' = Unindexed(by_interned_name, i)
  /\ by_source' = SourcesWithout(i, TargetsWithout(i)[i])
  /\ by_target' = [TargetsWithout(i) EXCEPT ![i] = NoEdges]
  /\ nodes' = [nodes EXCEPT ![i] = Absent]
  /\ given' = [given EXCEPT ![i] = NotInterned]
  /\ UNCHANGED <<lookup, symbols_len, next_id>>

(* Mutant of Without: one copy leaves instead of all of them.              *)
WithoutOneCopy(bag, s, t) ==
  [e \in Edge |-> IF e.source = s /\ e.target = t /\ Has(bag, e) THEN bag[e] - 1 ELSE bag[e]]

(* edges.retain(|e| e.source != source || e.target != target)              *)
Without(bag, s, t) ==
  [e \in Edge |-> IF e.source = s /\ e.target = t THEN 0 ELSE bag[e]]

RemoveEdge(s, t) ==
  /\ by_source' = [by_source EXCEPT ![s] = Without(@, s, t)]
  /\ by_target' = [by_target EXCEPT ![t] = Without(@, s, t)]
  /\ UNCHANGED <<nodes, by_interned_name, lookup, symbols_len, next_id, given>>

-----------------------------------------------------------------------------
Next == \/ \E id \in NodeId, label \in Label : AddNode(id, label)
        \/ \E id \in NodeId, label \in Label, s \in Strings : AddNodeWithName(id, label, s)
        \/ \E s \in Strings : Intern(s)
        \/ \E e \in Edge : AddEdge(e)
        \/ \E i \in NodeId : RemoveNode(i)
        \/ \E s, t \in NodeId : RemoveEdge(s, t)

Spec == Init /\ [][Next]_vars

-----------------------------------------------------------------------------
(* The lookups                                                             *)

Live == {i \in NodeId : nodes[i] # Absent}

get_by_interned_name(n) == {i \in NodeId : by_interned_name[n][i] > 0}

get_by_name(s) ==
  IF lookup[s] = NotInterned THEN {} ELSE get_by_interned_name(lookup[s]) \cap Live

-----------------------------------------------------------------------------
(* Properties                                                              *)

(* Types of the store's fields.                                            *)
TypeOK == /\ nodes \in [NodeId -> Label \cup {Absent}]
          /\ by_source \in [NodeId -> [Edge -> Nat]]
          /\ by_target \in [NodeId -> [Edge -> Nat]]
          /\ by_interned_name \in [NameId -> [NodeId -> Nat]]
          /\ lookup \in [Strings -> NameId \cup {NotInterned}]
          /\ symbols_len \in Nat
          /\ next_id \in Nat
          /\ given \in [NodeId -> Strings \cup {NotInterned}]

(* The two adjacency maps describe one set of edges: an edge is in its     *)
(* source's outgoing list exactly as often as in its target's incoming     *)
(* list, and in no other node's list.  add_edge, remove_node and           *)
(* remove_edge update the maps one after the other, through lists found in *)
(* the other map.                                                          *)
EdgesMirrored ==
  /\ \A e \in Edge : by_source[e.source][e] = by_target[e.target][e]
  /\ \A e \in Edge, i \in NodeId : e.source # i => by_source[i][e] = 0
  /\ \A e \in Edge, i \in NodeId : e.target # i => by_target[i][e] = 0

(* The automatic id is above every id in use, so add_node with id 0 never  *)
(* overwrites a stored node, whatever mix of explicit and automatic ids    *)
(* and removals came before.                                               *)
NextIdIsFree == \A i \in Live : i < next_id

(* Every stored node is found under the name its kind carries, and under   *)
(* the string add_node_with_name gave it, for as long as it is stored:     *)
(* removing, replacing or renaming other nodes loses no entry.             *)
StoredNodesAreFound ==
  \A i \in Live :
    /\ nodes[i] \in NameId => i \in get_by_interned_name(nodes[i])
    /\ given[i] # NotInterned => i \in get_by_name(given[i])

Abstract == INSTANCE AbstractGraph WITH edges <- [e \in Edge |-> by_source[e.source][e]]

(* InMemoryGraph is the multigraph that the Graph trait promises: each call*)
(* of the store is a call of the abstract graph with the same effect on    *)
(* its nodes and edges, or changes neither.                                *)
ImplementsAbstractGraph == Abstract!Spec
=============================================================================
