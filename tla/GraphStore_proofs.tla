-------------------------- MODULE GraphStore_proofs --------------------------
(***************************************************************************)
(* Proofs about the in-memory graph store, for every number of ids, names, *)
(* strings and edge types and every bound, and about the persistent store, *)
(* for every set of threads and types, ids of two bytes and every length   *)
(* of its log.                                                             *)
(***************************************************************************)
EXTENDS GraphStore, RocksStore, FiniteSetTheorems, SequenceTheorems, TLAPS

USE DEF NodeId, NameId, Label

-----------------------------------------------------------------------------
(* Facts about the helpers                                                 *)

(* An edge's endpoints are node ids.                                       *)
LEMMA EdgeEnds == \A e \in Edge : e.source \in NodeId /\ e.target \in NodeId
  BY DEF Edge

(* Filtering a list by endpoints keeps it a list of edges.                 *)
LEMMA WithoutType ==
  ASSUME NEW bag \in [Edge -> Nat], NEW s, NEW t
  PROVE  Without(bag, s, t) \in [Edge -> Nat]
  BY DEF Without

(* The two maps remove_node leaves behind have the maps' type.             *)
LEMMA RemovalTypes ==
  ASSUME TypeOK, NEW i \in NodeId
  PROVE  /\ TargetsWithout(i) \in [NodeId -> [Edge -> Nat]]
         /\ \A tgt : SourcesWithout(i, tgt) \in [NodeId -> [Edge -> Nat]]
  BY DEF TypeOK, TargetsWithout, SourcesWithout, NoEdges

(* add_node's index entry keeps the type of the index.                     *)
LEMMA PushedType ==
  ASSUME NEW index \in [NameId -> [NodeId -> Nat]], NEW label, NEW i \in NodeId
  PROVE  Pushed(index, label, i) \in [NameId -> [NodeId -> Nat]]
<1> HIDE DEF NameId, NodeId
<1>1. CASE label \in NameId
  <2>1. index[label] \in [NodeId -> Nat] /\ index[label][i] + 1 \in Nat
    BY <1>1
  <2> DEFINE entry == [index[label] EXCEPT ![i] = index[label][i] + 1]
  <2>2. entry \in [NodeId -> Nat]
    BY <2>1
  <2>3. Pushed(index, label, i) = [index EXCEPT ![label] = entry]
    BY <1>1 DEF Pushed
  <2> QED BY <1>1, <2>2, <2>3
<1>2. CASE label \notin NameId
  BY <1>2 DEF Pushed
<1> QED BY <1>1, <1>2

(* So does the second entry of add_node_with_name.                         *)
LEMMA AliasedType ==
  ASSUME NEW index \in [NameId -> [NodeId -> Nat]], NEW n \in NameId, NEW i \in NodeId
  PROVE  Aliased(index, n, i) \in [NameId -> [NodeId -> Nat]]
  BY DEF Aliased

(* What storing a node does to the types of the fields it touches.         *)
LEMMA StoreNodeType ==
  ASSUME TypeOK, NEW i \in NodeId, NEW label \in Label, StoreNode(i, label)
  PROVE  /\ nodes' \in [NodeId -> Label \cup {Absent}]
         /\ next_id' \in Nat
         /\ by_source' = by_source /\ by_target' = by_target
  BY BoundsAssumption DEF TypeOK, StoreNode, edgeVars

(* What interning a string does to the symbol table's types.               *)
LEMMA InternType ==
  ASSUME TypeOK, NEW s \in Strings, InternString(s)
  PROVE  /\ lookup' \in [Strings -> NameId \cup {NotInterned}]
         /\ symbols_len' \in Nat
  BY DEF TypeOK, InternString

-----------------------------------------------------------------------------
(* Type correctness                                                        *)

(* Every method of the store keeps the types.                              *)
LEMMA TypeInductive == TypeOK /\ [Next]_vars => TypeOK'
<1> SUFFICES ASSUME TypeOK, [Next]_vars PROVE TypeOK'
  OBVIOUS
<1>1. ASSUME NEW id \in NodeId, NEW label \in Label, AddNode(id, label) PROVE TypeOK'
  <2> DEFINE i == ChosenId(id)
  <2>1. i \in NodeId /\ StoreNode(i, label)
    BY <1>1 DEF AddNode, Room
  <2>2. by_interned_name' \in [NameId -> [NodeId -> Nat]]
    BY <1>1, <2>1, PushedType DEF AddNode, TypeOK
  <2>3. given' \in [NodeId -> Strings \cup {NotInterned}] /\ UNCHANGED <<lookup, symbols_len>>
    BY <1>1 DEF AddNode, TypeOK
  <2> HIDE DEF i
  <2> QED BY <2>1, <2>2, <2>3, StoreNodeType DEF TypeOK
<1>2. ASSUME NEW id \in NodeId, NEW label \in Label, NEW s \in Strings, AddNodeWithName(id, label, s)
      PROVE  TypeOK'
  <2> DEFINE i == ChosenId(id)
  <2>1. i \in NodeId /\ StoreNode(i, label) /\ InternString(s) /\ InternedId(s) \in NameId
    BY <1>2 DEF AddNodeWithName, Room, InternString
  <2>2. by_interned_name' \in [NameId -> [NodeId -> Nat]]
    BY <1>2, <2>1, PushedType, AliasedType DEF AddNodeWithName, TypeOK
  <2>3. given' \in [NodeId -> Strings \cup {NotInterned}]
    BY <1>2 DEF AddNodeWithName, TypeOK
  <2> HIDE DEF i
  <2> QED BY <2>1, <2>2, <2>3, StoreNodeType, InternType DEF TypeOK
<1>3. ASSUME NEW s \in Strings, Intern(s) PROVE TypeOK'
  BY <1>3, InternType DEF Intern, TypeOK
<1>4. ASSUME NEW e \in Edge, AddEdge(e) PROVE TypeOK'
  BY <1>4, EdgeEnds DEF AddEdge, TypeOK
<1>5. ASSUME NEW i \in NodeId, RemoveNode(i) PROVE TypeOK'
  <2>1. by_source' \in [NodeId -> [Edge -> Nat]]
    BY <1>5, RemovalTypes DEF RemoveNode
  <2>2. by_target' \in [NodeId -> [Edge -> Nat]]
    BY <1>5, RemovalTypes DEF RemoveNode, NoEdges
  <2>3. by_interned_name' \in [NameId -> [NodeId -> Nat]]
    BY <1>5 DEF RemoveNode, Unindexed, TypeOK
  <2>4. /\ nodes' \in [NodeId -> Label \cup {Absent}]
        /\ given' \in [NodeId -> Strings \cup {NotInterned}]
        /\ UNCHANGED <<lookup, symbols_len, next_id>>
    BY <1>5 DEF RemoveNode, TypeOK
  <2> QED BY <2>1, <2>2, <2>3, <2>4 DEF TypeOK
<1>6. ASSUME NEW s \in NodeId, NEW t \in NodeId, RemoveEdge(s, t) PROVE TypeOK'
  BY <1>6, WithoutType DEF RemoveEdge, TypeOK
<1>7. CASE UNCHANGED vars
  BY <1>7 DEF vars, TypeOK
<1> QED BY <1>1, <1>2, <1>3, <1>4, <1>5, <1>6, <1>7 DEF Next

(* The empty store.                                                        *)
LEMMA TypeInitially == Init => TypeOK
  BY DEF Init, TypeOK, NoEdges, NoIds

(* Every reachable state of the store is well typed.                       *)
THEOREM TypeCorrect == Spec => []TypeOK
  BY TypeInitially, TypeInductive, PTL DEF Spec

-----------------------------------------------------------------------------
(* The two adjacency maps                                                  *)

(* While the maps mirror each other, walking the outgoing list of a node   *)
(* finds every incoming list that mentions it.                             *)
LEMMA TargetsAfter ==
  ASSUME TypeOK, EdgesMirrored, NEW i \in NodeId
  PROVE  \A t \in NodeId, e \in Edge :
           TargetsWithout(i)[t][e] = IF e.source = i THEN 0 ELSE by_target[t][e]
<1> SUFFICES ASSUME NEW t \in NodeId, NEW e \in Edge
             PROVE  TargetsWithout(i)[t][e] = IF e.source = i THEN 0 ELSE by_target[t][e]
  OBVIOUS
<1> HIDE DEF NodeId
<1> DEFINE found == \E f \in Edge : Has(by_source[i], f) /\ f.target = t
<1>1. CASE found
  BY <1>1 DEF TargetsWithout
<1>2. CASE ~found
  <2>1. TargetsWithout(i)[t][e] = by_target[t][e]
    BY <1>2 DEF TargetsWithout
  <2>2. ASSUME e.source = i, e.target = t PROVE by_target[t][e] = 0
    <3>1. by_target[t][e] = by_source[i][e]
      BY <2>2 DEF EdgesMirrored
    <3>2. by_source[i][e] \in Nat
      BY DEF TypeOK
    <3>3. ~(by_source[i][e] > 0)
      BY <1>2, <2>2 DEF Has
    <3> QED BY <3>1, <3>2, <3>3
  <2>3. ASSUME e.target # t PROVE by_target[t][e] = 0
    BY <2>3 DEF EdgesMirrored
  <2> QED BY <2>1, <2>2, <2>3
<1> QED BY <1>1, <1>2

(* The same for the walk over what is left of the incoming list.           *)
LEMMA SourcesAfter ==
  ASSUME TypeOK, EdgesMirrored, NEW i \in NodeId
  PROVE  \A s \in NodeId, e \in Edge :
           SourcesWithout(i, TargetsWithout(i)[i])[s][e]
             = IF s = i \/ e.target = i THEN 0 ELSE by_source[s][e]
<1> SUFFICES ASSUME NEW s \in NodeId, NEW e \in Edge
             PROVE  SourcesWithout(i, TargetsWithout(i)[i])[s][e]
                      = IF s = i \/ e.target = i THEN 0 ELSE by_source[s][e]
  OBVIOUS
<1> HIDE DEF NodeId
<1> DEFINE tgt == TargetsWithout(i)[i]
           found == \E f \in Edge : Has(tgt, f) /\ f.source = s
<1>1. CASE s = i
  BY <1>1 DEF SourcesWithout, NoEdges
<1>2. CASE s # i /\ found
  <2>1. SourcesWithout(i, tgt)[s] = [f \in Edge |-> IF f.target = i THEN 0 ELSE by_source[s][f]]
    BY <1>2 DEF SourcesWithout
  <2> QED BY <1>2, <2>1
<1>3. CASE s # i /\ ~found
  <2>1. SourcesWithout(i, tgt)[s] = by_source[s]
    BY <1>3 DEF SourcesWithout
  <2>2. ASSUME e.source = s, e.target = i PROVE by_source[s][e] = 0
    <3>1. by_source[s][e] = by_target[i][e]
      BY <2>2 DEF EdgesMirrored
    <3>2. tgt[e] = by_target[i][e]
      BY <1>3, <2>2, TargetsAfter
    <3>3. ~(tgt[e] > 0)
      BY <1>3, <2>2 DEF Has
    <3>4. by_source[s][e] \in Nat
      BY DEF TypeOK
    <3> QED BY <3>1, <3>2, <3>3, <3>4
  <2>3. ASSUME e.source # s PROVE by_source[s][e] = 0
    BY <2>3 DEF EdgesMirrored
  <2> QED BY <1>3, <2>1, <2>2, <2>3
<1> QED BY <1>1, <1>2, <1>3

(* remove_node, seen through the two maps.                                 *)
LEMMA RemovedMaps ==
  ASSUME TypeOK, EdgesMirrored, NEW i \in NodeId, RemoveNode(i)
  PROVE  \A k \in NodeId, e \in Edge :
           /\ by_source'[k][e] = IF k = i \/ e.target = i THEN 0 ELSE by_source[k][e]
           /\ by_target'[k][e] = IF k = i \/ e.source = i THEN 0 ELSE by_target[k][e]
<1> SUFFICES ASSUME NEW k \in NodeId, NEW e \in Edge
             PROVE  /\ by_source'[k][e] = IF k = i \/ e.target = i THEN 0 ELSE by_source[k][e]
                    /\ by_target'[k][e] = IF k = i \/ e.source = i THEN 0 ELSE by_target[k][e]
  OBVIOUS
<1> HIDE DEF NodeId
<1>1. by_source'[k][e] = IF k = i \/ e.target = i THEN 0 ELSE by_source[k][e]
  BY SourcesAfter DEF RemoveNode
<1>2. by_target' = [TargetsWithout(i) EXCEPT ![i] = NoEdges] /\ DOMAIN TargetsWithout(i) = NodeId
  BY DEF RemoveNode, TargetsWithout
<1>3. CASE k = i
  BY <1>1, <1>2, <1>3 DEF NoEdges
<1>4. CASE k # i
  BY <1>1, <1>2, <1>4, TargetsAfter
<1> QED BY <1>3, <1>4

(* Every method changes both maps or neither.                              *)
LEMMA MirrorInductive == TypeOK /\ EdgesMirrored /\ [Next]_vars => EdgesMirrored'
<1> SUFFICES ASSUME TypeOK, EdgesMirrored, [Next]_vars PROVE EdgesMirrored'
  OBVIOUS
<1> HIDE DEF NodeId, NameId, Label
<1>1. ASSUME NEW id \in NodeId, NEW label \in Label, AddNode(id, label) PROVE EdgesMirrored'
  BY <1>1 DEF AddNode, StoreNode, edgeVars, EdgesMirrored
<1>2. ASSUME NEW id \in NodeId, NEW label \in Label, NEW s \in Strings, AddNodeWithName(id, label, s)
      PROVE  EdgesMirrored'
  BY <1>2 DEF AddNodeWithName, StoreNode, edgeVars, EdgesMirrored
<1>3. ASSUME NEW s \in Strings, Intern(s) PROVE EdgesMirrored'
  BY <1>3 DEF Intern, EdgesMirrored
<1>4. ASSUME NEW e \in Edge, AddEdge(e) PROVE EdgesMirrored'
  BY <1>4, EdgeEnds DEF AddEdge, EdgesMirrored, TypeOK
<1>5. ASSUME NEW i \in NodeId, RemoveNode(i) PROVE EdgesMirrored'
  BY <1>5, RemovedMaps, EdgeEnds DEF EdgesMirrored
<1>6. ASSUME NEW s \in NodeId, NEW t \in NodeId, RemoveEdge(s, t) PROVE EdgesMirrored'
  BY <1>6, EdgeEnds DEF RemoveEdge, Without, EdgesMirrored, TypeOK
<1>7. CASE UNCHANGED vars
  BY <1>7 DEF vars, EdgesMirrored
<1> QED BY <1>1, <1>2, <1>3, <1>4, <1>5, <1>6, <1>7 DEF Next

(* No edges in either map.                                                 *)
LEMMA MirrorInitially == Init => EdgesMirrored
  BY EdgeEnds DEF Init, EdgesMirrored, NoEdges

(* The outgoing and the incoming map always describe the same edges.       *)
THEOREM MirrorCorrect == Spec => []EdgesMirrored
  BY TypeInitially, TypeInductive, MirrorInitially, MirrorInductive, PTL DEF Spec

-----------------------------------------------------------------------------
(* Ids and names                                                           *)

(* Storing a node moves the counter past its id.                           *)
LEMMA NextIdInductive == TypeOK /\ NextIdIsFree /\ [Next]_vars => NextIdIsFree'
<1> SUFFICES ASSUME TypeOK, NextIdIsFree, [Next]_vars PROVE NextIdIsFree'
  OBVIOUS
<1>1. ASSUME NEW i \in NodeId, NEW label \in Label, StoreNode(i, label) PROVE NextIdIsFree'
  BY <1>1, BoundsAssumption DEF StoreNode, NextIdIsFree, Live, TypeOK
<1>2. ASSUME NEW id \in NodeId, NEW label \in Label, AddNode(id, label) PROVE NextIdIsFree'
  BY <1>1, <1>2 DEF AddNode, Room
<1>3. ASSUME NEW id \in NodeId, NEW label \in Label, NEW s \in Strings, AddNodeWithName(id, label, s)
      PROVE  NextIdIsFree'
  BY <1>1, <1>3 DEF AddNodeWithName, Room
<1>4. ASSUME NEW i \in NodeId, RemoveNode(i) PROVE NextIdIsFree'
  BY <1>4 DEF RemoveNode, NextIdIsFree, Live, TypeOK
<1>5. CASE UNCHANGED <<nodes, next_id>>
  BY <1>5 DEF NextIdIsFree, Live
<1> QED BY <1>2, <1>3, <1>4, <1>5 DEF Next, Intern, AddEdge, RemoveEdge, vars

(* An automatic id never belongs to a stored node.                         *)
THEOREM NextIdCorrect == Spec => []NextIdIsFree
<1>1. Init => NextIdIsFree
  BY DEF Init, NextIdIsFree, Live
<1> QED BY <1>1, TypeInitially, TypeInductive, NextIdInductive, PTL DEF Spec

(* add_node and add_node_with_name only add index entries.                 *)
LEMMA IndexGrows ==
  ASSUME NEW index \in [NameId -> [NodeId -> Nat]], NEW i \in NodeId, NEW label \in Label
  PROVE  /\ \A n \in NameId, k \in NodeId : index[n][k] > 0 => Pushed(index, label, i)[n][k] > 0
         /\ label \in NameId => Pushed(index, label, i)[label][i] > 0
         /\ \A m \in NameId :
              /\ \A n \in NameId, k \in NodeId : index[n][k] > 0 => Aliased(index, m, i)[n][k] > 0
              /\ Aliased(index, m, i)[m][i] > 0
<1> HIDE DEF NodeId, NameId, Label
<1>1. \A n \in NameId, k \in NodeId : index[n][k] > 0 => Pushed(index, label, i)[n][k] > 0
  BY DEF Pushed
<1>2. label \in NameId => Pushed(index, label, i)[label][i] > 0
  BY DEF Pushed
<1>3. ASSUME NEW m \in NameId
      PROVE  /\ \A n \in NameId, k \in NodeId : index[n][k] > 0 => Aliased(index, m, i)[n][k] > 0
             /\ Aliased(index, m, i)[m][i] > 0
  BY DEF Aliased
<1> QED BY <1>1, <1>2, <1>3

(* StoredNodesAreFound without the lookups: what the induction carries.    *)
Found(i) ==
  nodes[i] # Absent =>
    /\ nodes[i] \in NameId => by_interned_name[nodes[i]][i] > 0
    /\ given[i] # NotInterned => /\ lookup[given[i]] \in NameId
                                 /\ by_interned_name[lookup[given[i]]][i] > 0

(* StoredNodesAreFound, node by node.                                      *)
LEMMA FoundIsEnough == TypeOK => (StoredNodesAreFound <=> \A i \in NodeId : Found(i))
<1> HIDE DEF NodeId, NameId, Label
<1> SUFFICES ASSUME TypeOK PROVE StoredNodesAreFound <=> \A i \in NodeId : Found(i)
  OBVIOUS
<1>1. \A i \in NodeId : given[i] # NotInterned => /\ given[i] \in Strings
                                                  /\ lookup[given[i]] \in NameId \cup {NotInterned}
  BY DEF TypeOK
<1> QED BY <1>1, MarkersAssumption
        DEF StoredNodesAreFound, Found, Live, get_by_interned_name, get_by_name

(* A node stays found, whatever is stored over or beside it.               *)
LEMMA FoundInductive ==
  TypeOK /\ (\A i \in NodeId : Found(i)) /\ [Next]_vars => (\A i \in NodeId : Found(i))'
<1> SUFFICES ASSUME TypeOK, \A k \in NodeId : Found(k), [Next]_vars, NEW k \in NodeId
             PROVE  Found(k)'
  BY DEF NodeId
<1> HIDE DEF NodeId, NameId, Label
<1>1. ASSUME NEW id \in NodeId, NEW label \in Label, AddNode(id, label) PROVE Found(k)'
  <2> DEFINE i == ChosenId(id)
  <2>1. /\ i \in NodeId /\ by_interned_name' = Pushed(by_interned_name, label, i)
        /\ nodes' = [nodes EXCEPT ![i] = label]
        /\ given' = [given EXCEPT ![i] = NotInterned]
        /\ lookup' = lookup
    BY <1>1 DEF AddNode, Room, StoreNode
  <2> HIDE DEF i
  <2>2. CASE k = i
    BY <2>1, <2>2, IndexGrows DEF Found, TypeOK
  <2>3. CASE k # i
    <3>1. nodes'[k] = nodes[k] /\ given'[k] = given[k]
      BY <2>1, <2>3 DEF TypeOK
    <3>2. nodes[k] \in NameId /\ by_interned_name[nodes[k]][k] > 0
            => by_interned_name'[nodes[k]][k] > 0
      BY <2>1, IndexGrows DEF TypeOK
    <3>3. lookup[given[k]] \in NameId /\ by_interned_name[lookup[given[k]]][k] > 0
            => by_interned_name'[lookup[given[k]]][k] > 0
      BY <2>1, IndexGrows DEF TypeOK
    <3> QED BY <2>1, <3>1, <3>2, <3>3 DEF Found
  <2> QED BY <2>2, <2>3
<1>2. ASSUME NEW id \in NodeId, NEW label \in Label, NEW s \in Strings, AddNodeWithName(id, label, s)
      PROVE  Found(k)'
  <2> DEFINE i == ChosenId(id)
             n == InternedId(s)
             pushed == Pushed(by_interned_name, label, i)
  <2>1. /\ i \in NodeId /\ n \in NameId
        /\ by_interned_name' = Aliased(pushed, n, i)
        /\ nodes' = [nodes EXCEPT ![i] = label]
        /\ given' = [given EXCEPT ![i] = s]
        /\ lookup' = [lookup EXCEPT ![s] = n]
        /\ lookup[s] = NotInterned \/ lookup[s] = n
    BY <1>2 DEF AddNodeWithName, Room, StoreNode, InternString, InternedId
  <2> HIDE DEF i, n
  <2>2. pushed \in [NameId -> [NodeId -> Nat]]
    BY <2>1, PushedType DEF TypeOK
  <2>3. /\ \A m \in NameId, j \in NodeId : by_interned_name[m][j] > 0 => by_interned_name'[m][j] > 0
        /\ label \in NameId => by_interned_name'[label][i] > 0
        /\ by_interned_name'[n][i] > 0
    BY <2>1, <2>2, IndexGrows DEF TypeOK
  <2>4. CASE k = i
    BY <2>1, <2>3, <2>4 DEF Found, TypeOK
  <2>5. CASE k # i
    <3>1. nodes'[k] = nodes[k] /\ given'[k] = given[k]
      BY <2>1, <2>5 DEF TypeOK
    <3>2. lookup[given[k]] \in NameId /\ given[k] \in Strings => lookup'[given[k]] = lookup[given[k]]
      BY <2>1, MarkersAssumption DEF TypeOK
    <3>3. given[k] # NotInterned => given[k] \in Strings
      BY DEF TypeOK
    <3>4. Found(k)
      OBVIOUS
    <3> QED BY <2>3, <3>1, <3>2, <3>3, <3>4 DEF Found
  <2> QED BY <2>4, <2>5
<1>3. ASSUME NEW s \in Strings, Intern(s) PROVE Found(k)'
  <2>1. \A r \in Strings : lookup[r] \in NameId => lookup'[r] = lookup[r]
    BY <1>3, MarkersAssumption DEF Intern, InternString, InternedId, TypeOK
  <2>2. given[k] # NotInterned => given[k] \in Strings
    BY DEF TypeOK
  <2>3. Found(k) /\ UNCHANGED <<nodes, by_interned_name, given>>
    BY <1>3 DEF Intern
  <2> QED BY <2>1, <2>2, <2>3 DEF Found
<1>4. ASSUME NEW i \in NodeId, RemoveNode(i) PROVE Found(k)'
  <2>1. CASE k = i
    BY <1>4, <2>1 DEF RemoveNode, Found, TypeOK
  <2>2. CASE k # i
    <3>1. nodes'[k] = nodes[k] /\ given'[k] = given[k] /\ lookup' = lookup
      BY <1>4, <2>2 DEF RemoveNode, TypeOK
    <3>2. \A n \in NameId : by_interned_name'[n][k] = by_interned_name[n][k]
      BY <1>4, <2>2 DEF RemoveNode, Unindexed, TypeOK
    <3> QED BY <3>1, <3>2 DEF Found
  <2> QED BY <2>1, <2>2
<1>5. CASE UNCHANGED <<nodes, by_interned_name, lookup, given>>
  BY <1>5 DEF Found
<1> QED BY <1>1, <1>2, <1>3, <1>4, <1>5 DEF Next, AddEdge, RemoveEdge, vars

(* A stored node never drops out of the name lists it must be found in.    *)
THEOREM NamesCorrect == Spec => []StoredNodesAreFound
<1>1. Init => \A i \in NodeId : Found(i)
  BY DEF Init, Found
<1> QED BY <1>1, TypeInitially, TypeInductive, FoundInductive, FoundIsEnough, PTL DEF Spec

-----------------------------------------------------------------------------
(* Refinement                                                              *)

(* The edges of the abstract graph that a state of the store stands for.   *)
AbstractEdges == [e \in Edge |-> by_source[e.source][e]]

(* The empty store is the empty multigraph.                                *)
LEMMA RefinesInit == Init => Abstract!Init
  BY EdgeEnds DEF Init, Abstract!Init, Abstract!NoEdges, Abstract!Edge, Edge, NoEdges

(* Every method is a step of the multigraph, or leaves it alone.           *)
LEMMA RefinesStep == TypeOK /\ EdgesMirrored /\ [Next]_vars => [Abstract!Next]_(Abstract!vars)
<1> SUFFICES ASSUME TypeOK, EdgesMirrored, [Next]_vars PROVE [Abstract!Next]_(Abstract!vars)
  OBVIOUS
<1> USE DEF AbstractEdges
<1>0. Abstract!Edge = Edge
  BY DEF Abstract!Edge, Edge
<1> HIDE DEF NodeId, NameId, Label
<1>1. ASSUME NEW i \in NodeId, NEW label \in Label, StoreNode(i, label)
      PROVE  Abstract!Next
  <2>1. Abstract!AddNode(i, label)
    BY <1>1 DEF StoreNode, edgeVars, Abstract!AddNode
  <2> QED BY <2>1 DEF Abstract!Next
<1>2. ASSUME NEW id \in NodeId, NEW label \in Label, AddNode(id, label) PROVE Abstract!Next
  BY <1>1, <1>2 DEF AddNode, Room
<1>3. ASSUME NEW id \in NodeId, NEW label \in Label, NEW s \in Strings, AddNodeWithName(id, label, s)
      PROVE  Abstract!Next
  BY <1>1, <1>3 DEF AddNodeWithName, Room
<1>4. ASSUME NEW e \in Edge, AddEdge(e) PROVE Abstract!Next
  <2>1. AbstractEdges' = [AbstractEdges EXCEPT ![e] = @ + 1]
    BY <1>4, EdgeEnds DEF AddEdge, TypeOK
  <2>2. Abstract!AddEdge(e)
    BY <1>4, <2>1 DEF AddEdge, Abstract!AddEdge
  <2> QED BY <1>0, <2>2 DEF Abstract!Next
<1>5. ASSUME NEW i \in NodeId, RemoveNode(i) PROVE Abstract!Next
  <2>1. \A e \in Edge : by_source'[e.source][e]
                          = IF i \in {e.source, e.target} THEN 0 ELSE by_source[e.source][e]
    BY <1>5, RemovedMaps, EdgeEnds
  <2>2. Abstract!RemoveNode(i)
    BY <1>0, <1>5, <2>1 DEF RemoveNode, Abstract!RemoveNode
  <2> QED BY <2>2 DEF Abstract!Next
<1>6. ASSUME NEW s \in NodeId, NEW t \in NodeId, RemoveEdge(s, t) PROVE Abstract!Next
  <2>1. \A e \in Edge : by_source'[e.source][e]
                          = IF e.source = s /\ e.target = t THEN 0 ELSE by_source[e.source][e]
    BY <1>6, EdgeEnds DEF RemoveEdge, Without, TypeOK
  <2>2. Abstract!RemoveEdge(s, t)
    BY <1>0, <1>6, <2>1 DEF RemoveEdge, Abstract!RemoveEdge
  <2> QED BY <2>2 DEF Abstract!Next
<1>7. CASE UNCHANGED <<nodes, by_source>>
  BY <1>7 DEF Abstract!vars
<1> QED BY <1>2, <1>3, <1>4, <1>5, <1>6, <1>7 DEF Next, Intern, vars

(* The store implements the multigraph the Graph trait promises.           *)
THEOREM Refinement == Spec => ImplementsAbstractGraph
  BY RefinesInit, RefinesStep, TypeInitially, TypeInductive, MirrorInitially, MirrorInductive, PTL
     DEF Spec, ImplementsAbstractGraph, Abstract!Spec

-----------------------------------------------------------------------------
(* The persistent store                                                    *)

HIDE DEF NodeId, NameId, Label

(* A put of some write of the log.                                         *)
Written(p) == \E i \in 1 .. Len(log) : p \in log[i]

(* The put of add_node_raw, and every put the store ever makes.            *)
NodePut(id) == Put("nodes", u64_to_key(id))

RocksPuts == {NodePut(i) : i \in RocksIds} \cup {SourcePut(e) : e \in RocksEdge}
               \cup {TargetPut(e) : e \in RocksEdge}

(* The inductive invariant of the log: a target key is never written before*)
(* its source key, so that no prefix of the log has the one without the    *)
(* other; and the write that holds the source key of an edge only batches  *)
(* wrote holds the rest of the batch.                                      *)
LogOk(l) ==
  /\ l \in Seq(SUBSET RocksPuts)
  /\ \A i \in 1 .. Len(l) : \A e \in RocksEdge :
       TargetPut(e) \in l[i] => \E j \in 1 .. i : SourcePut(e) \in l[j]
  /\ \A i \in 1 .. Len(l) : \A e \in RocksEdge :
       SourcePut(e) \in l[i] => \/ e \in raw_edges
                                \/ {TargetPut(e), NodePut(e[1]), NodePut(e[3])} \subseteq l[i]

(* Of an edge between its two puts the first is in the log.                *)
HalfwayOk ==
  /\ halfway \in [Writers -> RocksEdge \cup {<<>>}]
  /\ \A w \in Writers : halfway[w] # <<>> => Written(SourcePut(halfway[w]))

RocksInv == LogOk(log) /\ HalfwayOk

(* An id below 4 is its two bytes.                                         *)
LEMMA IdKeys ==
  ASSUME NEW i \in RocksIds
  PROVE  /\ i \in 0 .. 3 /\ i \div 2 \in 0 .. 1 /\ i % 2 \in 0 .. 1
         /\ 2 * (i \div 2) + (i % 2) = i
         /\ u64_to_key(i) = <<i \div 2, i % 2>>
<1>1. i \in {0, 1, 2, 3}
  BY RocksAssumption
<1>2. 0 \div 2 = 0 /\ 1 \div 2 = 0 /\ 2 \div 2 = 1 /\ 3 \div 2 = 1
  OBVIOUS
<1>3. 0 % 2 = 0 /\ 1 % 2 = 1 /\ 2 % 2 = 0 /\ 3 % 2 = 1
  OBVIOUS
<1>4. i \div 2 \in {0, 1} /\ i % 2 \in {0, 1}
  BY <1>1, <1>2, <1>3
<1> DEFINE h == i \div 2
           l == i % 2
<1>5. 2 * h + l = i
  <2>1. CASE i = 0
    <3>1. h = 0 /\ l = 0
      BY <1>2, <1>3, <2>1
    <3> HIDE DEF h, l
    <3> QED BY <2>1, <3>1
  <2>2. CASE i = 1
    <3>1. h = 0 /\ l = 1
      BY <1>2, <1>3, <2>2
    <3> HIDE DEF h, l
    <3> QED BY <2>2, <3>1
  <2>3. CASE i = 2
    <3>1. h = 1 /\ l = 0
      BY <1>2, <1>3, <2>3
    <3> HIDE DEF h, l
    <3> QED BY <2>3, <3>1
  <2>4. CASE i = 3
    <3>1. h = 1 /\ l = 1
      BY <1>2, <1>3, <2>4
    <3> HIDE DEF h, l
    <3> QED BY <2>4, <3>1
  <2> QED BY <1>1, <2>1, <2>2, <2>3, <2>4, Zenon
<1>6. i \in 0 .. 3 /\ h \in 0 .. 1 /\ l \in 0 .. 1 /\ u64_to_key(i) = <<h, l>>
  BY <1>1, <1>4 DEF u64_to_key
<1> HIDE DEF h, l
<1>7. i \in 0 .. 3 /\ h \in 0 .. 1 /\ l \in 0 .. 1 /\ 2 * h + l = i /\ u64_to_key(i) = <<h, l>>
  BY <1>5, <1>6
<1> QED BY <1>7, Zenon DEF h, l

(* Ids with the same bytes are the same.                                   *)
LEMMA SameId ==
  ASSUME NEW i \in RocksIds, NEW j \in RocksIds, i \div 2 = j \div 2, i % 2 = j % 2
  PROVE  i = j
<1> DEFINE id(h, l) == 2 * h + l
<1>1. id(i \div 2, i % 2) = i /\ id(j \div 2, j % 2) = j
  BY IdKeys
<1> HIDE DEF id
<1> QED BY <1>1

(* A stretch of a sequence, element by element.                            *)
LEMMA SeqParts ==
  ASSUME NEW k \in Seq(Int), NEW p \in Seq(Int), Len(p) <= Len(k), NEW m \in Nat, m + Len(p) <= Len(k),
         \A i \in 1 .. Len(p) : p[i] = k[m + i]
  PROVE  SubSeq(k, m + 1, m + Len(p)) = p
<1> DEFINE a == m + 1
           b == m + Len(p)
           s == SubSeq(k, a, b)
<1>1. Len(p) \in Nat /\ Len(k) \in Nat /\ a \in Int /\ b \in Int
  OBVIOUS
<1>2. \A i \in a .. b : k[i] \in Int
  BY <1>1
<1>3. b - a + 1 = Len(p) /\ (a <= b \/ Len(p) = 0) /\ \A i \in 1 .. Len(p) : a + i - 1 = m + i
  BY <1>1
<1> HIDE DEF a, b
<1>4. /\ s \in Seq(Int) /\ Len(s) = IF a <= b THEN b - a + 1 ELSE 0
      /\ \A i \in 1 .. b - a + 1 : s[i] = k[a + i - 1]
  BY <1>1, <1>2, SubSeqProperties
<1> HIDE DEF s
<1>5. Len(s) = Len(p)
  BY <1>1, <1>3, <1>4
<1>6. \A i \in 1 .. Len(p) : s[i] = p[i]
  BY <1>3, <1>4
<1>7. s = p
  BY <1>4, <1>5, <1>6, SeqEqual
<1> QED BY <1>7 DEF s, a, b

(* The first bytes of a key of two.                                        *)
LEMMA TwoBytes ==
  ASSUME NEW a \in Int, NEW b \in Int
  PROVE  SubSeq(<<a, b>>, 1, 0) = <<>> /\ SubSeq(<<a, b>>, 1, 1) = <<a>>
<1> DEFINE k == <<a, b>>
           p == <<a>>
<1>1. k \in Seq(Int) /\ Len(k) = 2 /\ k[1] = a /\ p \in Seq(Int) /\ Len(p) = 1 /\ p[1] = a
  OBVIOUS
<1> HIDE DEF k, p
<1>2. SubSeq(k, 0 + 1, 0 + Len(p)) = p
  <2>1. \A i \in 1 .. Len(p) : p[i] = k[0 + i]
    BY <1>1
  <2>2. 0 \in Nat /\ 0 + Len(p) <= Len(k) /\ Len(p) <= Len(k)
    BY <1>1
  <2> QED BY <1>1, <2>1, <2>2, SeqParts
<1>3. SubSeq(k, 1, 1) = p
  BY <1>1, <1>2
<1>4. SubSeq(k, 1, 0) = <<>>
  BY SubSeqEmpty
<1> QED BY <1>3, <1>4 DEF k, p

(* A key of five bytes, and its parts.                                     *)
Bytes(k, a, b, c, d, e) ==
  a \in Int /\ b \in Int /\ c \in Int /\ d \in Int /\ e \in Int /\ k = <<a, b, c, d, e>>

(* The prefixes a key of five bytes has, and its last two bytes.           *)
LEMMA FiveBytes ==
  ASSUME NEW k, NEW a, NEW b, NEW c, NEW d, NEW e, Bytes(k, a, b, c, d, e)
  PROVE  /\ k \in Seq(Int) /\ Len(k) = 5 /\ k[1] = a /\ k[2] = b /\ k[3] = c /\ k[4] = d /\ k[5] = e
         /\ SubSeq(k, 1, 0) = <<>> /\ SubSeq(k, 1, 1) = <<a>>
         /\ SubSeq(k, 1, 2) = <<a, b>> /\ SubSeq(k, 4, 5) = <<d, e>>
<1> DEFINE p == <<a, b>>
           q == <<d, e>>
           r == <<a>>
<1>1. /\ k \in Seq(Int) /\ Len(k) = 5 /\ k[1] = a /\ k[2] = b /\ k[3] = c /\ k[4] = d /\ k[5] = e
  BY DEF Bytes
<1>2. /\ p \in Seq(Int) /\ Len(p) = 2 /\ p[1] = a /\ p[2] = b
      /\ q \in Seq(Int) /\ Len(q) = 2 /\ q[1] = d /\ q[2] = e
      /\ r \in Seq(Int) /\ Len(r) = 1 /\ r[1] = a
  BY DEF Bytes
<1> HIDE DEF p, q, r
<1>3. SubSeq(k, 0 + 1, 0 + Len(p)) = p
  <2>1. \A i \in 1 .. Len(p) : p[i] = k[0 + i]
    <3> TAKE i \in 1 .. Len(p)
    <3>1. i = 1 \/ i = 2
      BY <1>2
    <3> QED BY <1>1, <1>2, <3>1
  <2>2. 0 \in Nat /\ 0 + Len(p) <= Len(k) /\ Len(p) <= Len(k)
    BY <1>1, <1>2
  <2> QED BY <1>1, <1>2, <2>1, <2>2, SeqParts
<1>4. SubSeq(k, 0 + 1, 0 + Len(r)) = r
  <2>1. \A i \in 1 .. Len(r) : r[i] = k[0 + i]
    BY <1>1, <1>2
  <2>2. 0 \in Nat /\ 0 + Len(r) <= Len(k) /\ Len(r) <= Len(k)
    BY <1>1, <1>2
  <2> QED BY <1>1, <1>2, <2>1, <2>2, SeqParts
<1>5. SubSeq(k, 3 + 1, 3 + Len(q)) = q
  <2>1. \A i \in 1 .. Len(q) : q[i] = k[3 + i]
    <3> TAKE i \in 1 .. Len(q)
    <3>1. i = 1 \/ i = 2
      BY <1>2
    <3> QED BY <1>1, <1>2, <3>1
  <2>2. 3 \in Nat /\ 3 + Len(q) <= Len(k) /\ Len(q) <= Len(k)
    BY <1>1, <1>2
  <2> QED BY <1>1, <1>2, <2>1, <2>2, SeqParts
<1>6. SubSeq(k, 1, 2) = p /\ SubSeq(k, 1, 1) = r /\ SubSeq(k, 4, 5) = q
  BY <1>2, <1>3, <1>4, <1>5
<1>7. SubSeq(k, 1, 0) = <<>>
  BY SubSeqEmpty
<1> QED BY <1>1, <1>6, <1>7 DEF p, q, r

(* An id, a type and an id put together.                                   *)
LEMMA ConcatBytes ==
  ASSUME NEW a \in Int, NEW b \in Int, NEW c \in Int, NEW d \in Int, NEW e \in Int
  PROVE  <<a, b>> \o <<c>> \o <<d, e>> = <<a, b, c, d, e>>
<1> DEFINE p == <<a, b>>
           q == <<c>>
           r == <<d, e>>
           k == <<a, b, c, d, e>>
           pq == p \o q
           pqr == pq \o r
<1>1. /\ p \in Seq(Int) /\ Len(p) = 2 /\ p[1] = a /\ p[2] = b
      /\ q \in Seq(Int) /\ Len(q) = 1 /\ q[1] = c
      /\ r \in Seq(Int) /\ Len(r) = 2 /\ r[1] = d /\ r[2] = e
      /\ k \in Seq(Int) /\ Len(k) = 5 /\ k[1] = a /\ k[2] = b /\ k[3] = c /\ k[4] = d /\ k[5] = e
  OBVIOUS
<1> HIDE DEF p, q, r, k
<1>2. /\ pq \in Seq(Int) /\ Len(pq) = Len(p) + Len(q)
      /\ \A i \in 1 .. Len(p) + Len(q) : pq[i] = IF i <= Len(p) THEN p[i] ELSE q[i - Len(p)]
  BY <1>1, ConcatProperties
<1>3. Len(pq) = 3 /\ pq[1] = a /\ pq[2] = b /\ pq[3] = c
  <2> HIDE DEF pq
  <2>1. 1 \in 1 .. Len(p) + Len(q) /\ 2 \in 1 .. Len(p) + Len(q) /\ 3 \in 1 .. Len(p) + Len(q)
    BY <1>1
  <2> QED BY <1>1, <1>2, <2>1
<1>4. /\ pqr \in Seq(Int) /\ Len(pqr) = Len(pq) + Len(r)
      /\ \A i \in 1 .. Len(pq) + Len(r) : pqr[i] = IF i <= Len(pq) THEN pq[i] ELSE r[i - Len(pq)]
  <2> HIDE DEF pq
  <2>1. pq \in Seq(Int) /\ r \in Seq(Int)
    BY <1>1, <1>2
  <2> QED BY <2>1, ConcatProperties
<1>5. Len(pqr) = 5 /\ pqr[1] = a /\ pqr[2] = b /\ pqr[3] = c /\ pqr[4] = d /\ pqr[5] = e
  <2> HIDE DEF pq, pqr
  <2>1. {1, 2, 3, 4, 5} \subseteq 1 .. Len(pq) + Len(r)
    BY <1>1, <1>3
  <2>2. pqr[4] = r[1] /\ pqr[5] = r[2]
    BY <1>1, <1>3, <1>4, <2>1
  <2> QED BY <1>1, <1>3, <1>4, <2>1, <2>2
<1>6. pqr = k
  <2> HIDE DEF pq, pqr
  <2>1. \A i \in 1 .. Len(pqr) : pqr[i] = k[i]
    <3> TAKE i \in 1 .. Len(pqr)
    <3>1. i \in {1, 2, 3, 4, 5}
      BY <1>5
    <3> QED BY <1>1, <1>5, <3>1
  <2> QED BY <1>1, <1>4, <1>5, <2>1, SeqEqual
<1> QED BY <1>6 DEF p, q, r, k

(* edge_key written out, and decoded as the readers do it.                 *)
LEMMA EdgeKeys ==
  ASSUME NEW a \in RocksIds, NEW t \in RocksTypes, NEW b \in RocksIds
  PROVE  /\ edge_key(a, t, b) = <<a \div 2, a % 2, t, b \div 2, b % 2>>
         /\ SubSeq(edge_key(a, t, b), 1, 2) = u64_to_key(a)
         /\ edge_key(a, t, b)[3] = t
         /\ key_to_u64(SubSeq(edge_key(a, t, b), 4, 5)) = b
<1> DEFINE a1 == a \div 2
           a2 == a % 2
           b1 == b \div 2
           b2 == b % 2
<1>1. /\ u64_to_key(a) = <<a1, a2>> /\ u64_to_key(b) = <<b1, b2>> /\ 2 * b1 + b2 = b
  BY IdKeys
<1>2. edge_key(a, t, b) = <<a1, a2>> \o <<t>> \o <<b1, b2>>
  BY <1>1 DEF edge_key
<1>3. a1 \in Int /\ a2 \in Int /\ b1 \in Int /\ b2 \in Int /\ t \in Int
  BY IdKeys, RocksAssumption
<1> HIDE DEF a1, a2, b1, b2
<1>4. edge_key(a, t, b) = <<a1, a2, t, b1, b2>>
  BY <1>2, <1>3, ConcatBytes
<1>5. /\ edge_key(a, t, b)[3] = t /\ SubSeq(edge_key(a, t, b), 1, 2) = <<a1, a2>>
      /\ SubSeq(edge_key(a, t, b), 4, 5) = <<b1, b2>>
  <2>1. Bytes(edge_key(a, t, b), a1, a2, t, b1, b2)
    BY <1>3, <1>4 DEF Bytes
  <2> QED BY <2>1, FiveBytes
<1>6. key_to_u64(<<b1, b2>>) = b
  BY <1>1 DEF key_to_u64
<1>7. edge_key(a, t, b) = <<a \div 2, a % 2, t, b \div 2, b % 2>>
  BY <1>4 DEF a1, a2, b1, b2
<1> QED BY <1>1, <1>5, <1>6, <1>7

(* Two edges have the same key only if they are the same.                  *)
LEMMA KeyOfOneEdge ==
  ASSUME NEW a \in RocksIds, NEW t \in RocksTypes, NEW b \in RocksIds,
         NEW c \in RocksIds, NEW u \in RocksTypes, NEW d \in RocksIds,
         edge_key(a, t, b) = edge_key(c, u, d)
  PROVE  a = c /\ t = u /\ b = d
<1>1. SubSeq(edge_key(a, t, b), 1, 2) = u64_to_key(a) /\ SubSeq(edge_key(c, u, d), 1, 2) = u64_to_key(c)
  BY EdgeKeys
<1>2. u64_to_key(a) = <<a \div 2, a % 2>> /\ u64_to_key(c) = <<c \div 2, c % 2>>
  BY IdKeys
<1>3. a = c
  <2>1. <<a \div 2, a % 2>> = <<c \div 2, c % 2>>
    BY <1>1, <1>2
  <2>2. a \div 2 = c \div 2 /\ a % 2 = c % 2
    BY <2>1
  <2> QED BY <2>2, SameId
<1>4. t = u /\ b = d
  BY EdgeKeys
<1> QED BY <1>3, <1>4

(* The order of keys: against a prefix only the first two bytes count,     *)
LEMMA PrefixOrder ==
  ASSUME NEW k, NEW k1, NEW k2, NEW k3, NEW k4, NEW k5, Bytes(k, k1, k2, k3, k4, k5),
         NEW p1 \in Int, NEW p2 \in Int, NEW p, p = <<p1, p2>>
  PROVE  Before(k, p) <=> k1 < p1 \/ (k1 = p1 /\ k2 < p2)
<1>1. /\ Len(k) = 5 /\ k[1] = k1 /\ k[2] = k2 /\ SubSeq(k, 1, 0) = <<>> /\ SubSeq(k, 1, 1) = <<k1>>
  BY FiveBytes
<1>2. Len(p) = 2 /\ p[1] = p1 /\ p[2] = p2
  OBVIOUS
<1>11. k1 \in Int /\ k2 \in Int
  BY DEF Bytes
<1>3. SubSeq(p, 1, 0) = <<>> /\ SubSeq(p, 1, 1) = <<p1>>
  BY TwoBytes
<1>4. ~IsStrictPrefix(k, p)
  BY <1>1, <1>2 DEF IsStrictPrefix, IsPrefix
<1>5. (<<k1>> = <<p1>>) <=> (k1 = p1)
  OBVIOUS
<1> DEFINE Less(i) == i <= Len(p) /\ k[i] < p[i] /\ SubSeq(k, 1, i - 1) = SubSeq(p, 1, i - 1)
<1>6. Before(k, p) <=> \E i \in 1 .. Len(k) : Less(i)
  BY <1>4 DEF Before
<1>7. Less(1) <=> k1 < p1
  BY <1>1, <1>2, <1>3
<1>8. Less(2) <=> k1 = p1 /\ k2 < p2
  BY <1>1, <1>2, <1>3, <1>5
<1>9. \A i \in 1 .. Len(k) : Less(i) => i = 1 \/ i = 2
  BY <1>1, <1>2
<1>10. 1 \in 1 .. Len(k) /\ 2 \in 1 .. Len(k)
  BY <1>1
<1> HIDE DEF Less
<1> QED BY <1>6, <1>7, <1>8, <1>9, <1>10

(* and they decide between two keys in which they differ.                  *)
LEMMA KeyOrder ==
  ASSUME NEW k, NEW k1, NEW k2, NEW k3, NEW k4, NEW k5, Bytes(k, k1, k2, k3, k4, k5),
         NEW o, NEW o1, NEW o2, NEW o3, NEW o4, NEW o5, Bytes(o, o1, o2, o3, o4, o5),
         k1 < o1 \/ (k1 = o1 /\ k2 < o2)
  PROVE  Before(k, o)
<1>1. /\ Len(k) = 5 /\ k[1] = k1 /\ k[2] = k2 /\ SubSeq(k, 1, 0) = <<>> /\ SubSeq(k, 1, 1) = <<k1>>
  BY FiveBytes
<1>2. /\ Len(o) = 5 /\ o[1] = o1 /\ o[2] = o2 /\ SubSeq(o, 1, 0) = <<>> /\ SubSeq(o, 1, 1) = <<o1>>
  BY FiveBytes
<1> DEFINE Less(i) == i <= Len(o) /\ k[i] < o[i] /\ SubSeq(k, 1, i - 1) = SubSeq(o, 1, i - 1)
<1>3. (\E i \in 1 .. Len(k) : Less(i)) => Before(k, o)
  BY DEF Before
<1>4. k1 < o1 => Less(1)
  BY <1>1, <1>2
<1>5. k1 = o1 /\ k2 < o2 => Less(2)
  BY <1>1, <1>2
<1>6. 1 \in 1 .. Len(k) /\ 2 \in 1 .. Len(k)
  BY <1>1
<1> HIDE DEF Less
<1> QED BY <1>3, <1>4, <1>5, <1>6

(* A column family that holds keys of edges.                               *)
IsEdgeKeys(S) == \A k \in S : \E a \in RocksIds, t \in RocksTypes, b \in RocksIds : k = edge_key(a, t, b)

(* The scan reads the keys with the prefix, and all of them.               *)
LEMMA ScanExact ==
  ASSUME NEW cf, IsEdgeKeys(Keys(cf)), NEW i \in RocksIds
  PROVE  ScanFrom(cf, i) = {k \in Keys(cf) : SubSeq(k, 1, 2) = u64_to_key(i)}
<1> DEFINE K == Keys(cf)
           i1 == i \div 2
           i2 == i % 2
           key == u64_to_key(i)
           from == {k \in K : ~Before(k, key)}
           other == {k \in from : SubSeq(k, 1, 2) # key}
<1>1. ScanFrom(cf, i) = {k \in from \ other : \A o \in other : Before(k, o)}
  BY DEF ScanFrom
<1>2. key = <<i1, i2>> /\ i1 \in Int /\ i2 \in Int
  BY IdKeys
<1>3. ASSUME NEW k \in K
      PROVE  \E k1, k2, k3, k4, k5 : Bytes(k, k1, k2, k3, k4, k5) /\ SubSeq(k, 1, 2) = <<k1, k2>>
  <2>1. PICK a \in RocksIds, t \in RocksTypes, b \in RocksIds : k = edge_key(a, t, b)
    BY DEF IsEdgeKeys
  <2>2. k = <<a \div 2, a % 2, t, b \div 2, b % 2>> /\ SubSeq(k, 1, 2) = u64_to_key(a)
    BY <2>1, EdgeKeys
  <2>3. /\ u64_to_key(a) = <<a \div 2, a % 2>> /\ a \div 2 \in Int /\ a % 2 \in Int
        /\ b \div 2 \in Int /\ b % 2 \in Int /\ t \in Int
    BY IdKeys, RocksAssumption
  <2>4. Bytes(k, a \div 2, a % 2, t, b \div 2, b % 2)
    BY <2>2, <2>3 DEF Bytes
  <2> QED BY <2>2, <2>3, <2>4
<1> HIDE DEF K, i1, i2, key
<1>4. ASSUME NEW k \in K, SubSeq(k, 1, 2) = key
      PROVE  k \in from /\ \A o \in other : Before(k, o)
  <2>1. PICK k1, k2, k3, k4, k5 : Bytes(k, k1, k2, k3, k4, k5) /\ SubSeq(k, 1, 2) = <<k1, k2>>
    BY <1>3
  <2>2. k1 = i1 /\ k2 = i2
    BY <1>2, <1>4, <2>1
  <2>3. ~Before(k, key)
    BY <1>2, <2>1, <2>2, PrefixOrder
  <2>4. ASSUME NEW o \in other PROVE Before(k, o)
    <3>1. PICK o1, o2, o3, o4, o5 : Bytes(o, o1, o2, o3, o4, o5) /\ SubSeq(o, 1, 2) = <<o1, o2>>
      BY <1>3
    <3>2. ~(o1 < i1 \/ (o1 = i1 /\ o2 < i2))
      BY <1>2, <3>1, PrefixOrder
    <3>3. ~(o1 = i1 /\ o2 = i2)
      BY <1>2, <3>1
    <3>4. k1 < o1 \/ (k1 = o1 /\ k2 < o2)
      BY <1>2, <2>2, <3>1, <3>2, <3>3 DEF Bytes
    <3> QED BY <2>1, <3>1, <3>4, KeyOrder
  <2> QED BY <2>3, <2>4
<1> QED BY <1>1, <1>4 DEF K, key

-----------------------------------------------------------------------------
(* What the column families hold                                           *)

(* A reader finds the keys that some write of the log put.                 *)
LEMMA KeysWritten ==
  ASSUME LogOk(log), NEW cf, NEW k
  PROVE  k \in Keys(cf) <=> Written([cf |-> cf, key |-> k])
<1>1. Len(log) \in Nat /\ DOMAIN log = 1 .. Len(log) /\ \A i \in 1 .. Len(log) : log[i] \subseteq RocksPuts
  BY DEF LogOk
<1>2. \A p \in RocksPuts : p = [cf |-> p.cf, key |-> p.key]
  BY DEF RocksPuts, NodePut, SourcePut, TargetPut, Put
<1>3. \A p : p \in UNION ToSet(log) <=> Written(p)
  BY <1>1 DEF ToSet, Written
<1>4. \A p : Written(p) => p \in RocksPuts
  BY <1>1 DEF Written
<1>5. ASSUME k \in Keys(cf) PROVE Written([cf |-> cf, key |-> k])
  <2>1. PICK p : Written(p) /\ p.cf = cf /\ p.key = k
    BY <1>3, <1>5 DEF Keys
  <2> QED BY <1>2, <1>4, <2>1
<1>6. ASSUME Written([cf |-> cf, key |-> k]) PROVE k \in Keys(cf)
  <2>1. [cf |-> cf, key |-> k].cf = cf /\ [cf |-> cf, key |-> k].key = k
    OBVIOUS
  <2> QED BY <1>3, <1>6, <2>1 DEF Keys
<1> QED BY <1>5, <1>6

(* What each column family holds: nodes, edges by source, edges by target. *)
LEMMA FamilyKeys ==
  ASSUME LogOk(log)
  PROVE  /\ \A k : k \in Keys("nodes") <=> \E i \in RocksIds : k = u64_to_key(i) /\ Written(NodePut(i))
         /\ \A k : k \in Keys("edges_by_source") <=>
              \E e \in RocksEdge : k = edge_key(e[1], e[2], e[3]) /\ Written(SourcePut(e))
         /\ \A k : k \in Keys("edges_by_target") <=>
              \E e \in RocksEdge : k = edge_key(e[3], e[2], e[1]) /\ Written(TargetPut(e))
<1>1. \A p : Written(p) => p \in RocksPuts
  BY DEF LogOk, Written
<1>2. \A cf, k : k \in Keys(cf) <=> Written([cf |-> cf, key |-> k])
  BY KeysWritten
<1>3. ASSUME NEW k
      PROVE  k \in Keys("nodes") <=> \E i \in RocksIds : k = u64_to_key(i) /\ Written(NodePut(i))
  <2>1. [cf |-> "nodes", key |-> k] \in RocksPuts => \E i \in RocksIds : k = u64_to_key(i)
    BY DEF RocksPuts, NodePut, SourcePut, TargetPut, Put
  <2>2. \A i \in RocksIds : k = u64_to_key(i) => NodePut(i) = [cf |-> "nodes", key |-> k]
    BY DEF NodePut, Put
  <2> QED BY <1>1, <1>2, <2>1, <2>2
<1>4. ASSUME NEW k
      PROVE  k \in Keys("edges_by_source") <=>
               \E e \in RocksEdge : k = edge_key(e[1], e[2], e[3]) /\ Written(SourcePut(e))
  <2>1. [cf |-> "edges_by_source", key |-> k] \in RocksPuts =>
          \E e \in RocksEdge : k = edge_key(e[1], e[2], e[3])
    BY DEF RocksPuts, NodePut, SourcePut, TargetPut, Put
  <2>2. \A e \in RocksEdge : k = edge_key(e[1], e[2], e[3]) => SourcePut(e) = [cf |-> "edges_by_source", key |-> k]
    BY DEF SourcePut, Put
  <2> QED BY <1>1, <1>2, <2>1, <2>2
<1>5. ASSUME NEW k
      PROVE  k \in Keys("edges_by_target") <=>
               \E e \in RocksEdge : k = edge_key(e[3], e[2], e[1]) /\ Written(TargetPut(e))
  <2>1. [cf |-> "edges_by_target", key |-> k] \in RocksPuts =>
          \E e \in RocksEdge : k = edge_key(e[3], e[2], e[1])
    BY DEF RocksPuts, NodePut, SourcePut, TargetPut, Put
  <2>2. \A e \in RocksEdge : k = edge_key(e[3], e[2], e[1]) => TargetPut(e) = [cf |-> "edges_by_target", key |-> k]
    BY DEF TargetPut, Put
  <2> QED BY <1>1, <1>2, <2>1, <2>2
<1> QED BY <1>3, <1>4, <1>5

(* The edges read from a node are those whose source key was written,      *)
LEMMA OutgoingEdges ==
  ASSUME LogOk(log), NEW i \in RocksIds
  PROVE  get_outgoing_raw(i) = {e \in RocksEdge : e[1] = i /\ Written(SourcePut(e))}
<1> DEFINE out(k) == <<i, k[3], key_to_u64(SubSeq(k, 4, 5))>>
           K == Keys("edges_by_source")
<1>1. \A k : k \in K <=> \E e \in RocksEdge : k = edge_key(e[1], e[2], e[3]) /\ Written(SourcePut(e))
  BY FamilyKeys
<1>2. IsEdgeKeys(K)
  BY <1>1 DEF IsEdgeKeys, RocksEdge
<1>3. get_outgoing_raw(i) = {out(k) : k \in {c \in K : SubSeq(c, 1, 2) = u64_to_key(i)}}
  BY <1>2, ScanExact DEF get_outgoing_raw
<1>4. ASSUME NEW e \in RocksEdge, NEW k, k = edge_key(e[1], e[2], e[3])
      PROVE  /\ SubSeq(k, 1, 2) = u64_to_key(i) => e[1] = i
             /\ e[1] = i => SubSeq(k, 1, 2) = u64_to_key(i) /\ out(k) = e
  <2>1. e[1] \in RocksIds /\ e[2] \in RocksTypes /\ e[3] \in RocksIds /\ e = <<e[1], e[2], e[3]>>
    BY DEF RocksEdge
  <2>2. SubSeq(k, 1, 2) = u64_to_key(e[1]) /\ k[3] = e[2] /\ key_to_u64(SubSeq(k, 4, 5)) = e[3]
    BY <1>4, <2>1, EdgeKeys
  <2>3. u64_to_key(e[1]) = u64_to_key(i) => e[1] = i
    <3>1. u64_to_key(e[1]) = <<e[1] \div 2, e[1] % 2>> /\ u64_to_key(i) = <<i \div 2, i % 2>>
      BY <2>1, IdKeys
    <3> DEFINE e1 == e[1]
    <3> HIDE DEF e1
    <3>2. <<e1 \div 2, e1 % 2>> = <<i \div 2, i % 2>> => e1 \div 2 = i \div 2 /\ e1 % 2 = i % 2
      OBVIOUS
    <3> QED BY <2>1, <3>1, <3>2, SameId DEF e1
  <2> QED BY <2>1, <2>2, <2>3
<1> HIDE DEF out, K
<1>5. ASSUME NEW x \in get_outgoing_raw(i) PROVE x \in RocksEdge /\ x[1] = i /\ Written(SourcePut(x))
  <2>1. PICK k \in K : SubSeq(k, 1, 2) = u64_to_key(i) /\ x = out(k)
    BY <1>3, <1>5
  <2>2. PICK e \in RocksEdge : k = edge_key(e[1], e[2], e[3]) /\ Written(SourcePut(e))
    BY <1>1, <2>1
  <2>3. e[1] = i /\ x = e
    BY <1>4, <2>1, <2>2
  <2> QED BY <2>2, <2>3
<1>6. ASSUME NEW e \in RocksEdge, e[1] = i, Written(SourcePut(e)) PROVE e \in get_outgoing_raw(i)
  <2> DEFINE k == edge_key(e[1], e[2], e[3])
  <2>1. k \in K
    BY <1>1, <1>6
  <2>2. SubSeq(k, 1, 2) = u64_to_key(i) /\ out(k) = e
    BY <1>4, <1>6
  <2> HIDE DEF k
  <2> QED BY <1>3, <2>1, <2>2
<1> QED BY <1>5, <1>6

(* and the edges read into a node those whose target key was.              *)
LEMMA IncomingEdges ==
  ASSUME LogOk(log), NEW i \in RocksIds
  PROVE  get_incoming_raw(i) = {e \in RocksEdge : e[3] = i /\ Written(TargetPut(e))}
<1> DEFINE in(k) == <<key_to_u64(SubSeq(k, 4, 5)), k[3], i>>
           K == Keys("edges_by_target")
<1>1. \A k : k \in K <=> \E e \in RocksEdge : k = edge_key(e[3], e[2], e[1]) /\ Written(TargetPut(e))
  BY FamilyKeys
<1>2. IsEdgeKeys(K)
  BY <1>1 DEF IsEdgeKeys, RocksEdge
<1>3. get_incoming_raw(i) = {in(k) : k \in {c \in K : SubSeq(c, 1, 2) = u64_to_key(i)}}
  BY <1>2, ScanExact DEF get_incoming_raw
<1>4. ASSUME NEW e \in RocksEdge, NEW k, k = edge_key(e[3], e[2], e[1])
      PROVE  /\ SubSeq(k, 1, 2) = u64_to_key(i) => e[3] = i
             /\ e[3] = i => SubSeq(k, 1, 2) = u64_to_key(i) /\ in(k) = e
  <2>1. e[1] \in RocksIds /\ e[2] \in RocksTypes /\ e[3] \in RocksIds /\ e = <<e[1], e[2], e[3]>>
    BY DEF RocksEdge
  <2>2. SubSeq(k, 1, 2) = u64_to_key(e[3]) /\ k[3] = e[2] /\ key_to_u64(SubSeq(k, 4, 5)) = e[1]
    BY <1>4, <2>1, EdgeKeys
  <2>3. u64_to_key(e[3]) = u64_to_key(i) => e[3] = i
    <3>1. u64_to_key(e[3]) = <<e[3] \div 2, e[3] % 2>> /\ u64_to_key(i) = <<i \div 2, i % 2>>
      BY <2>1, IdKeys
    <3> DEFINE e3 == e[3]
    <3> HIDE DEF e3
    <3>2. <<e3 \div 2, e3 % 2>> = <<i \div 2, i % 2>> => e3 \div 2 = i \div 2 /\ e3 % 2 = i % 2
      OBVIOUS
    <3> QED BY <2>1, <3>1, <3>2, SameId DEF e3
  <2> QED BY <2>1, <2>2, <2>3
<1> HIDE DEF in, K
<1>5. ASSUME NEW x \in get_incoming_raw(i) PROVE x \in RocksEdge /\ x[3] = i /\ Written(TargetPut(x))
  <2>1. PICK k \in K : SubSeq(k, 1, 2) = u64_to_key(i) /\ x = in(k)
    BY <1>3, <1>5
  <2>2. PICK e \in RocksEdge : k = edge_key(e[3], e[2], e[1]) /\ Written(TargetPut(e))
    BY <1>1, <2>1
  <2>3. e[3] = i /\ x = e
    BY <1>4, <2>1, <2>2
  <2> QED BY <2>2, <2>3
<1>6. ASSUME NEW e \in RocksEdge, e[3] = i, Written(TargetPut(e)) PROVE e \in get_incoming_raw(i)
  <2> DEFINE k == edge_key(e[3], e[2], e[1])
  <2>1. k \in K
    BY <1>1, <1>6
  <2>2. SubSeq(k, 1, 2) = u64_to_key(i) /\ in(k) = e
    BY <1>4, <1>6
  <2> HIDE DEF k
  <2> QED BY <1>3, <2>1, <2>2
<1> QED BY <1>5, <1>6

(* What is read node by node is every edge with a source key.              *)
LEMMA AllEdgesWritten ==
  ASSUME LogOk(log)
  PROVE  AllEdges = {e \in RocksEdge : Written(SourcePut(e))}
<1>1. \A i \in RocksIds : get_outgoing_raw(i) = {e \in RocksEdge : e[1] = i /\ Written(SourcePut(e))}
  BY OutgoingEdges
<1>2. \A e \in RocksEdge : e[1] \in RocksIds
  BY DEF RocksEdge
<1> QED BY <1>1, <1>2 DEF AllEdges

(* There are finitely many ids and edges.                                  *)
LEMMA RocksFinite == IsFiniteSet(RocksIds) /\ IsFiniteSet(RocksEdge)
<1>1. IsFiniteSet(0 .. 3) /\ IsFiniteSet(0 .. 17)
  <2>1. 0 \in Int /\ 3 \in Int /\ 17 \in Int
    OBVIOUS
  <2> QED BY <2>1, FS_Interval
<1>2. IsFiniteSet(RocksIds) /\ IsFiniteSet(RocksTypes)
  BY <1>1, FS_Subset, RocksAssumption
<1> DEFINE T == (RocksIds \X RocksTypes) \X RocksIds
<1>3. IsFiniteSet(RocksIds \X RocksTypes)
  BY <1>2, FS_Product
<1>4. IsFiniteSet(T)
  BY <1>2, <1>3, FS_Product
<1>5. ExistsBijection(T, RocksEdge)
  <2> DEFINE f == [t \in T |-> <<t[1][1], t[1][2], t[2]>>]
  <2>1. f \in [T -> RocksEdge]
    BY DEF RocksEdge
  <2>2. \A t, u \in T : f[t] = f[u] => t = u
    OBVIOUS
  <2>3. ASSUME NEW e \in RocksEdge PROVE \E t \in T : f[t] = e
    <3>1. PICK a \in RocksIds, b \in RocksTypes, c \in RocksIds : e = <<a, b, c>>
      BY DEF RocksEdge
    <3>2. <<<<a, b>>, c>> \in T /\ f[<<<<a, b>>, c>>] = e
      BY <3>1
    <3> QED BY <3>2
  <2> HIDE DEF f
  <2>4. f \in Bijection(T, RocksEdge)
    BY <2>1, <2>2, <2>3 DEF Bijection, Injection, Surjection, IsInjective
  <2> QED BY <2>4 DEF ExistsBijection
<1> QED BY <1>2, <1>4, <1>5, FS_Bijection

(* Edges are as many as their source keys.                                 *)
LEMMA EdgeCount ==
  ASSUME LogOk(log)
  PROVE  Cardinality(AllEdges) = edge_count_raw
<1> DEFINE K == Keys("edges_by_source")
           A == {e \in RocksEdge : Written(SourcePut(e))}
           f == [e \in A |-> edge_key(e[1], e[2], e[3])]
<1>1. IsFiniteSet(A)
  BY RocksFinite, FS_Subset
<1>2. \A k : k \in K <=> \E e \in RocksEdge : k = edge_key(e[1], e[2], e[3]) /\ Written(SourcePut(e))
  BY FamilyKeys
<1>3. f \in [A -> K] /\ \A k \in K : \E e \in A : f[e] = k
  BY <1>2
<1>4. ASSUME NEW d \in A, NEW e \in A, f[d] = f[e] PROVE d = e
  <2>1. /\ d[1] \in RocksIds /\ d[2] \in RocksTypes /\ d[3] \in RocksIds /\ d = <<d[1], d[2], d[3]>>
        /\ e[1] \in RocksIds /\ e[2] \in RocksTypes /\ e[3] \in RocksIds /\ e = <<e[1], e[2], e[3]>>
    BY DEF RocksEdge
  <2>2. edge_key(d[1], d[2], d[3]) = edge_key(e[1], e[2], e[3])
    BY <1>4
  <2>3. d[1] = e[1] /\ d[2] = e[2] /\ d[3] = e[3]
    BY <2>1, <2>2, KeyOfOneEdge
  <2> QED BY <2>1, <2>3
<1> HIDE DEF K, A, f
<1>5. f \in Bijection(A, K)
  BY <1>3, <1>4 DEF Bijection, Injection, Surjection, IsInjective
<1>6. Cardinality(K) = Cardinality(A)
  BY <1>1, <1>5, FS_Bijection DEF ExistsBijection
<1> QED BY <1>6, AllEdgesWritten DEF K, A, edge_count_raw

(* Nodes are as many as their keys.                                        *)
LEMMA NodeCount ==
  ASSUME LogOk(log)
  PROVE  Cardinality({i \in RocksIds : get_node_raw(i)}) = node_count_raw
<1> DEFINE K == Keys("nodes")
           A == {i \in RocksIds : get_node_raw(i)}
           f == [i \in A |-> u64_to_key(i)]
<1>1. IsFiniteSet(A)
  BY RocksFinite, FS_Subset
<1>2. \A k : k \in K => \E i \in RocksIds : k = u64_to_key(i)
  BY FamilyKeys
<1>3. f \in [A -> K] /\ \A k \in K : \E i \in A : f[i] = k
  BY <1>2 DEF get_node_raw
<1>4. ASSUME NEW d \in A, NEW e \in A, f[d] = f[e] PROVE d = e
  <2>1. u64_to_key(d) = u64_to_key(e)
    BY <1>4
  <2>2. u64_to_key(d) = <<d \div 2, d % 2>> /\ u64_to_key(e) = <<e \div 2, e % 2>>
    BY IdKeys
  <2>3. <<d \div 2, d % 2>> = <<e \div 2, e % 2>> => d \div 2 = e \div 2 /\ d % 2 = e % 2
    OBVIOUS
  <2> QED BY <2>1, <2>2, <2>3, SameId
<1> HIDE DEF K, A, f
<1>5. f \in Bijection(A, K)
  BY <1>3, <1>4 DEF Bijection, Injection, Surjection, IsInjective
<1>6. Cardinality(K) = Cardinality(A)
  BY <1>1, <1>5, FS_Bijection DEF ExistsBijection
<1> QED BY <1>6 DEF K, A, node_count_raw

(* The invariant gives the property.                                       *)
LEMMA RocksInvSource ==
  ASSUME RocksInv
  PROVE  NoEdgeWithoutSource
<1>1. LogOk(log)
  BY DEF RocksInv
<1>2. \A e \in RocksEdge : Written(TargetPut(e)) => Written(SourcePut(e))
  <2> TAKE e \in RocksEdge
  <2> HAVE Written(TargetPut(e))
  <2>1. PICK i \in 1 .. Len(log) : TargetPut(e) \in log[i]
    BY DEF Written
  <2>2. PICK j \in 1 .. i : SourcePut(e) \in log[j]
    BY <1>1, <2>1 DEF LogOk
  <2>3. j \in 1 .. Len(log)
    BY <1>1 DEF LogOk
  <2> QED BY <2>2, <2>3 DEF Written
<1>3. \A e \in RocksEdge : Written(SourcePut(e)) /\ e \notin raw_edges =>
        Written(TargetPut(e)) /\ Written(NodePut(e[1])) /\ Written(NodePut(e[3]))
  BY <1>1 DEF LogOk, Written
<1>4. \A e \in RocksEdge : e[1] \in RocksIds /\ e[3] \in RocksIds
  BY DEF RocksEdge
<1>5. \A i \in RocksIds : Written(NodePut(i)) => get_node_raw(i)
  BY <1>1, FamilyKeys DEF get_node_raw
<1>6. \A i \in RocksIds : get_incoming_raw(i) \subseteq AllEdges
  BY <1>1, <1>2, IncomingEdges, AllEdgesWritten
<1>7. ASSUME NEW e \in AllEdges \ raw_edges
      PROVE  e \in get_incoming_raw(e[3]) /\ get_node_raw(e[1]) /\ get_node_raw(e[3])
  <2>1. e \in RocksEdge /\ Written(SourcePut(e))
    BY <1>1, AllEdgesWritten
  <2>2. Written(TargetPut(e)) /\ Written(NodePut(e[1])) /\ Written(NodePut(e[3]))
    BY <1>3, <1>7, <2>1
  <2>3. e[3] \in RocksIds /\ e[1] \in RocksIds
    BY <1>4, <2>1
  <2>4. e \in get_incoming_raw(e[3])
    BY <1>1, <2>1, <2>2, <2>3, IncomingEdges
  <2> QED BY <1>5, <2>2, <2>3, <2>4
<1>8. Cardinality(AllEdges) = edge_count_raw /\ Cardinality({i \in RocksIds : get_node_raw(i)}) = node_count_raw
  BY <1>1, EdgeCount, NodeCount
<1> QED BY <1>6, <1>7, <1>8 DEF NoEdgeWithoutSource

-----------------------------------------------------------------------------
(* The steps                                                               *)

(* Puts are told apart by their column family and by their key.            *)
LEMMA PutsDiffer ==
  ASSUME NEW d \in RocksEdge, NEW e \in RocksEdge, NEW i
  PROVE  /\ SourcePut(d) = SourcePut(e) => d = e
         /\ TargetPut(d) = TargetPut(e) => d = e
         /\ SourcePut(d) # TargetPut(e) /\ SourcePut(d) # NodePut(i) /\ TargetPut(d) # NodePut(i)
<1>1. /\ d[1] \in RocksIds /\ d[2] \in RocksTypes /\ d[3] \in RocksIds /\ d = <<d[1], d[2], d[3]>>
      /\ e[1] \in RocksIds /\ e[2] \in RocksTypes /\ e[3] \in RocksIds /\ e = <<e[1], e[2], e[3]>>
  BY DEF RocksEdge
<1>2. SourcePut(d) = SourcePut(e) => edge_key(d[1], d[2], d[3]) = edge_key(e[1], e[2], e[3])
  BY DEF SourcePut, Put
<1>3. TargetPut(d) = TargetPut(e) => edge_key(d[3], d[2], d[1]) = edge_key(e[3], e[2], e[1])
  BY DEF TargetPut, Put
<1>4. edge_key(d[1], d[2], d[3]) = edge_key(e[1], e[2], e[3]) => d = e
  <2> HAVE edge_key(d[1], d[2], d[3]) = edge_key(e[1], e[2], e[3])
  <2>1. d[1] = e[1] /\ d[2] = e[2] /\ d[3] = e[3]
    BY <1>1, KeyOfOneEdge
  <2> QED BY <1>1, <2>1
<1>5. edge_key(d[3], d[2], d[1]) = edge_key(e[3], e[2], e[1]) => d = e
  <2> HAVE edge_key(d[3], d[2], d[1]) = edge_key(e[3], e[2], e[1])
  <2>1. d[1] = e[1] /\ d[2] = e[2] /\ d[3] = e[3]
    BY <1>1, KeyOfOneEdge
  <2> QED BY <1>1, <2>1
<1>6. SourcePut(d) # TargetPut(e) /\ SourcePut(d) # NodePut(i) /\ TargetPut(d) # NodePut(i)
  BY DEF SourcePut, TargetPut, NodePut, Put
<1> QED BY <1>2, <1>3, <1>4, <1>5, <1>6

(* What a write may hold for the invariant to last.                        *)
WriteOk(puts) ==
  /\ puts \subseteq RocksPuts /\ log' = Append(log, puts) /\ raw_edges \subseteq raw_edges'
  /\ \A e \in RocksEdge : TargetPut(e) \in puts => SourcePut(e) \in puts \/ Written(SourcePut(e))
  /\ \A e \in RocksEdge : SourcePut(e) \in puts =>
       \/ e \in raw_edges'
       \/ {TargetPut(e), NodePut(e[1]), NodePut(e[3])} \subseteq puts

(* Such a write keeps the log as it must be, and nothing is lost.          *)
LEMMA LogGrows ==
  ASSUME LogOk(log), NEW puts, WriteOk(puts)
  PROVE  /\ LogOk(log)'
         /\ \A p : Written(p) \/ p \in puts => Written(p)'
<1> DEFINE n == Len(log)
<1>1. log \in Seq(SUBSET RocksPuts) /\ puts \in SUBSET RocksPuts /\ n \in Nat
  BY DEF LogOk, WriteOk
<1>2. /\ log' \in Seq(SUBSET RocksPuts) /\ Len(log') = n + 1 /\ log'[n + 1] = puts
      /\ \A i \in 1 .. n : log'[i] = log[i]
  BY <1>1, AppendProperties DEF WriteOk
<1>3. \A i \in 1 .. Len(log') : i \in 1 .. n \/ i = n + 1
  BY <1>1, <1>2
<1>4. 1 .. n \subseteq 1 .. Len(log') /\ n + 1 \in 1 .. Len(log')
  BY <1>1, <1>2
<1>5. \A p : Written(p) \/ p \in puts => \E i \in 1 .. Len(log') : p \in log'[i]
  BY <1>2, <1>4 DEF Written
<1> HIDE DEF n
<1>6. ASSUME NEW i \in 1 .. Len(log'), NEW e \in RocksEdge, TargetPut(e) \in log'[i]
      PROVE  \E j \in 1 .. i : SourcePut(e) \in log'[j]
  <2>1. CASE i \in 1 .. n
    <3>1. PICK j \in 1 .. i : SourcePut(e) \in log[j]
      BY <1>2, <1>6, <2>1 DEF LogOk, n
    <3>2. j \in 1 .. n
      BY <1>1, <2>1
    <3> QED BY <1>2, <3>1, <3>2
  <2>2. CASE i = n + 1
    <3>1. SourcePut(e) \in puts \/ Written(SourcePut(e))
      BY <1>2, <1>6, <2>2 DEF WriteOk
    <3>2. n + 1 \in 1 .. i /\ 1 .. n \subseteq 1 .. i
      BY <1>1, <2>2
    <3> QED BY <1>2, <3>1, <3>2 DEF Written, n
  <2> QED BY <1>3, <2>1, <2>2
<1>7. ASSUME NEW i \in 1 .. Len(log'), NEW e \in RocksEdge, SourcePut(e) \in log'[i]
      PROVE  e \in raw_edges' \/ {TargetPut(e), NodePut(e[1]), NodePut(e[3])} \subseteq log'[i]
  <2>1. CASE i \in 1 .. n
    BY <1>2, <1>7, <2>1 DEF LogOk, WriteOk, n
  <2>2. CASE i = n + 1
    BY <1>2, <1>7, <2>2 DEF WriteOk
  <2> QED BY <1>3, <2>1, <2>2
<1> QED BY <1>2, <1>5, <1>6, <1>7 DEF LogOk, Written

(* A crash keeps a prefix of the log, which is as good as the log was.     *)
LEMMA PrefixOk ==
  ASSUME LogOk(log), NEW n \in 0 .. Len(log), log' = SubSeq(log, 1, n), UNCHANGED raw_edges
  PROVE  LogOk(log)'
<1>1. log \in Seq(SUBSET RocksPuts) /\ Len(log) \in Nat
  BY DEF LogOk
<1>2. /\ log' \in Seq(SUBSET RocksPuts) /\ Len(log') = n
      /\ \A i \in 1 .. n : log'[i] = log[i] /\ i \in 1 .. Len(log)
  BY <1>1
<1>3. ASSUME NEW i \in 1 .. n, NEW e \in RocksEdge, TargetPut(e) \in log'[i]
      PROVE  \E j \in 1 .. i : SourcePut(e) \in log'[j]
  <2>1. PICK j \in 1 .. i : SourcePut(e) \in log[j]
    BY <1>2, <1>3 DEF LogOk
  <2>2. j \in 1 .. n
    BY <1>1
  <2> QED BY <1>2, <2>1, <2>2
<1>4. ASSUME NEW i \in 1 .. n, NEW e \in RocksEdge, SourcePut(e) \in log'[i]
      PROVE  e \in raw_edges' \/ {TargetPut(e), NodePut(e[1]), NodePut(e[3])} \subseteq log'[i]
  BY <1>2, <1>4 DEF LogOk
<1> QED BY <1>2, <1>3, <1>4 DEF LogOk

(* The database is empty at first.                                         *)
LEMMA RocksInitInv ==
  ASSUME RocksInit
  PROVE  RocksInv
<1>1. log = <<>> /\ log \in Seq(SUBSET RocksPuts) /\ Len(log) = 0
  BY DEF RocksInit
<1>2. LogOk(log)
  BY <1>1 DEF LogOk
<1>3. HalfwayOk
  BY DEF RocksInit, HalfwayOk
<1> QED BY <1>2, <1>3 DEF RocksInv

(* add_node_raw keeps the invariant.                                       *)
LEMMA NodeInv ==
  ASSUME RocksInv, NEW w \in Writers, NEW id \in RocksIds, add_node_raw(w, id)
  PROVE  RocksInv'
<1>1. WriteOk({NodePut(id)})
  BY PutsDiffer DEF add_node_raw, Write, WriteOk, RocksPuts, NodePut
<1>2. LogOk(log)' /\ \A p : Written(p) => Written(p)'
  BY <1>1, LogGrows DEF RocksInv
<1>3. HalfwayOk'
  BY <1>2 DEF RocksInv, HalfwayOk, add_node_raw
<1> QED BY <1>2, <1>3 DEF RocksInv

(* The first put of add_edge_raw writes the source key of a raw edge.      *)
LEMMA FirstPutInv ==
  ASSUME RocksInv, NEW w \in Writers, NEW e \in RocksEdge, add_edge_raw(w, e)
  PROVE  RocksInv'
<1>1. WriteOk({SourcePut(e)})
  <2>1. \A d \in RocksEdge : TargetPut(d) \notin {SourcePut(e)}
    BY PutsDiffer
  <2>2. \A d \in RocksEdge : SourcePut(d) \in {SourcePut(e)} => d = e
    BY PutsDiffer
  <2>3. {SourcePut(e)} \subseteq RocksPuts
    BY DEF RocksPuts
  <2> QED BY <2>1, <2>2, <2>3 DEF add_edge_raw, Write, WriteOk, FirstPut
<1>2. LogOk(log)' /\ Written(SourcePut(e))' /\ \A p : Written(p) => Written(p)'
  BY <1>1, LogGrows DEF RocksInv
<1>3. halfway' = [halfway EXCEPT ![w] = e] /\ halfway \in [Writers -> RocksEdge \cup {<<>>}]
  BY DEF add_edge_raw, RocksInv, HalfwayOk
<1>4. HalfwayOk'
  <2>1. ASSUME NEW v \in Writers, halfway'[v] # <<>> PROVE \A p : p = SourcePut(halfway'[v]) => Written(p)'
    <3>1. CASE v = w
      BY <1>2, <1>3, <3>1
    <3>2. CASE v # w
      BY <1>2, <1>3, <2>1, <3>2 DEF RocksInv, HalfwayOk
    <3> QED BY <3>1, <3>2
  <2> QED BY <1>3, <2>1 DEF HalfwayOk
<1> QED BY <1>2, <1>4 DEF RocksInv

(* The second put writes the target key, after the source key.             *)
LEMMA SecondPutInv ==
  ASSUME RocksInv, NEW w \in Writers, SecondPut(w)
  PROVE  RocksInv'
<1> DEFINE e == halfway[w]
           puts == {SourcePut(e), TargetPut(e)} \ {FirstPut(e)}
<1>1. e \in RocksEdge /\ Written(SourcePut(e))
  BY DEF RocksInv, HalfwayOk, SecondPut
<1>2. log' = Append(log, puts) /\ UNCHANGED raw_edges
  BY DEF SecondPut, Write
<1>3. puts = {TargetPut(e)}
  BY <1>1, PutsDiffer DEF FirstPut
<1> HIDE DEF e, puts
<1>4. WriteOk(puts)
  <2>1. \A d \in RocksEdge : SourcePut(d) \notin puts
    BY <1>1, <1>3, PutsDiffer
  <2>2. \A d \in RocksEdge : TargetPut(d) \in puts => d = e
    BY <1>1, <1>3, PutsDiffer
  <2>3. puts \subseteq RocksPuts
    BY <1>1, <1>3 DEF RocksPuts
  <2> QED BY <1>1, <1>2, <2>1, <2>2, <2>3 DEF WriteOk
<1>5. LogOk(log)' /\ \A p : Written(p) => Written(p)'
  BY <1>4, LogGrows DEF RocksInv
<1>6. HalfwayOk'
  BY <1>5 DEF RocksInv, HalfwayOk, SecondPut
<1> QED BY <1>5, <1>6 DEF RocksInv

(* A second put that fails leaves an edge that is found from its source.   *)
LEMMA SecondFailsInv ==
  ASSUME RocksInv, NEW w \in Writers, SecondPutFails(w)
  PROVE  RocksInv'
<1>1. LogOk(log)' /\ \A p : Written(p) => Written(p)'
  BY DEF RocksInv, SecondPutFails, LogOk, Written
<1>2. HalfwayOk'
  BY <1>1 DEF RocksInv, HalfwayOk, SecondPutFails
<1> QED BY <1>1, <1>2 DEF RocksInv

(* A batch writes an edge both ways, and its nodes, at once.               *)
LEMMA BatchInv ==
  ASSUME RocksInv, NEW w \in Writers, NEW e \in RocksEdge, batch_write(w, {e[1], e[3]}, {e})
  PROVE  RocksInv'
<1> DEFINE puts == BatchPuts({e[1], e[3]}, {e})
<1>1. puts = {NodePut(e[1]), NodePut(e[3]), SourcePut(e), TargetPut(e)}
  BY DEF BatchPuts, NodePut
<1>2. log' = Append(log, puts) /\ UNCHANGED <<halfway, raw_edges>>
  BY DEF batch_write, Write
<1> HIDE DEF puts
<1>3. WriteOk(puts)
  <2>1. \A d \in RocksEdge : SourcePut(d) \in puts => d = e
    BY <1>1, PutsDiffer
  <2>2. \A d \in RocksEdge : TargetPut(d) \in puts => d = e
    BY <1>1, PutsDiffer
  <2>3. e[1] \in RocksIds /\ e[3] \in RocksIds
    BY DEF RocksEdge
  <2>4. puts \subseteq RocksPuts
    BY <1>1, <2>3 DEF RocksPuts
  <2> QED BY <1>1, <1>2, <2>1, <2>2, <2>4 DEF WriteOk
<1>4. LogOk(log)' /\ \A p : Written(p) => Written(p)'
  BY <1>3, LogGrows DEF RocksInv
<1>5. HalfwayOk'
  BY <1>2, <1>4 DEF RocksInv, HalfwayOk
<1> QED BY <1>4, <1>5 DEF RocksInv

(* A crash forgets the puts that were to come.                             *)
LEMMA CrashInv ==
  ASSUME RocksInv, CrashAndOpen
  PROVE  RocksInv'
<1>1. LogOk(log)'
  BY PrefixOk DEF CrashAndOpen, RocksInv
<1>2. HalfwayOk'
  BY DEF CrashAndOpen, HalfwayOk
<1> QED BY <1>1, <1>2 DEF RocksInv

(* RocksGraphStore, for any number of threads and writes and whatever      *)
(* fails or crashes between: an edge found from its target is found from   *)
(* its source, an edge only batches wrote is whole or absent, and the scans*)
(* read as much as the database counts.                                    *)
THEOREM RocksCorrect == RocksSpec => []NoEdgeWithoutSource
<1>1. RocksInit => RocksInv
  BY RocksInitInv
<1>2. RocksInv /\ [RocksNext]_rocksVars => RocksInv'
  <2> SUFFICES ASSUME RocksInv, [RocksNext]_rocksVars PROVE RocksInv'
    OBVIOUS
  <2>1. CASE RocksNext
    BY <2>1, NodeInv, FirstPutInv, SecondPutInv, SecondFailsInv, BatchInv, CrashInv DEF RocksNext
  <2>2. CASE UNCHANGED rocksVars
    BY <2>2 DEF rocksVars, RocksInv, LogOk, HalfwayOk, Written
  <2> QED BY <2>1, <2>2
<1>3. RocksInv => NoEdgeWithoutSource
  BY RocksInvSource
<1> QED BY <1>1, <1>2, <1>3, PTL DEF RocksSpec
=============================================================================
