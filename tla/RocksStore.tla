----------------------------- MODULE RocksStore ------------------------------
(***************************************************************************)
(* RocksGraphStore (crates/hdl-graph-storage/src/persistent.rs): nodes and *)
(* edges in column families of a RocksDB database.  An edge is two keys,   *)
(* one per direction, and no value; a key is the bytes of an id, an edge   *)
(* type and the other id, and the edges of a node are read by scanning     *)
(* from the node's prefix.  Nothing is ever deleted.                       *)
(*                                                                         *)
(* External: RocksDB.  A put or a batch is written at once and is seen by  *)
(* every reader; a crash keeps a prefix of what was written (one log for   *)
(* all column families, not synced by default).  The store may be shared   *)
(* by threads (Arc<DB>, &self).  A byte is a digit to base 2 here.         *)
(***************************************************************************)
EXTENDS Integers, Sequences, SequencesExt, FiniteSets

CONSTANTS Writers,    \* threads that call the store
          RocksIds,   \* node ids in use, below 4 (two bytes)
          RocksTypes, \* edge types in use, as bytes
          MaxWrites   \* bound: writes to the database between two openings

ASSUME RocksAssumption == /\ RocksIds \subseteq 0 .. 3 /\ RocksTypes \subseteq 0 .. 17
                          /\ MaxWrites \in Nat

VARIABLES log,      \* the writes of the database, in order: sets of puts
          halfway,  \* writer -> the edge whose second put is to come, or <<>>
          raw_edges \* history: edges add_edge_raw was ever called with

rocksVars == <<log, halfway, raw_edges>>

RocksEdge == RocksIds \X RocksTypes \X RocksIds

(* Before `open`, create_if_missing: empty column families.                *)
RocksInit == /\ log = <<>>
             /\ halfway = [w \in Writers |-> <<>>]
             /\ raw_edges = {}

-----------------------------------------------------------------------------
u64_to_key(id) == <<id \div 2, id % 2>>
key_to_u64(key) == 2 * key[1] + key[2]

edge_key(from, type, to) == u64_to_key(from) \o <<type>> \o u64_to_key(to)

Put(cf, key) == [cf |-> cf, key |-> key]

SourcePut(e) == Put("edges_by_source", edge_key(e[1], e[2], e[3]))
TargetPut(e) == Put("edges_by_target", edge_key(e[3], e[2], e[1]))

Write(puts) == Len(log) < MaxWrites /\ log' = Append(log, puts)

(* A column family as a reader finds it.                                   *)
Keys(cf) == {p.key : p \in {q \in UNION ToSet(log) : q.cf = cf}}

-----------------------------------------------------------------------------
add_node_raw(w, id) ==
  /\ halfway[w] = <<>>
  /\ Write({Put("nodes", u64_to_key(id))})
  /\ UNCHANGED <<halfway, raw_edges>>

(* Mutant of FirstPut: the two puts are swapped.                           *)
FirstPutTarget(e) == TargetPut(e)

FirstPut(e) == SourcePut(e)

(* add_edge_raw: two puts, between which others run and the process may    *)
(* die.  An error of the first returns before the second.                  *)
add_edge_raw(w, e) ==
  /\ halfway[w] = <<>>
  /\ Write({FirstPut(e)})
  /\ halfway' = [halfway EXCEPT ![w] = e]
  /\ raw_edges' = raw_edges \cup {e}

SecondPut(w) ==
  /\ halfway[w] # <<>>
  /\ Write({SourcePut(halfway[w]), TargetPut(halfway[w])} \ {FirstPut(halfway[w])})
  /\ halfway' = [halfway EXCEPT ![w] = <<>>]
  /\ UNCHANGED raw_edges

(* The second put fails: `?` returns with the first half stored.           *)
SecondPutFails(w) ==
  /\ halfway[w] # <<>>
  /\ halfway' = [halfway EXCEPT ![w] = <<>>]
  /\ UNCHANGED <<log, raw_edges>>

BatchPuts(ids, es) == {Put("nodes", u64_to_key(i)) : i \in ids}
                        \cup {SourcePut(e) : e \in es} \cup {TargetPut(e) : e \in es}

batch_write(w, ids, es) ==
  /\ halfway[w] = <<>>
  /\ Write(BatchPuts(ids, es))
  /\ UNCHANGED <<halfway, raw_edges>>

(* The process or the machine goes down, and the store is opened again.    *)
CrashAndOpen ==
  /\ \E n \in 0 .. Len(log) : log' = SubSeq(log, 1, n)
  /\ halfway' = [w \in Writers |-> <<>>]
  /\ UNCHANGED raw_edges

RocksNext ==
  \/ \E w \in Writers :
       \/ \E id \in RocksIds : add_node_raw(w, id)
       \/ \E e \in RocksEdge : add_edge_raw(w, e)
       \/ SecondPut(w) \/ SecondPutFails(w)
       \/ \E e \in RocksEdge : batch_write(w, {e[1], e[3]}, {e})
  \/ CrashAndOpen

RocksSpec == RocksInit /\ [][RocksNext]_rocksVars

-----------------------------------------------------------------------------
(* The reads                                                               *)

(* Keys are ordered byte by byte.                                          *)
Before(a, b) ==
  \/ IsStrictPrefix(a, b)
  \/ \E i \in 1 .. Len(a) : /\ i <= Len(b) /\ a[i] < b[i]
                            /\ SubSeq(a, 1, i - 1) = SubSeq(b, 1, i - 1)

(* iterator_cf from the prefix on, until a key has another prefix.         *)
ScanFrom(cf, id) ==
  LET from == {k \in Keys(cf) : ~Before(k, u64_to_key(id))}
      other == {k \in from : SubSeq(k, 1, 2) # u64_to_key(id)}
  IN  {k \in from \ other : \A o \in other : Before(k, o)}

get_outgoing_raw(id) ==
  {<<id, k[3], key_to_u64(SubSeq(k, 4, 5))>> : k \in ScanFrom("edges_by_source", id)}
get_incoming_raw(id) ==
  {<<key_to_u64(SubSeq(k, 4, 5)), k[3], id>> : k \in ScanFrom("edges_by_target", id)}

get_node_raw(id) == u64_to_key(id) \in Keys("nodes")
node_count_raw == Cardinality(Keys("nodes"))
edge_count_raw == Cardinality(Keys("edges_by_source"))

-----------------------------------------------------------------------------
(* Properties                                                              *)

AllEdges == UNION {get_outgoing_raw(i) : i \in RocksIds}

(* Whatever crashes, failures and threads come between: an edge found from *)
(* its target is found from its source (the source is written first), and  *)
(* an edge that only batches wrote is found from both, with both its nodes *)
(* stored, or from neither.  The scans read neither too little nor too     *)
(* much: what is read node by node is as much as the database counts.      *)
NoEdgeWithoutSource ==
  /\ \A i \in RocksIds : get_incoming_raw(i) \subseteq AllEdges
  /\ \A e \in AllEdges \ raw_edges :
       e \in get_incoming_raw(e[3]) /\ get_node_raw(e[1]) /\ get_node_raw(e[3])
  /\ Cardinality(AllEdges) = edge_count_raw
  /\ Cardinality({i \in RocksIds : get_node_raw(i)}) = node_count_raw
=============================================================================
