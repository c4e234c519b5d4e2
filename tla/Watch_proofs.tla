---------------------------- MODULE Watch_proofs ----------------------------
(***************************************************************************)
(* The incremental index under watch, for every set of files and contents, *)
(* every outline the extractor may give them and every number of changes.  *)
(***************************************************************************)
EXTENDS Watch, TLAPS, FiniteSetTheorems

-----------------------------------------------------------------------------
(* The fields of the indexed project keep their types; the ids they name   *)
(* were taken before.                                                      *)
IndexTypeOK ==
  /\ ext_next_id \in Nat \ {0}
  /\ file_map \in [Key -> Nat] /\ \A k \in Key : file_map[k] < ext_next_id
  /\ file_trees \in [Key -> Content \cup {NoContent}]
  /\ DOMAIN file_node_ids = Key /\ DOMAIN file_edges = Key

Indexed == IndexTypeOK /\ MetadataAgrees

(* What an extraction writes                                               *)
LEMMA WrittenIndexed ==
  ASSUME Indexed, NEW k \in Key, NEW content \in Content, NEW tree \in Content,
         Remember(k, ext_next_id, content, tree)
  PROVE  /\ Indexed' /\ ext_next_id' = ext_next_id + IdsOf[tree] /\ file_map'[k] = ext_next_id
         /\ file_trees'[k] = tree
         /\ ext_next_id \in DOMAIN file_hashes' /\ file_hashes'[ext_next_id] = content
         /\ \A g \in Key : g # k =>
              /\ file_map'[g] = file_map[g] /\ file_trees'[g] = file_trees[g]
              /\ file_node_ids'[g] = file_node_ids[g] /\ file_edges'[g] = file_edges[g]
              /\ Digest(g)' = Digest(g)
<1>1. /\ ext_next_id' = ext_next_id + IdsOf[tree]
      /\ file_map' = [file_map EXCEPT ![k] = ext_next_id]
      /\ file_hashes' = Kept(file_hashes, ext_next_id, content)
      /\ file_node_ids' = [file_node_ids EXCEPT ![k] = ExtractNodes(ext_next_id, tree)]
      /\ file_edges' = [file_edges EXCEPT ![k] = ExtractEdges(ext_next_id, tree)]
      /\ file_trees' = [file_trees EXCEPT ![k] = tree]
  BY DEF Remember, Written
<1>2. IdsOf[tree] \in Nat \ {0}
  BY OutlineAssumption
<1>3. /\ DOMAIN file_hashes' = DOMAIN file_hashes \cup {ext_next_id}
      /\ file_hashes'[ext_next_id] = content
      /\ \A i \in DOMAIN file_hashes : i # ext_next_id => file_hashes'[i] = file_hashes[i]
  BY <1>1 DEF Kept
<1>4. IndexTypeOK'
  BY <1>1, <1>2 DEF Indexed, IndexTypeOK
<1>5. \A g \in Key : g # k =>
        /\ file_map'[g] = file_map[g] /\ file_trees'[g] = file_trees[g]
        /\ file_node_ids'[g] = file_node_ids[g] /\ file_edges'[g] = file_edges[g]
  BY <1>1 DEF Indexed, IndexTypeOK
<1>6. /\ file_map'[k] = ext_next_id /\ file_trees'[k] = tree
      /\ file_node_ids'[k] = ExtractNodes(ext_next_id, tree)
      /\ file_edges'[k] = ExtractEdges(ext_next_id, tree)
  BY <1>1 DEF Indexed, IndexTypeOK
<1>7. MetadataAgrees'
  <2> SUFFICES ASSUME NEW g \in Key
               PROVE  IF file_map'[g] = 0
                        THEN file_node_ids'[g] = {} /\ file_trees'[g] = NoContent
                        ELSE /\ file_map'[g] \in DOMAIN file_hashes'
                             /\ file_trees'[g] # NoContent
                             /\ file_node_ids'[g] = ExtractNodes(file_map'[g], file_trees'[g])
                             /\ file_edges'[g] = ExtractEdges(file_map'[g], file_trees'[g])
    BY DEF MetadataAgrees, ExtractNodes, ExtractEdges
  <2>1. CASE g = k
    BY <2>1, <1>3, <1>6, NoContentAssumption DEF Indexed, IndexTypeOK
  <2>2. CASE g # k
    BY <2>2, <1>3, <1>5 DEF Indexed, MetadataAgrees
  <2> QED BY <2>1, <2>2
<1>8. \A g \in Key : g # k => Digest(g)' = Digest(g)
  BY <1>3, <1>5 DEF Digest, Indexed, IndexTypeOK
<1> QED BY <1>1, <1>3, <1>4, <1>5, <1>6, <1>7, <1>8 DEF Indexed

(* The paths of the walk and of the events give keys, different files      *)
(* different ones.                                                         *)
LEMMA RelKey ==
  \A f \in File : /\ Rel(WalkPath(f)) \in Key /\ Rel(EventPath(f)) \in Key
                  /\ \A g \in File : f # g => /\ Rel(EventPath(f)) # Rel(EventPath(g))
                                             /\ Rel(WalkPath(f)) # Rel(WalkPath(g))
BY DEF Rel, WalkPath, EventPath, Key

(* index_project and cmd_index_incremental leave the project indexed, and  *)
(* the digest on record is that of what was read.                          *)
LEMMA ReindexIndexed ==
  ASSUME Indexed, NEW path, NEW k \in Key, k = Rel(path), NEW content \in Content,
         IndexFile(path, content) \/ ReindexFile(path, content)
  PROVE  /\ Indexed' /\ Digest(k)' = content
         /\ \A g \in Key : g # k => Digest(g)' = Digest(g)
<1>1. CASE Digest(k) = content /\ UNCHANGED indexVars
  BY <1>1 DEF indexVars, Digest, Indexed, IndexTypeOK, MetadataAgrees
<1>2. CASE \E tree \in Content : Remember(k, ext_next_id, content, tree)
  <2>1. PICK tree \in Content : Remember(k, ext_next_id, content, tree)
    BY <1>2
  <2>2. /\ Indexed' /\ file_map'[k] = ext_next_id
        /\ ext_next_id \in DOMAIN file_hashes' /\ file_hashes'[ext_next_id] = content
        /\ \A g \in Key : g # k => Digest(g)' = Digest(g)
    BY <2>1, WrittenIndexed
  <2>3. ext_next_id # 0
    BY DEF Indexed, IndexTypeOK
  <2> QED BY <2>2, <2>3 DEF Digest
<1>3. CASE IndexFile(path, content)
  BY <1>2, <1>3 DEF IndexFile
<1>4. CASE ReindexFile(path, content)
  <2>1. \A tree \in Trees(content, file_trees[k]) : tree \in Content
    BY DEF Trees, Indexed, IndexTypeOK
  <2> QED BY <1>1, <1>2, <1>4, <2>1 DEF ReindexFile
<1> QED BY <1>3, <1>4

(* Nothing is indexed yet.                                                 *)
LEMMA IndexedInit ==
  ASSUME IndexInit
  PROVE  Indexed
BY DEF IndexInit, Indexed, IndexTypeOK, MetadataAgrees

(* A step that leaves the index alone.                                     *)
LEMMA IndexedKept ==
  ASSUME Indexed, UNCHANGED indexVars
  PROVE  Indexed' /\ \A k \in Key : Digest(k)' = Digest(k)
BY DEF Indexed, IndexTypeOK, MetadataAgrees, indexVars, Digest

(* A file is re-indexed as a whole, its metadata with its nodes.           *)
LEMMA IndexedStep ==
  ASSUME Indexed, WatchNext
  PROVE  Indexed'
<1>1. CASE UNCHANGED indexVars
  BY <1>1, IndexedKept
<1>2. ASSUME NEW f \in File, InitialIndex(f) PROVE Indexed'
  BY <1>1, <1>2, ReindexIndexed, RelKey DEF InitialIndex
<1>3. ASSUME NEW f \in File, Reindex(f) PROVE Indexed'
  BY <1>1, <1>3, ReindexIndexed, RelKey DEF Reindex
<1>4. CASE Collect \/ Register \/ Receive \/ Environment
  BY <1>1, <1>4 DEF Collect, Register, Receive, Take, Environment, Write, Delete, Noise, Elapse
<1> QED BY <1>2, <1>3, <1>4 DEF WatchNext, Tool

(* The index and its metadata agree throughout.                            *)
LEMMA IndexedInvariant == WatchSpec => []Indexed
<1>1. WatchInit => Indexed
  BY IndexedInit DEF WatchInit
<1>2. Indexed /\ [WatchNext]_sysVars => Indexed'
  BY IndexedStep, IndexedKept DEF sysVars
<1> QED BY <1>1, <1>2, PTL DEF WatchSpec

(* file_map, file_hashes, file_node_ids, file_edges and file_trees never    *)
(* disagree about which extraction of a file is current.                    *)
THEOREM MetadataCorrect == WatchSpec => []MetadataAgrees
<1>1. Indexed => MetadataAgrees
  BY DEF Indexed
<1> QED BY <1>1, IndexedInvariant, PTL

-----------------------------------------------------------------------------
(* No change is lost.                                                      *)

Event == [kind : {"Create", "Modify", "Remove", "Other"}, path : File] \cup [kind : {"Error"}]

WatchTypeOK ==
  /\ disk \in [File -> DiskState]
  /\ phase \in {"collect", "index", "watch"}
  /\ channel \in Seq(Event)
  /\ pending \in [File -> {"none", "young", "due"}]
  /\ ready \subseteq File /\ watched \subseteq File
  /\ phase # "watch" => watched = {} /\ ready = {}

(* The digest that the next event about f is compared with                 *)
DigestOf(f) == Digest(Rel(EventPath(f)))

WatchInv == WatchTypeOK /\ NoChangeLost

(* A step that leaves the disk, the digests and the loop alone             *)
LEMMA NothingLost ==
  ASSUME WatchInv, UNCHANGED <<disk, channel, pending, ready, watched>>,
         phase' = phase \/ (ready = {} /\ phase' \in {"index", "watch"} /\ phase # "watch"),
         \A f \in watched : DigestOf(f)' = DigestOf(f)
  PROVE  WatchInv'
<1>1. WatchTypeOK'
  BY DEF WatchInv, WatchTypeOK
<1>2. \A f : InFlight(f)' = InFlight(f)
  BY DEF InFlight
<1>3. NoChangeLost'
  BY <1>2 DEF WatchInv, NoChangeLost, UpToDate, DigestOf
<1> QED BY <1>1, <1>3 DEF WatchInv

(* An event is put at the end of the channel                               *)
LEMMA EventPosted ==
  ASSUME WatchInv, phase = "watch", NEW e \in Event, channel' = Append(channel, e)
  PROVE  /\ channel' \in Seq(Event)
         /\ \A i \in DOMAIN channel : i \in DOMAIN channel' /\ channel'[i] = channel[i]
         /\ \E i \in DOMAIN channel' : channel'[i] = e
<1>1. channel \in Seq(Event)
  BY DEF WatchInv, WatchTypeOK
<1>2. /\ channel' \in Seq(Event) /\ Len(channel) + 1 \in DOMAIN channel'
      /\ channel'[Len(channel) + 1] = e
      /\ \A i \in DOMAIN channel : i \in DOMAIN channel' /\ channel'[i] = channel[i]
  BY <1>1
<1> QED BY <1>2

(* The disk changes at f, and under watch an event says so                 *)
LEMMA ChangeNotLost ==
  ASSUME WatchInv, Indexed, NEW f \in File, NEW c \in DiskState, disk' = [disk EXCEPT ![f] = c],
         NEW e \in Event, Post(e), c \in Content => e.kind \in {"Create", "Modify"} /\ e.path = f,
         watched' = IF phase = "watch" THEN watched \cup {f} ELSE watched,
         UNCHANGED <<indexVars, phase, pending, ready>>
  PROVE  WatchInv'
<1>1. disk' \in [File -> DiskState] /\ disk'[f] = c /\ \A g \in File : g # f => disk'[g] = disk[g]
  BY DEF WatchInv, WatchTypeOK
<1>2. \A g \in File : DigestOf(g)' = DigestOf(g)
  BY IndexedKept, RelKey DEF DigestOf
<1>3. CASE phase # "watch"
  BY <1>1, <1>3 DEF WatchInv, WatchTypeOK, NoChangeLost, Post
<1>4. CASE phase = "watch"
  <2>1. channel' = Append(channel, e) /\ watched' = watched \cup {f}
    BY <1>4 DEF Post
  <2>2. /\ channel' \in Seq(Event)
        /\ \A i \in DOMAIN channel : i \in DOMAIN channel' /\ channel'[i] = channel[i]
        /\ \E i \in DOMAIN channel' : channel'[i] = e
    BY <1>4, <2>1, EventPosted
  <2>3. WatchTypeOK'
    BY <1>1, <1>4, <2>1, <2>2 DEF WatchInv, WatchTypeOK
  <2>4. \A g \in File : InFlight(g) => InFlight(g)'
    BY <2>2 DEF InFlight
  <2>5. c \in Content => InFlight(f)'
    BY <2>2 DEF InFlight
  <2>6. NoChangeLost'
    <3> SUFFICES ASSUME NEW g \in watched', disk'[g] \in Content
                 PROVE  UpToDate(g)' \/ InFlight(g)'
      BY DEF NoChangeLost
    <3>1. CASE g = f
      BY <1>1, <2>5, <3>1
    <3>2. CASE g # f
      <4>1. g \in watched /\ g \in File /\ disk[g] \in Content /\ disk'[g] = disk[g]
        BY <1>1, <2>1, <3>2 DEF WatchInv, WatchTypeOK
      <4> QED BY <1>2, <2>4, <4>1 DEF WatchInv, NoChangeLost, UpToDate, DigestOf
    <3> QED BY <3>1, <3>2
  <2> QED BY <2>3, <2>6 DEF WatchInv
<1> QED BY <1>3, <1>4

(* An event that stands for no change                                      *)
LEMMA NoiseNotLost ==
  ASSUME WatchInv, Indexed, NEW e \in Event, Noise(e)
  PROVE  WatchInv'
<1>1. /\ phase = "watch" /\ channel' = Append(channel, e)
      /\ UNCHANGED <<indexVars, phase, pending, ready, disk, watched>>
  BY DEF Noise
<1>2. /\ channel' \in Seq(Event)
      /\ \A i \in DOMAIN channel : i \in DOMAIN channel' /\ channel'[i] = channel[i]
  BY <1>1, EventPosted
<1>3. WatchTypeOK'
  BY <1>1, <1>2 DEF WatchInv, WatchTypeOK
<1>4. \A g \in File : DigestOf(g)' = DigestOf(g)
  BY <1>1, IndexedKept, RelKey DEF DigestOf
<1>5. \A g \in File : InFlight(g) => InFlight(g)'
  BY <1>1, <1>2 DEF InFlight
<1>6. NoChangeLost'
  BY <1>1, <1>4, <1>5 DEF WatchInv, WatchTypeOK, NoChangeLost, UpToDate, DigestOf
<1> QED BY <1>3, <1>6 DEF WatchInv

(* 100 ms pass                                                             *)
LEMMA ElapseNotLost ==
  ASSUME WatchInv, Indexed, Elapse
  PROVE  WatchInv'
<1>1. /\ pending' = [f \in File |-> IF pending[f] = "young" THEN "due" ELSE pending[f]]
      /\ UNCHANGED <<indexVars, phase, channel, ready, disk, watched>>
  BY DEF Elapse
<1>2. WatchTypeOK'
  BY <1>1 DEF WatchInv, WatchTypeOK
<1>3. \A g \in File : DigestOf(g)' = DigestOf(g)
  BY <1>1, IndexedKept, RelKey DEF DigestOf
<1>4. \A g \in File : InFlight(g) => InFlight(g)'
  BY <1>1 DEF InFlight
<1>5. NoChangeLost'
  BY <1>1, <1>3, <1>4 DEF WatchInv, WatchTypeOK, NoChangeLost, UpToDate, DigestOf
<1> QED BY <1>2, <1>5 DEF WatchInv

(* Receive hands a due entry over and drops nothing else                   *)
LEMMA ReceiveNotLost ==
  ASSUME WatchInv, Indexed, Receive
  PROVE  WatchInv'
<1> DEFINE e == Head(channel)
           due == IF e.kind = "Error" THEN {} ELSE Due(e)
<1>1. /\ phase = "watch" /\ ready = {} /\ channel # <<>> /\ channel' = Tail(channel) /\ ready' = due
      /\ pending' = [f \in File |-> IF f \in due THEN "none" ELSE Touched(e)[f]]
      /\ UNCHANGED <<indexVars, phase, disk, watched>>
  BY DEF Receive, Take
<1>2. /\ channel \in Seq(Event) /\ e \in Event /\ 1 \in DOMAIN channel /\ e = channel[1]
      /\ channel' \in Seq(Event)
      /\ \A i \in DOMAIN channel : i # 1 => i - 1 \in DOMAIN channel' /\ channel'[i - 1] = channel[i]
  BY <1>1 DEF WatchInv, WatchTypeOK
<1>3. e.kind \in {"Create", "Modify"} => e.path \in File
  BY <1>2 DEF Event
<1>4. due \subseteq File
  BY DEF Due
<1> HIDE DEF e, due
<1>5. /\ Touched(e) \in [File -> {"none", "young", "due"}]
      /\ \A f \in File : pending[f] # "none" => Touched(e)[f] # "none"
      /\ e.kind \in {"Create", "Modify"} => Touched(e)[e.path] = "young"
  BY <1>3 DEF Touched, WatchInv, WatchTypeOK
<1>6. WatchTypeOK'
  BY <1>1, <1>2, <1>4, <1>5 DEF WatchInv, WatchTypeOK
<1>7. \A f \in File : Touched(e)[f] # "none" => f \in ready' \/ pending'[f] # "none"
  BY <1>1
<1>8. ASSUME NEW f \in File, InFlight(f) PROVE InFlight(f)'
  <2>1. CASE pending[f] # "none"
    BY <1>5, <1>7, <2>1 DEF InFlight
  <2>2. CASE \E i \in DOMAIN channel : channel[i].kind \in {"Create", "Modify"} /\ channel[i].path = f
    <3>1. PICK i \in DOMAIN channel : channel[i].kind \in {"Create", "Modify"} /\ channel[i].path = f
      BY <2>2
    <3>2. CASE i = 1
      BY <1>2, <1>5, <1>7, <3>1, <3>2 DEF InFlight
    <3>3. CASE i # 1
      BY <1>2, <3>1, <3>3 DEF InFlight
    <3> QED BY <3>2, <3>3
  <2> QED BY <1>1, <1>8, <2>1, <2>2 DEF InFlight
<1>9. \A f \in File : DigestOf(f)' = DigestOf(f)
  BY <1>1, IndexedKept, RelKey DEF DigestOf
<1>10. NoChangeLost'
  BY <1>1, <1>8, <1>9 DEF WatchInv, WatchTypeOK, NoChangeLost, UpToDate, DigestOf
<1> QED BY <1>6, <1>10 DEF WatchInv

(* A file that was re-indexed is up to date, or could not be read          *)
LEMMA ReindexNotLost ==
  ASSUME WatchInv, Indexed, NEW f \in File, Reindex(f)
  PROVE  WatchInv'
<1>1. /\ f \in ready /\ ready' = ready \ {f}
      /\ UNCHANGED <<phase, channel, pending, disk, watched>>
  BY DEF Reindex
<1>2. WatchTypeOK'
  BY <1>1 DEF WatchInv, WatchTypeOK
<1>3. \A g \in File : g # f => DigestOf(g)' = DigestOf(g)
  <2>1. CASE disk[f] \in Content /\ ReindexFile(EventPath(f), disk[f])
    BY <2>1, ReindexIndexed, RelKey DEF DigestOf
  <2>2. CASE UNCHANGED indexVars
    BY <2>2, IndexedKept, RelKey DEF DigestOf
  <2> QED BY <2>1, <2>2 DEF Reindex
<1>4. disk[f] \in Content => DigestOf(f)' = disk[f]
  BY ReindexIndexed, RelKey DEF Reindex, DigestOf
<1>5. \A g \in File : g # f /\ InFlight(g) => InFlight(g)'
  BY <1>1 DEF InFlight
<1>6. NoChangeLost'
  BY <1>1, <1>3, <1>4, <1>5 DEF WatchInv, WatchTypeOK, NoChangeLost, UpToDate, DigestOf
<1> QED BY <1>2, <1>6 DEF WatchInv

(* Every step of the watcher, the loop and the editors leaves a changed    *)
(* file up to date or on its way.                                          *)
LEMMA WatchStep ==
  ASSUME WatchInv, Indexed, WatchNext
  PROVE  WatchInv'
<1>1. CASE Collect \/ Register
  <2>1. /\ UNCHANGED <<indexVars, disk, channel, pending, ready, watched>>
        /\ phase # "watch" /\ phase' \in {"index", "watch"}
    BY <1>1 DEF Collect, Register
  <2> QED BY <2>1, IndexedKept, RelKey, NothingLost DEF DigestOf, WatchInv, WatchTypeOK
<1>2. ASSUME NEW f \in File, InitialIndex(f) PROVE WatchInv'
  <2>1. phase = "index" /\ UNCHANGED <<phase, channel, pending, ready, disk, watched>>
    BY <1>2 DEF InitialIndex
  <2>2. watched = {}
    BY <2>1 DEF WatchInv, WatchTypeOK
  <2> QED BY <2>1, <2>2, NothingLost
<1>3. CASE Receive
  BY <1>3, ReceiveNotLost
<1>4. ASSUME NEW f \in File, Reindex(f) PROVE WatchInv'
  BY <1>4, ReindexNotLost
<1>5. ASSUME NEW f \in File, NEW c \in DiskState, Write(f, c) PROVE WatchInv'
  <2> DEFINE e == [kind |-> IF disk[f] = Missing THEN "Create" ELSE "Modify", path |-> f]
  <2>1. e \in Event /\ e.kind \in {"Create", "Modify"} /\ e.path = f
    BY DEF Event
  <2>2. /\ disk' = [disk EXCEPT ![f] = c] /\ Post(e)
        /\ watched' = IF phase = "watch" THEN watched \cup {f} ELSE watched
        /\ UNCHANGED <<indexVars, phase, pending, ready>>
    BY <1>5 DEF Write
  <2> HIDE DEF e
  <2> QED BY <2>1, <2>2, ChangeNotLost
<1>6. ASSUME NEW f \in File, Delete(f) PROVE WatchInv'
  <2> DEFINE e == [kind |-> "Remove", path |-> f]
  <2>1. e \in Event /\ Missing \in DiskState /\ Missing \notin Content
    BY DiskAssumption DEF Event, DiskState
  <2>2. /\ disk' = [disk EXCEPT ![f] = Missing] /\ Post(e)
        /\ watched' = IF phase = "watch" THEN watched \cup {f} ELSE watched
        /\ UNCHANGED <<indexVars, phase, pending, ready>>
    BY <1>6 DEF Delete
  <2> HIDE DEF e
  <2> QED BY <2>1, <2>2, ChangeNotLost
<1>7. CASE \/ \E f \in File : Noise([kind |-> "Other", path |-> f])
           \/ Noise([kind |-> "Error"])
  <2>1. /\ \A f \in File : [kind |-> "Other", path |-> f] \in Event
        /\ [kind |-> "Error"] \in Event
    BY DEF Event
  <2> QED BY <1>7, <2>1, NoiseNotLost
<1>8. CASE Elapse
  BY <1>8, ElapseNotLost
<1> QED BY <1>1, <1>2, <1>3, <1>4, <1>5, <1>6, <1>7, <1>8 DEF WatchNext, Tool, Environment

(* No change is lost on the way from the watcher to the index.             *)
LEMMA WatchInvariant == WatchSpec => []WatchInv
<1>1. WatchInit => WatchInv
  <2> SUFFICES ASSUME WatchInit PROVE WatchInv
    OBVIOUS
  <2>1. /\ disk \in [File -> DiskState] /\ phase = "collect" /\ channel = <<>>
        /\ pending = [f \in File |-> "none"] /\ ready = {} /\ watched = {}
    BY DEF WatchInit
  <2>2. channel \in Seq(Event)
    BY <2>1
  <2> QED BY <2>1, <2>2 DEF WatchInv, WatchTypeOK, NoChangeLost
<1>2. Indexed /\ WatchInv /\ [WatchNext]_sysVars => WatchInv'
  <2> SUFFICES ASSUME Indexed, WatchInv, [WatchNext]_sysVars PROVE WatchInv'
    OBVIOUS
  <2>1. CASE UNCHANGED sysVars
    <3>1. UNCHANGED <<indexVars, disk, channel, pending, ready, watched, phase>>
      BY <2>1 DEF sysVars, watchVars
    <3> QED BY <3>1, IndexedKept, RelKey, NothingLost DEF DigestOf, WatchInv, WatchTypeOK
  <2> QED BY <2>1, WatchStep
<1> QED BY <1>1, <1>2, IndexedInvariant, PTL DEF WatchSpec

(* No change made under the watcher's eyes is lost, whatever the            *)
(* interleaving of edits with receive, debounce and re-index.               *)
THEOREM NoChangeLostCorrect == WatchSpec => []NoChangeLost
<1>1. WatchInv => NoChangeLost
  BY DEF WatchInv
<1> QED BY <1>1, WatchInvariant, PTL

-----------------------------------------------------------------------------
(* The graph is the sum of the files.                                      *)

(* The ids the current extraction of k took                                *)
Span(k) == IF file_map[k] = 0 THEN {} ELSE file_map[k] .. file_map[k] + IdsOf[file_trees[k]] - 1

(* The extractions of different files took different ids, all of them      *)
(* before the extractor's counter.                                         *)
SpansApart ==
  /\ \A k \in Key : Span(k) \subseteq 1 .. ext_next_id - 1
  /\ \A k, g \in Key : k # g => Span(k) \cap Span(g) = {}
  /\ \A k \in Key : file_map[k] = 0 => file_edges[k] = EmptyBag

(* What is in the graph lies below the counter, and the current extraction *)
(* under every key is in the graph.                                        *)
KeysStored ==
  /\ graph_nodes \subseteq 1 .. ext_next_id - 1
  /\ \A p \in DOMAIN graph_edges : p[1] \in 1 .. ext_next_id - 1 /\ graph_edges[p] \in Nat
  /\ \A k \in Key : file_node_ids[k] \subseteq graph_nodes
  /\ \A k \in Key : \A p \in DOMAIN file_edges[k] :
       p \in DOMAIN graph_edges /\ graph_edges[p] = file_edges[k][p]

GraphInv == SpansApart /\ KeysStored

(* Nothing else is in the graph.                                           *)
NothingElse ==
  /\ graph_nodes \subseteq UNION {file_node_ids[k] : k \in Key}
  /\ DOMAIN graph_edges \subseteq UNION {DOMAIN file_edges[k] : k \in Key}

(* An extraction stays within the ids it takes                             *)
LEMMA OutlineInSpan ==
  ASSUME NEW base \in Nat, NEW c \in Content
  PROVE  /\ ExtractNodes(base, c) \subseteq base .. base + IdsOf[c] - 1
         /\ \A p \in DOMAIN ExtractEdges(base, c) :
              /\ p[1] \in base .. base + IdsOf[c] - 1 /\ p[2] \in base .. base + IdsOf[c] - 1
              /\ ExtractEdges(base, c)[p] \in Nat \ {0}
<1>1. /\ IdsOf[c] \in Nat \ {0} /\ NodesOf[c] \subseteq 0 .. IdsOf[c] - 1
      /\ IsABag(EdgesOf[c])
      /\ DOMAIN EdgesOf[c] \subseteq (0 .. IdsOf[c] - 1) \X (0 .. IdsOf[c] - 1)
  BY OutlineAssumption
<1>2. ExtractNodes(base, c) \subseteq base .. base + IdsOf[c] - 1
  BY <1>1 DEF ExtractNodes
<1>3. ASSUME NEW p \in DOMAIN ExtractEdges(base, c)
      PROVE  /\ p[1] \in base .. base + IdsOf[c] - 1 /\ p[2] \in base .. base + IdsOf[c] - 1
             /\ ExtractEdges(base, c)[p] \in Nat \ {0}
  <2>1. PICK q \in DOMAIN EdgesOf[c] : p = <<base + q[1], base + q[2]>>
    BY DEF ExtractEdges
  <2>2. /\ q[1] \in 0 .. IdsOf[c] - 1 /\ q[2] \in 0 .. IdsOf[c] - 1 /\ q = <<q[1], q[2]>>
        /\ EdgesOf[c][q] \in Nat \ {0}
    BY <1>1 DEF IsABag
  <2>3. p[1] = base + q[1] /\ p[2] = base + q[2]
    BY <2>1
  <2>4. p[1] - base = q[1] /\ p[2] - base = q[2]
    BY <2>2, <2>3
  <2>5. ExtractEdges(base, c)[p] = EdgesOf[c][<<p[1] - base, p[2] - base>>]
    BY DEF ExtractEdges
  <2> QED BY <1>1, <2>2, <2>3, <2>4, <2>5
<1> QED BY <1>2, <1>3

(* A file's nodes and the ends of its edges lie in its span                *)
LEMMA FilesInSpan ==
  ASSUME Indexed, SpansApart, NEW k \in Key
  PROVE  /\ file_node_ids[k] \subseteq Span(k)
         /\ \A p \in DOMAIN file_edges[k] :
              p[1] \in Span(k) /\ p[2] \in Span(k) /\ file_edges[k][p] \in Nat \ {0}
<1>1. CASE file_map[k] = 0
  <2>1. file_node_ids[k] = {} /\ file_edges[k] = EmptyBag
    BY <1>1 DEF Indexed, MetadataAgrees, SpansApart
  <2>2. DOMAIN EmptyBag = {}
    BY DEF EmptyBag, SetToBag
  <2> QED BY <2>1, <2>2
<1>2. CASE file_map[k] # 0
  <2>1. /\ file_node_ids[k] = ExtractNodes(file_map[k], file_trees[k])
        /\ file_edges[k] = ExtractEdges(file_map[k], file_trees[k])
        /\ file_trees[k] \in Content /\ file_map[k] \in Nat
    BY <1>2 DEF Indexed, IndexTypeOK, MetadataAgrees
  <2>2. Span(k) = file_map[k] .. file_map[k] + IdsOf[file_trees[k]] - 1
    BY <1>2 DEF Span
  <2> QED BY <2>1, <2>2, OutlineInSpan
<1> QED BY <1>1, <1>2

(* A new extraction takes a span of its own                                *)
LEMMA NewSpan ==
  ASSUME Indexed, SpansApart, NEW k \in Key, NEW content \in Content, NEW tree \in Content,
         Remember(k, ext_next_id, content, tree)
  PROVE  /\ SpansApart' /\ Span(k)' \cap 1 .. ext_next_id - 1 = {}
         /\ \A g \in Key : g # k => Span(g)' = Span(g)
<1>1. /\ Indexed' /\ ext_next_id' = ext_next_id + IdsOf[tree] /\ file_map'[k] = ext_next_id
      /\ file_trees'[k] = tree
      /\ \A g \in Key : g # k =>
           /\ file_map'[g] = file_map[g] /\ file_trees'[g] = file_trees[g]
           /\ file_edges'[g] = file_edges[g]
  BY WrittenIndexed
<1>2. ext_next_id \in Nat \ {0} /\ IdsOf[tree] \in Nat \ {0}
  BY OutlineAssumption DEF Indexed, IndexTypeOK
<1>3. Span(k)' = ext_next_id .. ext_next_id + IdsOf[tree] - 1
  BY <1>1, <1>2 DEF Span
<1>4. \A g \in Key : g # k => Span(g)' = Span(g)
  BY <1>1 DEF Span
<1>5. Span(k)' \cap 1 .. ext_next_id - 1 = {}
  BY <1>2, <1>3
<1>6. \A g \in Key : Span(g)' \subseteq 1 .. ext_next_id' - 1
  <2> SUFFICES ASSUME NEW g \in Key, NEW i \in Span(g)'
               PROVE  i \in 1 .. ext_next_id' - 1
    OBVIOUS
  <2>1. CASE g = k
    BY <1>1, <1>2, <1>3, <2>1
  <2>2. CASE g # k
    <3>1. i \in 1 .. ext_next_id - 1
      BY <1>4, <2>2 DEF SpansApart
    <3> QED BY <1>1, <1>2, <3>1
  <2> QED BY <2>1, <2>2
<1>7. ASSUME NEW g \in Key, NEW h \in Key, g # h PROVE Span(g)' \cap Span(h)' = {}
  <2>1. \A i \in Key : i # k => Span(i)' \subseteq 1 .. ext_next_id - 1
    BY <1>4 DEF SpansApart
  <2> QED BY <1>4, <1>5, <1>7, <2>1 DEF SpansApart
<1>8. \A g \in Key : file_map'[g] = 0 => file_edges'[g] = EmptyBag
  BY <1>1, <1>2 DEF SpansApart
<1> QED BY <1>4, <1>5, <1>6, <1>7, <1>8 DEF SpansApart

(* Different files share neither nodes nor edges                           *)
LEMMA FilesApart ==
  ASSUME Indexed, SpansApart, NEW k \in Key, NEW g \in Key, k # g
  PROVE  /\ file_node_ids[k] \cap file_node_ids[g] = {}
         /\ DOMAIN file_edges[k] \cap DOMAIN file_edges[g] = {}
         /\ \A p \in DOMAIN file_edges[g] : p[1] \notin file_node_ids[k] /\ p[2] \notin file_node_ids[k]
<1>1. Span(k) \cap Span(g) = {}
  BY DEF SpansApart
<1>2. /\ file_node_ids[k] \subseteq Span(k) /\ file_node_ids[g] \subseteq Span(g)
      /\ \A p \in DOMAIN file_edges[k] : p[1] \in Span(k)
      /\ \A p \in DOMAIN file_edges[g] : p[1] \in Span(g) /\ p[2] \in Span(g)
  BY FilesInSpan
<1> QED BY <1>1, <1>2

(* The new extraction under k and what is in the graph                     *)
LEMMA ExtractionNew ==
  ASSUME Indexed, GraphInv, NEW k \in Key, NEW content \in Content, NEW tree \in Content,
         Remember(k, ext_next_id, content, tree)
  PROVE  /\ file_node_ids'[k] = ExtractNodes(ext_next_id, tree)
         /\ file_edges'[k] = ExtractEdges(ext_next_id, tree)
         /\ file_node_ids'[k] \subseteq 1 .. ext_next_id' - 1
         /\ file_node_ids'[k] \cap graph_nodes = {}
         /\ DOMAIN file_edges'[k] \cap DOMAIN graph_edges = {}
         /\ \A p \in DOMAIN file_edges'[k] : p[1] \in 1 .. ext_next_id' - 1 /\ file_edges'[k][p] \in Nat
<1>1. /\ file_node_ids'[k] = ExtractNodes(ext_next_id, tree)
      /\ file_edges'[k] = ExtractEdges(ext_next_id, tree)
  BY DEF Remember, Written, Indexed, IndexTypeOK
<1>2. SpansApart' /\ Span(k)' \cap 1 .. ext_next_id - 1 = {} /\ Indexed'
  BY NewSpan, WrittenIndexed DEF GraphInv
<1>3. /\ file_node_ids'[k] \subseteq Span(k)'
      /\ \A p \in DOMAIN file_edges'[k] : p[1] \in Span(k)' /\ file_edges'[k][p] \in Nat
  <2>1. ext_next_id \in Nat /\ IdsOf[tree] \in Nat \ {0} /\ file_map'[k] # 0
    BY OutlineAssumption, WrittenIndexed DEF Indexed, IndexTypeOK
  <2>2. Span(k)' = ext_next_id .. ext_next_id + IdsOf[tree] - 1
    BY <2>1, WrittenIndexed DEF Span
  <2> QED BY <1>1, <2>1, <2>2, OutlineInSpan
<1>4. Span(k)' \subseteq 1 .. ext_next_id' - 1
  BY <1>2 DEF SpansApart
<1> QED BY <1>1, <1>2, <1>3, <1>4 DEF GraphInv, KeysStored

(* The extraction under k is replaced: what goes belongs to no other key   *)
LEMMA SubgraphReplaced ==
  ASSUME Indexed, GraphInv, NEW k \in Key, NEW content \in Content, NEW tree \in Content,
         Remember(k, ext_next_id, content, tree), NEW gone, NEW cut,
         \A g \in Key : g # k => gone \cap file_node_ids[g] = {} /\ cut \cap DOMAIN file_edges[g] = {},
         graph_nodes' = (graph_nodes \ gone) \cup file_node_ids'[k],
         DOMAIN graph_edges' = (DOMAIN graph_edges \ cut) \cup DOMAIN file_edges'[k],
         \A p \in DOMAIN file_edges'[k] : graph_edges'[p] = file_edges'[k][p],
         \A p \in DOMAIN graph_edges \ cut : graph_edges'[p] = graph_edges[p]
  PROVE  /\ GraphInv'
         /\ NothingElse /\ file_node_ids[k] \subseteq gone /\ DOMAIN file_edges[k] \subseteq cut => NothingElse'
<1>1. /\ SpansApart'
      /\ file_node_ids'[k] \subseteq 1 .. ext_next_id' - 1
      /\ \A p \in DOMAIN file_edges'[k] : p[1] \in 1 .. ext_next_id' - 1 /\ file_edges'[k][p] \in Nat
  BY NewSpan, ExtractionNew DEF GraphInv
<1>2. \A g \in Key : g # k => file_node_ids'[g] = file_node_ids[g] /\ file_edges'[g] = file_edges[g]
  BY WrittenIndexed
<1>3. 1 .. ext_next_id - 1 \subseteq 1 .. ext_next_id' - 1
  <2>1. ext_next_id \in Nat /\ ext_next_id' = ext_next_id + IdsOf[tree] /\ IdsOf[tree] \in Nat
    BY OutlineAssumption, WrittenIndexed DEF Indexed, IndexTypeOK
  <2> QED BY <2>1
<1>4. graph_nodes' \subseteq 1 .. ext_next_id' - 1
  BY <1>1, <1>3 DEF GraphInv, KeysStored
<1>5. ASSUME NEW p \in DOMAIN graph_edges'
      PROVE  p[1] \in 1 .. ext_next_id' - 1 /\ graph_edges'[p] \in Nat
  <2>1. CASE p \in DOMAIN file_edges'[k]
    BY <1>1, <2>1
  <2>2. CASE p \in DOMAIN graph_edges \ cut
    BY <1>3, <2>2 DEF GraphInv, KeysStored
  <2> QED BY <2>1, <2>2
<1>6. \A g \in Key : file_node_ids'[g] \subseteq graph_nodes'
  BY <1>2 DEF GraphInv, KeysStored
<1>7. ASSUME NEW g \in Key, NEW p \in DOMAIN file_edges'[g]
      PROVE  p \in DOMAIN graph_edges' /\ graph_edges'[p] = file_edges'[g][p]
  <2>1. CASE g = k
    BY <2>1
  <2>2. CASE g # k
    <3>1. p \in DOMAIN file_edges[g] /\ p \in DOMAIN graph_edges \ cut /\ graph_edges[p] = file_edges[g][p]
      BY <1>2, <2>2 DEF GraphInv, KeysStored
    <3> QED BY <1>2, <2>2, <3>1
  <2> QED BY <2>1, <2>2
<1>8. GraphInv'
  BY <1>1, <1>4, <1>5, <1>6, <1>7 DEF GraphInv, KeysStored
<1>9. ASSUME NothingElse, file_node_ids[k] \subseteq gone, DOMAIN file_edges[k] \subseteq cut
      PROVE  NothingElse'
  <2>1. ASSUME NEW n \in graph_nodes' PROVE \E g \in Key : n \in file_node_ids'[g]
    BY <1>2, <1>9 DEF NothingElse
  <2>2. ASSUME NEW p \in DOMAIN graph_edges' PROVE \E g \in Key : p \in DOMAIN file_edges'[g]
    BY <1>2, <1>9 DEF NothingElse
  <2> QED BY <2>1, <2>2 DEF NothingElse
<1> QED BY <1>8, <1>9

(* index_project reads a file                                              *)
LEMMA IndexFileUnion ==
  ASSUME Indexed, GraphInv, NEW path, NEW k \in Key, k = Rel(path), NEW content \in Content,
         IndexFile(path, content)
  PROVE  GraphInv' /\ (NothingElse /\ file_map[k] = 0 => NothingElse')
<1>1. /\ Remember(k, ext_next_id, content, content)
      /\ graph_nodes' = graph_nodes \cup ExtractNodes(ext_next_id, content)
      /\ graph_edges' = graph_edges (+) ExtractEdges(ext_next_id, content)
  BY DEF IndexFile
<1>2. /\ file_node_ids'[k] = ExtractNodes(ext_next_id, content)
      /\ file_edges'[k] = ExtractEdges(ext_next_id, content)
      /\ DOMAIN file_edges'[k] \cap DOMAIN graph_edges = {}
      /\ \A p \in DOMAIN file_edges'[k] : file_edges'[k][p] \in Nat
  BY <1>1, ExtractionNew
<1>3. file_map[k] = 0 => file_node_ids[k] = {} /\ DOMAIN file_edges[k] = {}
  BY DEF Indexed, MetadataAgrees, GraphInv, SpansApart, EmptyBag, SetToBag
<1>4. /\ DOMAIN graph_edges' = DOMAIN graph_edges \cup DOMAIN file_edges'[k]
      /\ \A p \in DOMAIN file_edges'[k] : graph_edges'[p] = file_edges'[k][p]
      /\ \A p \in DOMAIN graph_edges : graph_edges'[p] = graph_edges[p]
  <2>1. graph_edges' = graph_edges (+) file_edges'[k]
    BY <1>1, <1>2
  <2>2. \A p \in DOMAIN graph_edges : graph_edges[p] \in Nat
    BY DEF GraphInv, KeysStored
  <2> QED BY <1>2, <2>1, <2>2 DEF (+)
<1> DEFINE none == {}
<1>5. /\ \A g \in Key : g # k => none \cap file_node_ids[g] = {} /\ none \cap DOMAIN file_edges[g] = {}
      /\ graph_nodes' = (graph_nodes \ none) \cup file_node_ids'[k]
      /\ DOMAIN graph_edges' = (DOMAIN graph_edges \ none) \cup DOMAIN file_edges'[k]
      /\ \A p \in DOMAIN graph_edges \ none : graph_edges'[p] = graph_edges[p]
      /\ file_map[k] = 0 => file_node_ids[k] \subseteq none /\ DOMAIN file_edges[k] \subseteq none
  BY <1>1, <1>2, <1>3, <1>4
<1> HIDE DEF none
<1> QED BY <1>1, <1>4, <1>5, SubgraphReplaced

(* The change set of a re-indexed file takes the old extraction under the  *)
(* key out and puts the new one in: the edges that touch its old nodes     *)
(* belong to no other key.                                                 *)
LEMMA ReindexFileUnion ==
  ASSUME Indexed, GraphInv, NEW path, NEW k \in Key, k = Rel(path), NEW content \in Content,
         ReindexFile(path, content)
  PROVE  GraphInv' /\ (NothingElse => NothingElse')
<1>1. CASE UNCHANGED indexVars
  BY <1>1 DEF GraphInv, SpansApart, Span, KeysStored, NothingElse, indexVars
<1>2. CASE \E tree \in Content :
             /\ Remember(k, ext_next_id, content, tree)
             /\ ApplyTo(ChangeSetOf(file_node_ids[k], file_edges[k],
                          ExtractNodes(ext_next_id, tree), ExtractEdges(ext_next_id, tree)))
  <2>1. PICK tree \in Content :
             /\ Remember(k, ext_next_id, content, tree)
             /\ ApplyTo(ChangeSetOf(file_node_ids[k], file_edges[k],
                          ExtractNodes(ext_next_id, tree), ExtractEdges(ext_next_id, tree)))
    BY <1>2
  <2>2. /\ file_node_ids'[k] = ExtractNodes(ext_next_id, tree)
        /\ file_edges'[k] = ExtractEdges(ext_next_id, tree)
        /\ file_node_ids'[k] \cap graph_nodes = {}
        /\ DOMAIN file_edges'[k] \cap DOMAIN graph_edges = {}
        /\ \A p \in DOMAIN file_edges'[k] : file_edges'[k][p] \in Nat
    BY <2>1, ExtractionNew
  <2>3. file_node_ids[k] \subseteq graph_nodes /\ DOMAIN file_edges[k] \subseteq DOMAIN graph_edges
    BY DEF GraphInv, KeysStored
  <2> DEFINE cs == ChangeSetOf(file_node_ids[k], file_edges[k], file_node_ids'[k], file_edges'[k])
             rest == WithoutPairs(graph_edges, DOMAIN file_edges[k])
             touched == Touching(rest, file_node_ids[k])
             kept == WithoutPairs(rest, touched)
             cut == DOMAIN file_edges[k] \cup touched
  <2>4. /\ cs.added_nodes = file_node_ids'[k] /\ cs.added_edges = file_edges'[k]
        /\ cs.removed_node_ids = file_node_ids[k] /\ cs.removed_edges = DOMAIN file_edges[k]
    BY <2>2, <2>3 DEF ChangeSetOf
  <2>5. ApplyTo(cs)
    BY <2>1, <2>2
  <2>6. /\ DOMAIN rest = DOMAIN graph_edges \ DOMAIN file_edges[k]
        /\ \A p \in DOMAIN rest : rest[p] = graph_edges[p]
    BY DEF WithoutPairs
  <2> HIDE DEF cs
  <2>7. /\ graph_nodes' = (graph_nodes \ file_node_ids[k]) \cup file_node_ids'[k]
        /\ graph_edges' = kept (+) file_edges'[k]
    BY <2>4, <2>5 DEF ApplyTo, EdgesAfter
  <2>8. \A p \in touched : p[1] \in file_node_ids[k] \/ p[2] \in file_node_ids[k]
    BY DEF Touching
  <2> HIDE DEF rest, touched
  <2>9. /\ DOMAIN kept = DOMAIN graph_edges \ cut
        /\ \A p \in DOMAIN kept : kept[p] = graph_edges[p] /\ kept[p] \in Nat
    BY <2>6 DEF WithoutPairs, GraphInv, KeysStored
  <2>10. \A g \in Key : g # k => /\ file_node_ids[k] \cap file_node_ids[g] = {}
                                 /\ cut \cap DOMAIN file_edges[g] = {}
    BY <2>8, FilesApart DEF GraphInv
  <2> HIDE DEF kept
  <2>11. /\ DOMAIN graph_edges' = DOMAIN kept \cup DOMAIN file_edges'[k]
         /\ \A p \in DOMAIN file_edges'[k] : graph_edges'[p] = file_edges'[k][p]
         /\ \A p \in DOMAIN kept : graph_edges'[p] = kept[p]
    <3>1. DOMAIN kept \cap DOMAIN file_edges'[k] = {}
      BY <2>2, <2>9
    <3> QED BY <2>2, <2>7, <2>9, <3>1 DEF (+)
  <2>12. /\ DOMAIN graph_edges' = (DOMAIN graph_edges \ cut) \cup DOMAIN file_edges'[k]
         /\ \A p \in DOMAIN graph_edges \ cut : graph_edges'[p] = graph_edges[p]
         /\ DOMAIN file_edges[k] \subseteq cut
    BY <2>9, <2>11
  <2> DEFINE gone == file_node_ids[k]
  <2>13. /\ \A g \in Key : g # k => gone \cap file_node_ids[g] = {} /\ cut \cap DOMAIN file_edges[g] = {}
         /\ graph_nodes' = (graph_nodes \ gone) \cup file_node_ids'[k]
         /\ file_node_ids[k] \subseteq gone
    BY <2>7, <2>10
  <2>14. /\ Remember(k, ext_next_id, content, tree)
         /\ \A p \in DOMAIN file_edges'[k] : graph_edges'[p] = file_edges'[k][p]
    BY <2>1, <2>11
  <2> HIDE DEF cut, gone
  <2>15. /\ GraphInv'
         /\ NothingElse /\ file_node_ids[k] \subseteq gone /\ DOMAIN file_edges[k] \subseteq cut
              => NothingElse'
    BY ONLY Indexed, GraphInv, k \in Key, content \in Content, tree \in Content,
            <2>12, <2>13, <2>14, SubgraphReplaced
  <2> QED BY <2>12, <2>13, <2>15
<1>3. \A tree \in Trees(content, file_trees[k]) : tree \in Content
  BY DEF Trees, Indexed, IndexTypeOK
<1> QED BY <1>1, <1>2, <1>3 DEF ReindexFile

(* A step that leaves the index alone leaves the union alone.              *)
LEMMA GraphKept ==
  ASSUME UNCHANGED indexVars
  PROVE  /\ GraphInv => GraphInv'
         /\ NothingElse => NothingElse'
BY DEF GraphInv, SpansApart, Span, KeysStored, NothingElse, indexVars

(* Every step keeps the current extractions in the graph.                  *)
LEMMA GraphInvStep ==
  ASSUME Indexed, GraphInv, WatchNext
  PROVE  GraphInv'
<1>1. CASE UNCHANGED indexVars
  BY <1>1, GraphKept
<1>2. ASSUME NEW f \in File, InitialIndex(f) PROVE GraphInv'
  BY <1>1, <1>2, IndexFileUnion, RelKey DEF InitialIndex
<1>3. ASSUME NEW f \in File, Reindex(f) PROVE GraphInv'
  BY <1>1, <1>3, ReindexFileUnion, RelKey DEF Reindex
<1>4. CASE Collect \/ Register \/ Receive \/ Environment
  BY <1>1, <1>4 DEF Collect, Register, Receive, Take, Environment, Write, Delete, Noise, Elapse
<1> QED BY <1>2, <1>3, <1>4 DEF WatchNext, Tool

(* Nothing is in the graph yet                                             *)
LEMMA GraphInvInit ==
  ASSUME WatchInit
  PROVE  GraphInv /\ NothingElse
<1>1. /\ graph_nodes = {} /\ graph_edges = EmptyBag /\ ext_next_id = 1
      /\ file_map = [k \in Key |-> 0] /\ file_node_ids = [k \in Key |-> {}]
      /\ file_edges = [k \in Key |-> EmptyBag]
  BY DEF WatchInit, IndexInit
<1>2. DOMAIN EmptyBag = {}
  BY DEF EmptyBag, SetToBag
<1> QED BY <1>1, <1>2 DEF GraphInv, SpansApart, Span, KeysStored, NothingElse

(* The current extractions are in the graph throughout.                    *)
LEMMA GraphInvariant == WatchSpec => []GraphInv
<1>1. Indexed /\ GraphInv /\ [WatchNext]_sysVars => GraphInv'
  BY GraphInvStep, GraphKept DEF sysVars
<1> QED BY <1>1, GraphInvInit, IndexedInvariant, PTL DEF WatchSpec

(* Whatever the --project argument and the include directories are, the     *)
(* latest subgraph of every file is in the graph, whole: a change set that  *)
(* takes out a node or an edge takes nothing that another file has.         *)
THEOREM LatestStored == WatchSpec => []LatestIsStored
<1>1. GraphInv => LatestIsStored
  <2>1. \A f \in File : Latest(f) \in Key
    BY RelKey DEF Latest
  <2> QED BY <2>1 DEF GraphInv, KeysStored, LatestIsStored
<1> QED BY <1>1, GraphInvariant, PTL

-----------------------------------------------------------------------------
(* What the exact union takes                                              *)

(* No file lies under two of the include directories.  collect_sv_files    *)
(* lists it twice otherwise, index_project indexes it twice, and the graph *)
(* keeps the first copy.                                                   *)
ListedOnce == \A f \in File : Cardinality(IncludeDirs \cap DirsOf[f]) <= 1

(* The --project argument is the absolute path that the events have.  A    *)
(* changed file is indexed under a second key otherwise, and the graph     *)
(* keeps what is under the first.                                          *)
KeysAgree == Project = Absolute

(* A file that is still to be indexed has not been, and the paths that the *)
(* events have are stripped                                                *)
Fresh ==
  /\ todo \in [File -> {0, 1}]
  /\ phase = "collect" => \A f \in File : file_map[Rel(WalkPath(f))] = 0
  /\ phase = "index" => \A f \in File : todo[f] = 1 => file_map[Rel(WalkPath(f))] = 0
  /\ \A f \in File : file_map[<<Absolute, f>>] = 0

UnionInv == NothingElse /\ Fresh

(* The walk lists a file once                                              *)
LEMMA CollectOnce ==
  ASSUME ListedOnce, Collect
  PROVE  todo' \in [File -> {0, 1}]
<1>1. ASSUME NEW f \in File PROVE Cardinality(IncludeDirs \cap DirsOf[f]) \in {0, 1}
  <2>1. IsFiniteSet(IncludeDirs \cap DirsOf[f])
    BY DirsAssumption, FS_Subset
  <2>2. Cardinality(IncludeDirs \cap DirsOf[f]) \in Nat
    BY <2>1, FS_CardinalityType
  <2> QED BY <2>2 DEF ListedOnce
<1>2. \A f \in File : Listed(f) \in {0, 1}
  BY <1>1 DEF Listed
<1> QED BY <1>2 DEF Collect

(* With one root for both, the key of a file is where it lies              *)
LEMMA KeysStripped ==
  ASSUME KeysAgree
  PROVE  \A f \in File : /\ Rel(WalkPath(f)) = <<Relative, f>> /\ Rel(EventPath(f)) = <<Relative, f>>
                         /\ \A g \in File : <<Relative, f>> # <<Absolute, g>>
BY RootsAssumption DEF KeysAgree, Rel, WalkPath, EventPath

(* The first index of a file adds its graph, a later one replaces it.      *)
LEMMA UnionStep ==
  ASSUME ListedOnce, KeysAgree, Indexed, WatchInv, GraphInv, UnionInv, WatchNext
  PROVE  UnionInv'
<1> USE DEF UnionInv
<1>1. CASE UNCHANGED <<indexVars, phase, todo>>
  BY <1>1, GraphKept DEF Fresh, indexVars
<1>2. CASE Collect
  <2>1. UNCHANGED indexVars /\ phase = "collect" /\ phase' = "index"
    BY <1>2 DEF Collect
  <2>2. Fresh'
    BY <1>2, <2>1, CollectOnce DEF Fresh, indexVars
  <2> QED BY <2>1, <2>2, GraphKept
<1>3. ASSUME NEW f \in File, InitialIndex(f) PROVE UnionInv'
  <2> DEFINE k == Rel(WalkPath(f))
  <2>1. /\ phase = "index" /\ phase' = phase /\ todo[f] = 1 /\ file_map[k] = 0
        /\ todo' \in [File -> {0, 1}] /\ todo'[f] = 0
        /\ \A g \in File : g # f => todo'[g] = todo[g]
    <3>1. /\ phase = "index" /\ phase' = phase /\ todo[f] > 0
          /\ todo' = [todo EXCEPT ![f] = todo[f] - 1]
      BY <1>3 DEF InitialIndex
    <3>2. todo \in [File -> {0, 1}]
      BY DEF Fresh
    <3>3. todo[f] = 1 /\ todo[f] - 1 = 0
      BY <3>1, <3>2
    <3>4. file_map[k] = 0
      BY <3>1, <3>3 DEF Fresh
    <3> QED BY <3>1, <3>2, <3>3, <3>4
  <2>2. /\ k \in Key
        /\ \A g \in File : g # f => Rel(WalkPath(g)) \in Key /\ Rel(WalkPath(g)) # k
        /\ \A g \in File : <<Absolute, g>> \in Key /\ <<Absolute, g>> # k
    BY RelKey, KeysStripped DEF Key
  <2>3. CASE disk[f] \in Content /\ IndexFile(WalkPath(f), disk[f])
    <3>1. NothingElse'
      BY <2>1, <2>2, <2>3, IndexFileUnion
    <3>2. \A g \in Key : g # k => file_map'[g] = file_map[g]
      <4>1. Remember(k, ext_next_id, disk[f], disk[f])
        BY <2>3 DEF IndexFile
      <4> QED BY <2>2, <2>3, <4>1, WrittenIndexed
    <3> HIDE DEF k
    <3>3. Fresh'
      BY <2>1, <2>2, <3>2 DEF Fresh
    <3> QED BY <3>1, <3>3
  <2>4. CASE UNCHANGED indexVars
    BY <2>1, <2>4, GraphKept DEF Fresh, indexVars
  <2> QED BY <1>3, <2>3, <2>4 DEF InitialIndex
<1>4. CASE Register
  <2>1. UNCHANGED <<indexVars, todo>> /\ phase' = "watch"
    BY <1>4 DEF Register
  <2> QED BY <2>1, GraphKept DEF Fresh, indexVars
<1>5. ASSUME NEW f \in File, Reindex(f) PROVE UnionInv'
  <2> DEFINE k == Rel(EventPath(f))
  <2>1. phase = "watch" /\ UNCHANGED <<phase, todo>>
    BY <1>5 DEF Reindex, WatchInv, WatchTypeOK
  <2>2. k \in Key /\ \A g \in File : <<Absolute, g>> \in Key /\ <<Absolute, g>> # k
    BY RelKey, KeysStripped DEF Key
  <2>3. NothingElse'
    BY <1>5, <2>2, GraphKept, ReindexFileUnion DEF Reindex
  <2>4. \A g \in Key : g # k => file_map'[g] = file_map[g]
    <3>1. CASE UNCHANGED indexVars
      BY <3>1 DEF indexVars
    <3>2. CASE disk[f] \in Content /\ ReindexFile(EventPath(f), disk[f])
      <4>1. \A tree \in Trees(disk[f], file_trees[k]) : tree \in Content
        BY <2>2, <3>2 DEF Trees, Indexed, IndexTypeOK
      <4>2. CASE \E tree \in Content : Remember(k, ext_next_id, disk[f], tree)
        BY <2>2, <3>2, <4>2, WrittenIndexed
      <4> QED BY <3>1, <3>2, <4>1, <4>2 DEF ReindexFile
    <3> QED BY <1>5, <3>1, <3>2 DEF Reindex
  <2> HIDE DEF k
  <2> QED BY <2>1, <2>2, <2>3, <2>4 DEF Fresh
<1>6. CASE Receive \/ Environment
  BY <1>1, <1>6 DEF Receive, Take, Environment, Write, Delete, Noise, Elapse
<1> QED BY <1>2, <1>3, <1>4, <1>5, <1>6 DEF WatchNext, Tool

(* When no file lies under two include directories and the --project       *)
(* argument is the absolute path that the events have, the graph is        *)
(* exactly the sum of the files' latest subgraphs: a change set leaves     *)
(* nothing of an earlier version behind.  The code sees to neither, and    *)
(* GraphIsUnionOfFiles fails without them.                                 *)
THEOREM UnionCorrect ==
  ASSUME ListedOnce, KeysAgree
  PROVE  WatchSpec => []GraphIsUnionOfFiles
<1>1. WatchInit => UnionInv
  <2> SUFFICES ASSUME WatchInit PROVE UnionInv
    OBVIOUS
  <2>1. file_map = [k \in Key |-> 0] /\ todo = [f \in File |-> 0] /\ phase = "collect"
    BY DEF WatchInit, IndexInit
  <2>2. \A f \in File : <<Absolute, f>> \in Key
    BY DEF Key
  <2>3. Fresh
    BY <2>1, <2>2, RelKey DEF Fresh
  <2> QED BY <2>3, GraphInvInit DEF UnionInv
<1>2. Indexed /\ WatchInv /\ GraphInv /\ UnionInv /\ [WatchNext]_sysVars => UnionInv'
  <2> SUFFICES ASSUME Indexed, WatchInv, GraphInv, UnionInv, [WatchNext]_sysVars PROVE UnionInv'
    OBVIOUS
  <2>1. CASE UNCHANGED sysVars
    <3>1. UNCHANGED <<indexVars, phase, todo>>
      BY <2>1 DEF sysVars, watchVars
    <3> QED BY <3>1, GraphKept DEF UnionInv, Fresh, indexVars
  <2> QED BY <2>1, UnionStep
<1>3. Indexed /\ GraphInv /\ UnionInv => NothingElse /\ \A k \in Key : \A f \in File :
        k = <<Absolute, f>> => file_node_ids[k] = {} /\ DOMAIN file_edges[k] = {}
  BY DEF UnionInv, Fresh, Indexed, MetadataAgrees, GraphInv, SpansApart, EmptyBag, SetToBag
<1>4. \A k \in Key : \E f \in File : k = <<Absolute, f>> \/ k = Latest(f)
  BY KeysStripped DEF Key, Latest
<1>5. Indexed /\ GraphInv /\ UnionInv /\ LatestIsStored => GraphIsUnionOfFiles
  BY <1>3, <1>4 DEF NothingElse, GraphIsUnionOfFiles
<1> QED BY <1>1, <1>2, <1>5, IndexedInvariant, WatchInvariant, GraphInvariant, LatestStored, PTL DEF WatchSpec
=============================================================================
