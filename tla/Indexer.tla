------------------------------- MODULE Indexer -------------------------------
(***************************************************************************)
(* The indexed project of the command line tool (IndexedProject and        *)
(* cmd_index_incremental in crates/hdl-graph-cli/src/main.rs) with the     *)
(* change sets it applies (crates/hdl-graph-parse/src/extractor: mod.rs,   *)
(* incremental.rs).  This module holds the state and the two operations    *)
(* that change it, IndexFile and ReindexFile; Watch runs them against a    *)
(* changing file system.                                                   *)
(*                                                                         *)
(* The graph is the multigraph of AbstractGraph, which GraphStore          *)
(* implements: a set of node ids and a bag of (source, target) pairs.      *)
(* Edge types do not occur here because change sets remove by pair.        *)
(* A file's content is a member of Content; what the extractor makes of it *)
(* is its outline: how many ids it takes, which of them become nodes, and  *)
(* the bag of edges between them, counted from the first id taken.         *)
(* A SHA-256 digest stands for the content it is the digest of.            *)
(***************************************************************************)
EXTENDS Integers, FiniteSets, Bags

CONSTANTS File,       \* files, by where they lie in the project
          Project,    \* the --project argument
          Absolute,   \* the absolute path of that directory
          Content,    \* what read_to_string can return
          IdsOf,      \* Content -> number of ids the extractor takes
          NodesOf,    \* Content -> offsets that become nodes
          EdgesOf,    \* Content -> bag of pairs of offsets
          NoContent,  \* no tree / no digest
          ReuseStale  \* TRUE: the parser may hand back the tree it was given

(* The first id is the SourceFile node; every id an edge names was taken.  *)
ASSUME OutlineAssumption ==
  /\ IdsOf \in [Content -> Nat \ {0}]
  /\ NodesOf \in [Content -> SUBSET Nat]
  /\ \A c \in Content : /\ 0 \in NodesOf[c]
                        /\ NodesOf[c] \subseteq 0 .. IdsOf[c] - 1
                        /\ IsABag(EdgesOf[c])
                        /\ DOMAIN EdgesOf[c] \subseteq (0 .. IdsOf[c] - 1) \X (0 .. IdsOf[c] - 1)
ASSUME NoContentAssumption == NoContent \notin Content
ASSUME ReuseAssumption == ReuseStale \in BOOLEAN

(* A path is a root and a file below it; the maps are keyed by the path    *)
(* without the --project prefix, or by all of it when it has another root. *)
Relative == ""
ASSUME RootsAssumption == Relative \notin {Project, Absolute}

Rel(path) == IF path[1] = Project THEN <<Relative, path[2]>> ELSE path

Key == {Relative, Absolute} \X File

(* The walk of collect_sv_files names a file below the argument as given;  *)
(* notify makes that absolute, and names what changed below it.            *)
WalkPath(f) == <<Project, f>>
EventPath(f) == <<Absolute, f>>

VARIABLES graph_nodes,    \* graph: ids of the stored nodes
          graph_edges,    \* graph: bag of (source, target)
          ext_next_id,    \* extractor.next_id
          file_map,       \* key -> id of its SourceFile node, 0 when there is none
          file_node_ids,  \* key -> ids of its nodes
          file_edges,     \* key -> bag of its edges
          file_hashes,    \* id of a SourceFile node -> content digested
          file_trees      \* key -> content the kept tree is a tree of

indexVars == <<graph_nodes, graph_edges, ext_next_id, file_map, file_node_ids, file_edges, file_hashes, file_trees>>

(* index_project before its first file.                                    *)
IndexInit == /\ graph_nodes = {}
             /\ graph_edges = EmptyBag
             /\ ext_next_id = 1
             /\ file_map = [k \in Key |-> 0]
             /\ file_node_ids = [k \in Key |-> {}]
             /\ file_edges = [k \in Key |-> EmptyBag]
             /\ file_hashes = [i \in {} |-> NoContent]
             /\ file_trees = [k \in Key |-> NoContent]

-----------------------------------------------------------------------------
(* extract: the nodes and edges of a tree when the extractor's counter     *)
(* stands at base.                                                         *)
ExtractNodes(base, tree) == {base + k : k \in NodesOf[tree]}

ExtractEdges(base, tree) ==
  [p \in {<<base + q[1], base + q[2]>> : q \in DOMAIN EdgesOf[tree]} |->
     EdgesOf[tree][<<p[1] - base, p[2] - base>>]]

(* parse_source_incremental: the old tree is passed to tree-sitter without *)
(* having been edited, so tree-sitter may take all of it for unchanged.    *)
Trees(content, old) ==
  {content} \cup (IF ReuseStale /\ old # NoContent THEN {old} ELSE {})

WithoutPairs(bag, pairs) == [p \in DOMAIN bag \ pairs |-> bag[p]]

Touching(bag, ids) == {p \in DOMAIN bag : p[1] \in ids \/ p[2] \in ids}

(* Mutant of ChangeSetOf: the difference of the ids is taken the wrong way *)
(* round.                                                                  *)
ChangeSetReversed(oldIds, oldEdges, newIds, newEdges) ==
  [added_nodes      |-> newIds,
   removed_node_ids |-> newIds \ oldIds,
   added_edges      |-> newEdges,
   removed_edges    |-> DOMAIN oldEdges \ DOMAIN newEdges]

(* extract_changeset: what goes is what the new extraction does not have;  *)
(* everything the new extraction has is added.                             *)
ChangeSetOf(oldIds, oldEdges, newIds, newEdges) ==
  [added_nodes      |-> newIds,
   removed_node_ids |-> oldIds \ newIds,
   added_edges      |-> newEdges,
   removed_edges    |-> DOMAIN oldEdges \ DOMAIN newEdges]

(* ChangeSet::apply_to: remove edges, remove nodes (with the edges that    *)
(* touch them), add nodes, add edges.                                      *)
EdgesAfter(cs) ==
  LET cut == WithoutPairs(graph_edges, cs.removed_edges)
  IN  WithoutPairs(cut, Touching(cut, cs.removed_node_ids)) (+) cs.added_edges

ApplyTo(cs) == /\ graph_nodes' = (graph_nodes \ cs.removed_node_ids) \cup cs.added_nodes
               /\ graph_edges' = EdgesAfter(cs)

Kept(hashes, id, content) ==
  [i \in DOMAIN hashes \cup {id} |-> IF i = id THEN content ELSE hashes[i]]

(* What is written to the metadata when tree t is kept.                    *)
Written(k, base, content, tree, t) ==
  /\ ext_next_id' = base + IdsOf[tree]
  /\ file_map' = [file_map EXCEPT ![k] = base]
  /\ file_hashes' = Kept(file_hashes, base, content)
  /\ file_node_ids' = [file_node_ids EXCEPT ![k] = ExtractNodes(base, tree)]
  /\ file_edges' = [file_edges EXCEPT ![k] = ExtractEdges(base, tree)]
  /\ file_trees' = [file_trees EXCEPT ![k] = t]

(* Mutant of Remember: the old tree is kept.                               *)
RememberKeepsOldTree(k, base, content, tree) ==
  Written(k, base, content, tree, IF file_trees[k] = NoContent THEN tree ELSE file_trees[k])

(* The metadata both operations write: the digest is that of the content   *)
(* read, the rest is what the tree gave.  The digest kept under the old    *)
(* SourceFile id stays behind.                                             *)
Remember(k, base, content, tree) == Written(k, base, content, tree, tree)

(* index_project, one file: a full parse, everything added to the graph.   *)
IndexFile(path, content) ==
  LET base == ext_next_id
      k == Rel(path) IN
  /\ Remember(k, base, content, content)
  /\ graph_nodes' = graph_nodes \cup ExtractNodes(base, content)
  /\ graph_edges' = graph_edges (+) ExtractEdges(base, content)

(* The stored digest that cmd_index_incremental compares with.             *)
Digest(k) ==
  IF file_map[k] # 0 /\ file_map[k] \in DOMAIN file_hashes
    THEN file_hashes[file_map[k]] ELSE NoContent

(* cmd_index_incremental, one file that could be read.                     *)
ReindexFile(path, content) ==
  LET base == ext_next_id
      k == Rel(path)
  IN  IF Digest(k) = content
        THEN UNCHANGED indexVars
        ELSE \E tree \in Trees(content, file_trees[k]) :
               /\ Remember(k, base, content, tree)
               /\ ApplyTo(ChangeSetOf(file_node_ids[k], file_edges[k],
                                      ExtractNodes(base, tree), ExtractEdges(base, tree)))

-----------------------------------------------------------------------------
(* Properties                                                              *)

(* The key of the latest extraction of f: what an event brought in comes   *)
(* after what the walk found.                                              *)
Latest(f) == IF file_map[Rel(EventPath(f))] # 0 THEN Rel(EventPath(f)) ELSE Rel(WalkPath(f))

(* The latest subgraph of every file is in the graph, whole and each of    *)
(* its edges as often as the file has it.                                  *)
LatestIsStored ==
  \A f \in File : /\ file_node_ids[Latest(f)] \subseteq graph_nodes
                  /\ \A p \in DOMAIN file_edges[Latest(f)] :
                       p \in DOMAIN graph_edges /\ graph_edges[p] = file_edges[Latest(f)][p]

(* The graph is exactly the sum of the files' latest subgraphs: no node or *)
(* edge of an earlier version of a file survives a change set, none of     *)
(* another file is lost, and no edge is counted twice.                     *)
GraphIsUnionOfFiles ==
  /\ LatestIsStored
  /\ graph_nodes \subseteq UNION {file_node_ids[Latest(f)] : f \in File}
  /\ DOMAIN graph_edges \subseteq UNION {DOMAIN file_edges[Latest(f)] : f \in File}

(* The nodes and edges under a key are what the extractor makes of the     *)
(* kept tree, counted from the SourceFile id that file_map names, and a    *)
(* digest is on record for that id: file_map, file_hashes, file_node_ids,  *)
(* file_edges and file_trees never disagree about which extraction is      *)
(* current.                                                                *)
MetadataAgrees ==
  \A k \in Key :
    IF file_map[k] = 0
      THEN file_node_ids[k] = {} /\ file_trees[k] = NoContent
      ELSE /\ file_map[k] \in DOMAIN file_hashes
           /\ file_trees[k] # NoContent
           /\ file_node_ids[k] = ExtractNodes(file_map[k], file_trees[k])
           /\ file_edges[k] = ExtractEdges(file_map[k], file_trees[k])
=============================================================================
