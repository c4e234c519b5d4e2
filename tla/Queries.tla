------------------------------ MODULE Queries -------------------------------
(***************************************************************************)
(* The query commands of the command line tool (cmd_*, main.rs), the tools *)
(* of the MCP server that do the same (crates/hdl-graph-mcp/src/tools) and *)
(* the exporters (crates/hdl-graph-query), on the graphs that the          *)
(* extractor makes: this module extends Extractor, and a query is an       *)
(* operator on a file that has been extracted.                             *)
(*                                                                         *)
(* An answer is how many times a node is listed: answer[n].  A query for a *)
(* name is asked for the name of one node at a time; labels, wording and   *)
(* the tables are left out.  The operator of the command line tool is      *)
(* cmd_x, that of the server hdl_x.                                        *)
(***************************************************************************)
EXTENDS Extractor, FiniteSets, Folds

Extracted == stack = <<>> /\ base # 0
Ids == base .. next_id - 1

(* get_node, and the lists get_outgoing and get_incoming give.             *)
Stored(n) == n \in NodeIds
KindOf(n) == LET i == CHOOSE j \in DOMAIN nodes : nodes[j].id = n IN nodes[i].kind
Is(n, kinds) == Stored(n) /\ KindOf(n) \in kinds
Copies(s, t, types) ==
  Cardinality({i \in DOMAIN edges : /\ edges[i].source = s /\ edges[i].target = t
                                    /\ edges[i].edge_type \in types})
Links(s, t) == Copies(s, t, EdgeTypes)
Held(s, t) == Copies(s, t, {"Contains"})

SumOf(f(_), set) == MapThenFoldSet(+, 0, f, LAMBDA s : CHOOSE x \in s : TRUE, set)

-----------------------------------------------------------------------------
(* The walk that most commands of the tool are written out with: the items *)
(* a file contains, and everything linked below each of them.              *)

Top1(n) == IF Stored(n) THEN Held(base, n) ELSE 0

(* Mutant of Below: only what an item contains, as in cmd_explore.         *)
BelowContained(n) == IF Stored(n) THEN LET via(t) == Top1(t) * Held(t, n) IN SumOf(via, Ids) ELSE 0

Below(n) == IF Stored(n) THEN LET via(t) == Top1(t) * Links(t, n) IN SumOf(via, Ids) ELSE 0

NamedItems == {"Module", "Class", "Package"}
Declared == {"ModulePort", "SignalDecl", "ModuleInstance"}

(* cmd_def and hdl_def walk alike.                                         *)
cmd_def(n) == (IF Is(n, NamedItems) THEN Top1(n) ELSE 0) + (IF Is(n, Declared) THEN Below(n) ELSE 0)

hdl_def(n) == cmd_def(n)

(* cmd_inst; hdl_inst passes over items that are not modules.              *)
cmd_inst(n) == IF Is(n, {"ModuleInstance"}) THEN Below(n) ELSE 0
hdl_inst(n) == IF ~Is(n, {"ModuleInstance"}) THEN 0
               ELSE LET via(t) == IF Is(t, {"Module"}) THEN Held(base, t) * Links(t, n) ELSE 0
                    IN  SumOf(via, Ids)

(* cmd_search looks at two levels, hdl_search at every node once.          *)
cmd_search(n) == Top1(n) + Below(n)
hdl_search(n) == IF Stored(n) THEN 1 ELSE 0

(* cmd_stats counts what the walk meets, hdl_stats what the graph holds.   *)
cmd_stats(kind) == LET met(n) == IF ~Is(n, {kind}) THEN 0
                                 ELSE IF kind \in NamedItems THEN Top1(n) ELSE Below(n)
                   IN  SumOf(met, Ids)
hdl_stats(kind) == Cardinality({n \in Ids : Is(n, {kind})})

(* cmd_files: two levels of Contains edges only.                           *)
cmd_files(kinds) ==
  LET met(n) == IF ~Is(n, kinds) THEN 0
                ELSE LET via(t) == Top1(t) * Held(t, n) IN Top1(n) + SumOf(via, Ids)
  IN  SumOf(met, Ids)

(* hdl_files tells the kinds of the first level only.                      *)
hdl_files(kinds) == LET met(n) == IF Is(n, kinds) THEN Top1(n) ELSE 0 IN SumOf(met, Ids)

(* uvm factory, tlm and config: the second level in the tool, every node   *)
(* in the server.                                                          *)
UvmKinds == {"FactoryReg", "FactoryCreate", "FactoryOverride", "TLMPort", "ConfigDBSet", "ConfigDBGet"}
cmd_uvm(n) == IF Is(n, UvmKinds) THEN Below(n) ELSE 0
hdl_uvm(n) == IF Is(n, UvmKinds) THEN 1 ELSE 0

(* uvm hierarchy: the classes of the second level, so none that a file     *)
(* holds itself; every class in the server.                                *)
cmd_uvm_hierarchy(n) == IF Is(n, {"Class"}) THEN Below(n) ELSE 0
hdl_uvm_hierarchy(n) == IF Is(n, {"Class"}) THEN 1 ELSE 0

(* ScipExporter: two levels, the kinds that have an occurrence.            *)
scip_export(n) ==
  LET occurs == Is(n, NamedItems \cup Declared \cup {"Interface", "Function"})
      via(t) == Top1(t) * Copies(t, n, {"Contains", "Defines"})
  IN  IF occurs THEN Top1(n) + SumOf(via, Ids) ELSE 0

(* JsonExporter: every node, and the edges out of the nodes there are.     *)
json_edges == {i \in DOMAIN edges : Stored(edges[i].source)}

-----------------------------------------------------------------------------
(* The queries on one node and what it is linked to                        *)

Explored == Declared \cup {"Function", "AlwaysBlock", "Assignment"}

(* cmd_explore looks at Contains edges, hdl_explore at every edge.         *)
cmd_explore(m, n) == IF Is(n, Explored) THEN Held(m, n) ELSE 0
hdl_explore(m, n) == IF Is(n, Explored \cup {"Class"}) THEN Links(m, n) ELSE 0

(* The Markdown exporter: the details of modules and of classes, and the   *)
(* lists of export_single (export_per_module: a file for each).            *)
render_module_detail(m, n) == IF Is(n, Explored) THEN Links(m, n) ELSE 0
render_class_detail(c, n) == IF Is(n, {"Method", "Property"}) THEN Links(c, n) ELSE 0
export_single(n) ==
  LET listed(o) == CASE Is(o, {"Module"}) -> render_module_detail(o, n)
                     [] Is(o, {"Class"})  -> render_class_detail(o, n)
                     [] OTHER -> 0
  IN  SumOf(listed, Ids)

(* How often a walk down the Contains edges from the items of the file     *)
(* comes by a node.                                                        *)
Visits(n) == LET times[k \in Ids] == IF k = base THEN 1
                                     ELSE LET from(s) == times[s] * Held(s, k) IN SumOf(from, {s \in Ids : s < k})
             IN  times[n]

(* cmd_drivers, hdl_drivers (find_drivers_recursive): what drives or reads *)
(* n.  cmd_calls, hdl_callees: what contains the call site n or calls n.   *)
cmd_drivers(n) == LET at(s) == IF Stored(s) THEN Visits(s) * Copies(s, n, {"Drives", "References"}) ELSE 0
                  IN  IF Stored(n) THEN SumOf(at, Ids \ {base}) ELSE 0
hdl_drivers(n) == cmd_drivers(n)
cmd_calls(n) == LET in(s) == IF ~Stored(s) THEN 0
                             ELSE Copies(s, n, {"Calls"}) + IF Is(n, {"CallSite"}) THEN Held(s, n) ELSE 0
                IN  IF Stored(n) THEN SumOf(in, Ids) ELSE 0
hdl_callees(n) == cmd_calls(n)

(* cmd_refs lists what refers to node n: from n's incoming edges, and      *)
(* again from the outgoing edges of the other nodes; hdl_callers once.     *)
RefEdges == {"FactoryRegisters", "FactoryOverrides"}
cmd_refs(n) == LET from(s) == IF Stored(s) THEN 2 * Copies(s, n, RefEdges) ELSE 0 IN SumOf(from, Ids)
hdl_callers(n) == LET from(s) == IF Stored(s) THEN Copies(s, n, RefEdges) ELSE 0 IN SumOf(from, Ids)

(* print_node_detail: the edges of the node whose other end is stored, of  *)
(* the incoming ones twenty at most.                                       *)
cmd_node(n) ==
  LET out(t) == IF Stored(t) THEN Links(n, t) ELSE 0
      in(s) == IF Stored(s) THEN Links(s, n) ELSE 0
  IN  [outgoing |-> SumOf(out, Ids), incoming |-> IF SumOf(in, Ids) > 20 THEN 20 ELSE SumOf(in, Ids)]

(* find_file_for_node: whether the file is found from the node, over at    *)
(* most that many Contains edges (three; two in the JSON exporter).        *)
find_file_for_node(n, hops) ==
  LET near[k \in 0 .. hops] ==
        IF k = 0 THEN {base} ELSE near[k - 1] \cup {t \in Ids : \E s \in near[k - 1] : Held(s, t) > 0}
  IN  n \in near[hops]

(* hdl_node finds a symbol among the nodes of these kinds, and shows their *)
(* edges and their file.                                                   *)
node_name_str == {"Module", "Class", "Package", "Interface", "Function", "SignalDecl", "ModulePort",
                  "ModuleInstance", "Property", "VariableRef", "CallSite", "Method", "TLMPort",
                  "Parameter", "SequenceDecl", "PropertyDecl", "CoverGroup", "CoverPoint", "Modport",
                  "DPIImport", "ConfigDBSet", "ConfigDBGet", "FactoryReg", "FactoryCreate", "FactoryOverride"}
hdl_node(n) == Is(n, node_name_str)
format_node_detail(n) == [edges |-> cmd_node(n), file |-> find_file_for_node(n, 3)]

(* The language server goes down the Contains and Defines edges from the   *)
(* numbers in its file_map.  They count the files; the number of the first *)
(* is also the id of its node.                                             *)
lsp_reaches(fid, n) ==
  LET from[k \in Ids] == k = fid \/ \E s \in {s \in Ids : s < k} :
                           from[s] /\ Stored(s) /\ Copies(s, k, {"Contains", "Defines"}) > 0
  IN  Stored(n) /\ from[n]
node_matches_symbol == NamedItems \cup Declared \cup {"Interface", "Function"}
format_node_info == node_matches_symbol \cup
  {"Property", "Method", "CoverGroup", "CoverPoint", "SequenceDecl", "PropertyDecl"}
goto_definition(fid, n) == Is(n, node_matches_symbol) /\ lsp_reaches(fid, n)
find_hover_info(fid, n) == Is(n, format_node_info) /\ lsp_reaches(fid, n)

(* find_containing_module: up the Contains edges to the first module, 0    *)
(* ("?") when there is none.                                               *)
find_containing_module(n) ==
  LET up(k) == {s \in Ids : Held(s, k) > 0 /\ Stored(s)}
      owner[k \in Ids] == IF up(k) = {} THEN 0
                          ELSE LET s == CHOOSE x \in up(k) : TRUE IN
                               IF Is(s, {"Module"}) THEN s ELSE owner[s]
  IN  owner[n]

(* find_parent_name of the server's UVM tool: `continue` goes on with the  *)
(* edges of the same node and `break` ends the search, so it never climbs. *)
find_parent_name(n) ==
  LET up == {s \in Ids : Held(s, n) > 0 /\ Is(s, {"Class", "Module"})} IN
  IF up = {} THEN 0 ELSE CHOOSE s \in up : TRUE

-----------------------------------------------------------------------------
(* hierarchy and check                                                     *)

Printable == NamedItems \cup Declared \cup {"AlwaysBlock", "Assignment", "Function"}

(* Mutant of print_tree: a kind without a label is not printed, and what   *)
(* is below it is.                                                         *)
print_tree_through(root) ==
  LET times[n \in Ids] == IF n = root THEN 1
                          ELSE LET from(s) == times[s] * Links(s, n) IN SumOf(from, {s \in Ids : s < n})
  IN  times

(* print_tree under a root: children of any edge, a kind without a label   *)
(* is passed over with all that is below it.                               *)
print_tree(root) ==
  LET times[n \in Ids] ==
        IF n = root THEN 1
        ELSE IF ~Is(n, Printable) THEN 0
        ELSE LET from(s) == times[s] * Links(s, n) IN SumOf(from, {s \in Ids : s < n})
  IN  times

(* print_tree_md: of modules and instances only.                           *)
print_tree_md(root) ==
  LET times[n \in Ids] ==
        IF n = root THEN 1
        ELSE IF ~Is(n, {"Module", "ModuleInstance"}) THEN 0
        ELSE LET from(s) == times[s] * Links(s, n) IN SumOf(from, {s \in Ids : s < n})
  IN  times

(* cmd_hierarchy takes a module a file contains, hdl_hierarchy any module, *)
(* class, package or interface.                                            *)
cmd_roots == {n \in Ids : Is(n, {"Module"}) /\ Held(base, n) > 0}
hdl_roots == {n \in Ids : Is(n, NamedItems \cup {"Interface"})}

(* cmd_check and hdl_check: the edges out of stored nodes that end in      *)
(* none, and nodes without any edge.                                       *)
dangling_edges == {i \in DOMAIN edges : Stored(edges[i].source) /\ ~Stored(edges[i].target)}
orphan_nodes == {n \in Ids : /\ Stored(n) /\ ~Is(n, {"SourceFile"})
                             /\ \A s \in Ids : Links(s, n) = 0 /\ Links(n, s) = 0}

-----------------------------------------------------------------------------
(* Properties                                                              *)

(* The nodes above n, the nearest first.                                   *)
Above(n) == LET up[k \in Ids] == LET p == {s \in Ids : Links(s, k) > 0} IN
                                 IF p = {} THEN {} ELSE p \cup UNION {up[s] : s \in p}
            IN  up[n]
Innermost(set) == IF set = {} THEN 0 ELSE CHOOSE x \in set : \A y \in set : y <= x

(* Nothing keeps the walks from going round or from coming by twice, and   *)
(* on extracted graphs they do neither.  The tree of a module, class,      *)
(* package or interface lists a node once, though a file links its classes *)
(* twice, and exactly when everything between it and the root has a label: *)
(* print_tree keeps no visited set.  The module that check names for an    *)
(* instance is the innermost one around it, through any depth of generate  *)
(* blocks; it is unknown just when that module's own node is missing.      *)
WalksAreExact ==
  Extracted =>
    /\ \A r \in cmd_roots \cup hdl_roots : \A n \in Ids \ {r} :
         print_tree(r)[n] = (IF /\ r \in Above(n) /\ Is(n, Printable)
                                /\ \A k \in Above(n) : k > r => Is(k, Printable)
                             THEN 1 ELSE 0)
    /\ \A n \in Ids : Is(n, {"ModuleInstance"}) =>
         find_containing_module(n) = Innermost({m \in Above(n) : Is(m, {"Module"})})

(* Every link that the extractor makes ends in a node, and starts in one   *)
(* or in a module that had no name; no node is without a link.  Checks (a) *)
(* and (c) of cmd_check, of dangling edges and of orphans, report nothing  *)
(* of what was just extracted.  Checks (b) and (d) compare the names of    *)
(* modules and classes, which depend on the source and are not modelled.   *)
LinksLeadToNodes ==
  Extracted => /\ dangling_edges = {} /\ orphan_nodes = {}
               /\ \A e \in EdgeSet : e.target \in NodeIds /\ e.source \in NodeIds \cup lost

(* The commands of the tool, the tools of the server and the exporters     *)
(* write their walks out one by one, over one or two levels, over Contains *)
(* or over all edges.  For what stands directly in a named module they     *)
(* come to the same: it is listed once by def, search, the UVM commands,   *)
(* the server and the Markdown and SCIP files, has its module for parent   *)
(* and one incoming edge, and its file is found where it is contained.     *)
(* The language server goes to whatever def finds; the tool and the server *)
(* find the same instances and count the same modules and packages, and    *)
(* the tool counts nothing in a module twice.  The edges of the JSON       *)
(* export are the ones that the nodes' details list as outgoing.           *)
ToolsAgree ==
  Extracted =>
    /\ \A n \in Ids : /\ cmd_inst(n) = hdl_inst(n)
                      /\ cmd_def(n) > 0 => /\ hdl_def(n) = scip_export(n)
                                           /\ goto_definition(base, n) /\ find_hover_info(base, n)
    /\ \A m \in cmd_roots : \A n \in {k \in Ids : Links(m, k) > 0} :
         /\ cmd_search(n) = hdl_search(n) /\ cmd_node(n).incoming = 1
         /\ cmd_uvm(n) = hdl_uvm(n) /\ cmd_uvm_hierarchy(n) = hdl_uvm_hierarchy(n)
         /\ Is(n, Declared) => cmd_def(n) = 1 /\ hdl_explore(m, n) = 1 /\ export_single(n) = 1
         /\ hdl_node(n) => format_node_detail(n).edges.incoming = 1
         /\ Held(m, n) > 0 => /\ find_parent_name(n) = m /\ find_file_for_node(n, 2)
                              /\ Is(n, Explored) => cmd_explore(m, n) = hdl_explore(m, n)
                              /\ Is(n, {"ModuleInstance"}) => print_tree_md(m)[n] = 1
    /\ \A kind \in {"Module", "Package"} :
         cmd_stats(kind) = hdl_stats(kind) /\ hdl_files({kind}) = hdl_stats(kind)
    /\ \A kind \in Explored : cmd_files({kind}) <= hdl_stats(kind) /\ cmd_stats(kind) <= hdl_stats(kind)
    /\ LET out(n) == IF Stored(n) THEN cmd_node(n).outgoing ELSE 0
       IN  Cardinality(json_edges) = SumOf(out, Ids)

-----------------------------------------------------------------------------
(* What the documentation says of single commands: none of it holds        *)
(* (README, section 4).                                                    *)

(* "Dangling edges: verify both source and target nodes exist": when the   *)
(* check reports no dangling edge, both ends of every edge exist.  The     *)
(* check collects the edges from the nodes there are, and so never sees    *)
(* one whose source is missing.                                            *)
CheckFindsDangling ==
  Extracted /\ dangling_edges = {} => \A e \in EdgeSet : {e.source, e.target} \subseteq NodeIds

(* "incoming edges on targets already covers edges between target nodes":  *)
(* the second scan of refs is for references that the first has not listed *)
(* yet, and each is listed once.  (Asked of an override: the class that a  *)
(* registration stands in may have the same name.)                         *)
RefsListedOnce ==
  Extracted => \A n \in Ids : Is(n, {"FactoryOverride"}) => cmd_refs(n) <= hdl_callers(n)

(* "Find all instantiations of a given module type across the project":    *)
(* every instance is listed, also one in a generate block.                 *)
InstancesAreFound ==
  Extracted => \A n \in Ids : Is(n, {"ModuleInstance"}) => cmd_inst(n) > 0

(* "Explore a module or class in detail: ports, signals, ...": what a      *)
(* module declares is listed.                                              *)
ExploreListsDeclared ==
  Extracted => \A m \in cmd_roots, n \in Ids : Is(n, Declared) /\ Links(m, n) > 0 => cmd_explore(m, n) > 0

(* "Shows which always blocks, assignments, or modules drive or read the   *)
(* given signal": where there is an assignment, something is driven.       *)
DriversAreListed ==
  Extracted /\ (\E n \in Ids : Is(n, {"Assignment"})) => \E n \in Ids : hdl_drivers(n) > 0

(* "Shows outgoing call edges from the named function": where a function   *)
(* holds a call, a call is listed.                                         *)
CallsAreListed ==
  Extracted /\ (\E m, n \in Ids : Is(m, {"Function", "Method"}) /\ Is(n, {"FactoryCreate"}) /\ Held(m, n) > 0)
    => \E n \in Ids : hdl_callees(n) > 0

(* "Display graph statistics: node/edge counts and breakdown by kind":     *)
(* nothing is counted twice.                                               *)
StatsCountOnce ==
  Extracted => \A kind \in NamedItems \cup Explored : cmd_stats(kind) <= hdl_stats(kind)
=============================================================================
