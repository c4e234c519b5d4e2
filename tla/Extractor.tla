------------------------------ MODULE Extractor ------------------------------
(***************************************************************************)
(* GraphExtractor (crates/hdl-graph-parse/src/extractor/*.rs): the walk    *)
(* over a syntax tree that numbers nodes and links each one to the node it *)
(* stands in.                                                              *)
(*                                                                         *)
(* The tree is not a parameter: each step picks the next child the grammar *)
(* allows at the point the walk has reached, so the behaviours are the     *)
(* walks over all trees (up to MaxIds).  The call stack of the extract_*   *)
(* functions is `stack`; a frame records which dispatch (`match            *)
(* child.kind()`) is running and the id its nodes are linked to.  What a   *)
(* function makes of a child is a row of Rows.  Names are reduced to       *)
(* whether there is one: a construct that needs a name and has none is     *)
(* passed over before an id is taken, so it is the same as no child; the   *)
(* one exception is the module, whose id is taken first.  A construct that *)
(* the grammar allows and the running dispatch has no arm for (a class in  *)
(* a package, a function in a generate block) is passed over as well.      *)
(***************************************************************************)
EXTENDS Integers, Sequences

CONSTANTS Constructs,  \* the constructs the trees of a run are made of
          MaxIds       \* bound: ids taken

VARIABLES stack,    \* frames of the walk, the innermost last
          next_id,  \* GraphExtractor.next_id
          nodes,    \* Vec<GraphNode>: records [id, kind]
          edges,    \* Vec<Edge>: records [source, target, edge_type]
          base,     \* history: the id of this file's SourceFile node
          lost      \* history: ids taken for modules that got no node

vars == <<stack, next_id, nodes, edges, base, lost>>

-----------------------------------------------------------------------------
(* What becomes of a construct: the kind of node it makes, the type of the *)
(* edge that links it to the node it stands in, and the dispatch that its  *)
(* children go through, if the function looks at them.                     *)

Row(construct, kind, edge, opens) ==
  [construct |-> construct, kind |-> kind, edge |-> edge, opens |-> opens]

Leaf(construct, kind, edge) == Row(construct, kind, edge, "nothing")

PortRows == {Leaf("port", "ModulePort", "Defines")}

SignalRows == {Leaf("signal", "SignalDecl", "Defines")}

BehaviourRows == {Leaf("always", "AlwaysBlock", "Contains"),
                  Leaf("instance", "ModuleInstance", "Contains")}

ModuleRows == {Leaf("continuous_assign", "Assignment", "Contains"),
               Row("function", "Function", "Contains", "calls")}

GenerateRows ==
  {Row(c, "GenerateBlock", "Contains", "generate") :
     c \in {"loop_generate", "if_branch", "case_branch", "generate_region"}}

AssertionRows == {Leaf("assertion", "AssertProperty", "Contains"),
                  Row("covergroup", "CoverGroup", "Contains", "covergroup"),
                  Leaf("cover_point", "CoverPoint", "Contains"),
                  Leaf("property_decl", "PropertyDecl", "Contains"),
                  Leaf("sequence_decl", "SequenceDecl", "Contains")}

DpiRows == {Leaf("dpi", "DPIImport", "Contains"),
            Leaf("bind", "BindDirective", "Contains"),
            Leaf("config", "ConfigBlock", "Contains")}

ClassRows == {Row("class", "Class", "Contains", "class"),
              Leaf("class_property", "Property", "Defines"),
              Row("class_method", "Method", "Defines", "calls")}

PackageRows == {Row("package", "Package", "Contains", "package"),
                Leaf("package_import", "PackageImport", "Contains")}

InterfaceRows == {Row("interface", "Interface", "Contains", "interface"),
                  Leaf("modport", "Modport", "Contains"),
                  Leaf("clocking", "SignalDecl", "Contains")}

TlmRows == {Leaf("tlm_port", "TLMPort", "Defines"),
            Leaf("connect_call", "TLMBinding", "Contains")}

ConfigDbRows == {Leaf("config_db_set", "ConfigDBSet", "Contains"),
                 Leaf("config_db_get", "ConfigDBGet", "Contains")}

FactoryRows == {Leaf("registry_typedef", "FactoryReg", "FactoryRegisters"),
                Leaf("create_call", "FactoryCreate", "Contains")}

OverrideRows == {Leaf("override_call", "FactoryOverride", "FactoryOverrides")}

ScopedCallRows == {Leaf("scoped_create_call", "FactoryCreate", "Contains"),
                   Leaf("scoped_override_call", "FactoryOverride", "FactoryOverrides")}

Rows == UNION {PortRows, SignalRows, BehaviourRows, ModuleRows, GenerateRows, AssertionRows,
               DpiRows, ClassRows, PackageRows, InterfaceRows, TlmRows, ConfigDbRows,
               FactoryRows, OverrideRows, ScopedCallRows}

-----------------------------------------------------------------------------
(* The dispatches: the constructs each `match child.kind()` handles        *)

FileItems == {"config", "bind", "package", "interface", "class"}

GenerateItems == {"signal", "always", "instance", "continuous_assign", "loop_generate",
                  "if_branch", "case_branch", "generate_region", "assertion", "covergroup",
                  "property_decl", "sequence_decl", "dpi", "bind"}

ModuleItemItems == GenerateItems \cup {"tlm_port", "registry_typedef", "config", "class", "interface"}

ModuleItems == ModuleItemItems \cup {"port", "function"}

ClassItems == {"class_property", "registry_typedef", "class_method", "class"}

InterfaceItems == {"modport", "clocking"}

CallItems == {"connect_call", "config_db_set", "config_db_get", "create_call", "override_call",
              "scoped_create_call", "scoped_override_call"}

Dispatch ==
  [ file |-> FileItems, module |-> ModuleItems, module_item |-> ModuleItemItems,
    generate |-> GenerateItems, covergroup |-> {"cover_point"}, class |-> ClassItems,
    package |-> {"package_import"}, interface |-> InterfaceItems, calls |-> CallItems ]

-----------------------------------------------------------------------------
Frame(dispatch, id) == [dispatch |-> dispatch, id |-> id]
Top == stack[Len(stack)]
Node(id, kind) == [id |-> id, kind |-> kind]
EdgeTo(s, t, type) == [source |-> s, target |-> t, edge_type |-> type]
Pop(s) == SubSeq(s, 1, Len(s) - 1)

(* Mutant of Contains: source and target swapped.                          *)
ContainsSwapped(s, t) == EdgeTo(t, s, "Contains")

Contains(s, t) == EdgeTo(s, t, "Contains")

InitAt(n) == /\ stack = <<>>
             /\ next_id = n
             /\ nodes = <<>>
             /\ edges = <<>>
             /\ base = 0
             /\ lost = {}

(* GraphExtractor::new                                                     *)
Init == InitAt(1)

(* extract: a new file, new vectors, the same counter.                     *)
StartFile ==
  /\ stack = <<>> /\ next_id <= MaxIds
  /\ nodes' = <<Node(next_id, "SourceFile")>>
  /\ edges' = <<>>
  /\ stack' = <<Frame("file", next_id)>>
  /\ base' = next_id
  /\ lost' = {}
  /\ next_id' = next_id + 1

(* A construct that the running dispatch handles: take an id, push the     *)
(* node, link it to the frame's node, descend where the function does.     *)
ExtractConstruct(row) ==
  /\ stack # <<>> /\ next_id <= MaxIds
  /\ row.construct \in Dispatch[Top.dispatch] \cap Constructs
  /\ nodes' = Append(nodes, Node(next_id, row.kind))
  /\ edges' = Append(edges, EdgeTo(Top.id, next_id, row.edge))
  /\ stack' = IF row.opens = "nothing" THEN stack ELSE Append(stack, Frame(row.opens, next_id))
  /\ next_id' = next_id + 1
  /\ UNCHANGED <<base, lost>>

(* extract_module takes its id before it knows the name.                   *)
EnterModule ==
  /\ stack # <<>> /\ Top.dispatch = "file" /\ next_id <= MaxIds
  /\ stack' = Append(stack, Frame("module", next_id))
  /\ next_id' = next_id + 1
  /\ UNCHANGED <<nodes, edges, base, lost>>

(* Mutant of LeaveModule: the caller links a module without a node.        *)
LeaveModuleAlwaysLinked(named) ==
  /\ stack # <<>> /\ Top.dispatch = "module"
  /\ stack' = Pop(stack)
  /\ nodes' = IF named THEN Append(nodes, Node(Top.id, "Module")) ELSE nodes
  /\ edges' = Append(edges, Contains(stack[1].id, Top.id))
  /\ lost' = IF named THEN lost ELSE lost \cup {Top.id}
  /\ UNCHANGED <<next_id, base>>

(* The end of extract_module: the module's node and its Contains edge, or  *)
(* neither when no header gave a name.                                     *)
LeaveModule(named) ==
  /\ stack # <<>> /\ Top.dispatch = "module"
  /\ stack' = Pop(stack)
  /\ IF named
       THEN /\ nodes' = Append(nodes, Node(Top.id, "Module"))
            /\ edges' = Append(edges, Contains(stack[1].id, Top.id))
            /\ UNCHANGED lost
       ELSE /\ lost' = lost \cup {Top.id}
            /\ UNCHANGED <<nodes, edges>>
  /\ UNCHANGED <<next_id, base>>

(* A module_item wrapper, and the scan of an always, initial or final      *)
(* block for calls: both continue under the same id.                       *)
EnterModuleItem ==
  /\ stack # <<>> /\ Top.dispatch = "module"
  /\ stack' = Append(stack, Frame("module_item", Top.id))
  /\ UNCHANGED <<next_id, nodes, edges, base, lost>>

ScanCalls ==
  /\ stack # <<>> /\ Top.dispatch \in {"module", "module_item"}
  /\ stack' = Append(stack, Frame("calls", Top.id))
  /\ UNCHANGED <<next_id, nodes, edges, base, lost>>

(* The children of a construct are exhausted.  extract links a class at    *)
(* the top of a file a second time.                                        *)
Leave ==
  /\ Len(stack) > 1 /\ Top.dispatch # "module"
  /\ stack' = Pop(stack)
  /\ edges' = IF Top.dispatch = "class" /\ Len(stack) = 2
                THEN Append(edges, Contains(stack[1].id, Top.id)) ELSE edges
  /\ UNCHANGED <<next_id, nodes, base, lost>>

FinishFile ==
  /\ Len(stack) = 1
  /\ stack' = <<>>
  /\ UNCHANGED <<next_id, nodes, edges, base, lost>>

Next == \/ StartFile
        \/ \E row \in Rows : ExtractConstruct(row)
        \/ EnterModule
        \/ \E named \in BOOLEAN : LeaveModule(named)
        \/ EnterModuleItem
        \/ ScanCalls
        \/ Leave
        \/ FinishFile

Spec == Init /\ [][Next]_vars

-----------------------------------------------------------------------------
(* Properties                                                              *)

NodeIds == {nodes[i].id : i \in DOMAIN nodes}
EdgeSet == {edges[i] : i \in DOMAIN edges}

Kinds == {row.kind : row \in Rows} \cup {"SourceFile", "Module"}
EdgeTypes == {"Contains", "Defines", "FactoryRegisters", "FactoryOverrides"}

(* Types of the walk's state.                                              *)
TypeOK == /\ next_id \in Nat \ {0}
          /\ base \in Nat
          /\ stack \in Seq([dispatch : DOMAIN Dispatch, id : Nat])
          /\ nodes \in Seq([id : Nat, kind : Kinds])
          /\ edges \in Seq([source : Nat, target : Nat, edge_type : EdgeTypes])
          /\ lost \subseteq Nat

(* Every edge goes from a smaller id to a larger one.  The query tools     *)
(* that follow edges without a visited set (print_tree, goto_definition,   *)
(* find_containing_module) terminate on extracted graphs for this reason   *)
(* only.                                                                   *)
ParentBeforeChild == \A i \in DOMAIN edges : edges[i].source < edges[i].target

(* A node is linked to one parent, however often: walking up from a node   *)
(* has one outcome.                                                        *)
OneParent == \A i, j \in DOMAIN edges :
               edges[i].target = edges[j].target => edges[i].source = edges[j].source

(* What the indexer relies on (OutlineAssumption of Indexer): the first    *)
(* node is the SourceFile, carrying the first id taken for this file;      *)
(* every id in a node or an edge was taken for this file.                  *)
OutlineIsSelfContained ==
  base # 0 =>
    /\ nodes[1] = Node(base, "SourceFile")
    /\ NodeIds \subseteq base .. next_id - 1
    /\ \A e \in EdgeSet : {e.source, e.target} \subseteq base .. next_id - 1

(* No id is given to two nodes, across all the functions that take one     *)
(* early, late or not at all.                                              *)
NodesNumberedOnce == \A i, j \in DOMAIN nodes : nodes[i].id = nodes[j].id => i = j

(* An extracted graph is a forest over its nodes: edges lead to larger     *)
(* ids, a node has one parent, and no two nodes are the same.  The tools   *)
(* that walk it keep no visited set, climb without looking for a second    *)
(* way, and file nodes by their id.                                        *)
GraphIsForest == ParentBeforeChild /\ OneParent /\ NodesNumberedOnce
=============================================================================
