-------------------------- MODULE Extractor_proofs ---------------------------
(***************************************************************************)
(* Proofs about the extraction walk, for trees of any size and any set of  *)
(* constructs.                                                             *)
(***************************************************************************)
EXTENDS Queries, FiniteSetTheorems, SequenceTheorems, TLAPS

-----------------------------------------------------------------------------
(* The table of rows                                                       *)

Dispatches == {"file", "module", "module_item", "generate", "covergroup",
               "class", "package", "interface", "calls"}

FrameSet == [dispatch : Dispatches, id : Nat]
NodeSet == [id : Nat, kind : Kinds]
EdgeSetType == [source : Nat, target : Nat, edge_type : EdgeTypes]

(* The dispatch functions that have a table.                               *)
LEMMA DispatchDomain == DOMAIN Dispatch = Dispatches
  BY DEF Dispatch, Dispatches

(* A row makes an edge of a known type, and opens nothing or a dispatch    *)
(* below the file and module level.                                        *)
WellFormed(row) == /\ row.edge \in EdgeTypes
                   /\ row.opens = "nothing" \/ row.opens \in Dispatches \ {"file", "module"}

(* Every row of every table is of that form.                               *)
LEMMA RowsWellFormed == \A row \in Rows : WellFormed(row)
<1> USE DEF WellFormed, Leaf, Row, EdgeTypes, Dispatches
<1>1. \A row \in PortRows \cup SignalRows \cup BehaviourRows \cup ModuleRows : WellFormed(row)
  BY DEF PortRows, SignalRows, BehaviourRows, ModuleRows
<1>2. \A row \in GenerateRows : WellFormed(row)
  BY DEF GenerateRows
<1>3. \A row \in AssertionRows \cup DpiRows : WellFormed(row)
  BY DEF AssertionRows, DpiRows
<1>4. \A row \in ClassRows \cup PackageRows \cup InterfaceRows : WellFormed(row)
  BY DEF ClassRows, PackageRows, InterfaceRows
<1>5. \A row \in TlmRows \cup ConfigDbRows \cup FactoryRows \cup OverrideRows \cup ScopedCallRows :
        WellFormed(row)
  BY DEF TlmRows, ConfigDbRows, FactoryRows, OverrideRows, ScopedCallRows
<1> HIDE DEF WellFormed
<1> QED BY <1>1, <1>2, <1>3, <1>4, <1>5 DEF Rows

-----------------------------------------------------------------------------
(* The stack                                                               *)

(* The stack without its top.                                              *)
LEMMA PopFacts ==
  ASSUME NEW S, NEW s \in Seq(S), s # <<>>
  PROVE  /\ Pop(s) \in Seq(S)
         /\ Len(Pop(s)) = Len(s) - 1
         /\ \A i \in 1 .. Len(s) - 1 : Pop(s)[i] = s[i]
<1>1. Len(s) \in Nat \ {0}
  BY EmptySeq
<1> DEFINE n == Len(s) - 1
<1>2. n \in Int /\ n >= 0 /\ 1 \in Int /\ \A i \in 1 .. n : s[i] \in S
  BY <1>1, ElementOfSeq
<1>3. Pop(s) = [i \in 1 .. n |-> s[i]]
  BY <1>1, <1>2 DEF Pop
<1> QED BY <1>1, <1>2, <1>3

(* A vector with one element more.                                         *)
LEMMA AppendFacts ==
  ASSUME NEW S, NEW s \in Seq(S), NEW e \in S
  PROVE  /\ Append(s, e) \in Seq(S)
         /\ Len(s) \in Nat
         /\ Len(Append(s, e)) = Len(s) + 1
         /\ \A i \in 1 .. Len(s) + 1 :
              \/ i \in 1 .. Len(s) /\ Append(s, e)[i] = s[i]
              \/ i = Len(s) + 1 /\ Append(s, e)[i] = e
         /\ \A i \in 1 .. Len(s) : Append(s, e)[i] = s[i]
<1>1. Len(s) \in Nat
  BY LenProperties
<1>2. \A i \in 1 .. Len(s) + 1 : i \in 1 .. Len(s) \/ i = Len(s) + 1
  BY <1>1
<1> QED BY <1>1, <1>2, AppendProperties

(* The ids in the vectors are numbers.                                     *)
LEMMA Fields ==
  /\ \A st \in Seq(FrameSet) : \A i \in 1 .. Len(st) : st[i].id \in Nat
  /\ \A ns \in Seq(NodeSet) : \A i \in 1 .. Len(ns) : ns[i].id \in Nat
  /\ \A es \in Seq(EdgeSetType) : \A i \in 1 .. Len(es) :
       es[i].source \in Nat /\ es[i].target \in Nat
<1>1. ASSUME NEW st \in Seq(FrameSet), NEW i \in 1 .. Len(st) PROVE st[i].id \in Nat
  <2>1. st[i] \in FrameSet
    BY ElementOfSeq
  <2> QED BY <2>1 DEF FrameSet
<1>2. ASSUME NEW ns \in Seq(NodeSet), NEW i \in 1 .. Len(ns) PROVE ns[i].id \in Nat
  <2>1. ns[i] \in NodeSet
    BY ElementOfSeq
  <2> QED BY <2>1 DEF NodeSet
<1>3. ASSUME NEW es \in Seq(EdgeSetType), NEW i \in 1 .. Len(es)
      PROVE  es[i].source \in Nat /\ es[i].target \in Nat
  <2>1. es[i] \in EdgeSetType
    BY ElementOfSeq
  <2> QED BY <2>1 DEF EdgeSetType
<1> QED BY <1>1, <1>2, <1>3

-----------------------------------------------------------------------------
(* The inductive invariant                                                 *)

Types == /\ next_id \in Nat
         /\ base \in Nat
         /\ stack \in Seq(FrameSet)
         /\ nodes \in Seq(NodeSet)
         /\ edges \in Seq(EdgeSetType)
         /\ lost \subseteq Nat

(* The frame at position i above the file's: its id was taken after the    *)
(* file's, and a module's frame stands directly on the file's.             *)
FrameOk(frame, i, b, n) == /\ b < frame.id /\ frame.id < n
                           /\ frame.dispatch # "file"
                           /\ frame.dispatch = "module" => i = 2

FramesOk(st, b, n) ==
  /\ b < n
  /\ Len(st) > 0 => st[1] = Frame("file", b) /\ b # 0
  /\ \A i \in 1 .. Len(st) : i > 1 => FrameOk(st[i], i, b, n)

(* The nodes carry different ids taken for this file.                      *)
NodesOk(ns, b, n) ==
  /\ \A i \in 1 .. Len(ns) : b <= ns[i].id /\ ns[i].id < n
  /\ \A i, j \in 1 .. Len(ns) : ns[i].id = ns[j].id => i = j

FirstOk(ns, b) == b # 0 => Len(ns) > 0 /\ ns[1] = Node(b, "SourceFile")

(* The edges go up, stay among the ids taken for this file, and give a     *)
(* target one source.                                                      *)
EdgeOk(e, b, n) == b <= e.source /\ e.source < e.target /\ e.target < n

EdgesOk(es, b, n) ==
  /\ \A i \in 1 .. Len(es) : EdgeOk(es[i], b, n)
  /\ \A i, j \in 1 .. Len(es) : es[i].target = es[j].target => es[i].source = es[j].source

(* What is still to come for the frame on the file's: a module's id has no *)
(* node yet and ends no edge, a class is linked to nothing but the file.   *)
SecondOk(frame, ns, es, b) ==
  /\ frame.dispatch = "module" => /\ \A i \in 1 .. Len(ns) : ns[i].id # frame.id
                                  /\ \A i \in 1 .. Len(es) : es[i].target # frame.id
  /\ frame.dispatch = "class" => \A i \in 1 .. Len(es) : es[i].target = frame.id => es[i].source = b

Reserved(st, ns, es, b) == Len(st) > 1 => SecondOk(st[2], ns, es, b)

IInv == /\ Types
        /\ FramesOk(stack, base, next_id)
        /\ NodesOk(nodes, base, next_id) /\ FirstOk(nodes, base)
        /\ EdgesOk(edges, base, next_id)
        /\ Reserved(stack, nodes, edges, base)

(* Nothing extracted yet.                                                  *)
LEMMA InvInitially == Init => IInv
  BY DEF Init, InitAt, IInv, Types, FramesOk, NodesOk, FirstOk, EdgesOk, Reserved

-----------------------------------------------------------------------------
(* The parts of the invariant when one of the sequences grows or the       *)
(* counter moves                                                           *)

(* A node with an id of its own is added.                                  *)
LEMMA NodesGrow ==
  ASSUME NEW ns \in Seq(NodeSet), NEW b \in Nat, NEW n \in Nat, NEW m \in Nat, NEW node \in NodeSet,
         NodesOk(ns, b, n), FirstOk(ns, b), n <= m, b <= node.id, node.id < m,
         \A i \in 1 .. Len(ns) : ns[i].id # node.id
  PROVE  /\ NodesOk(Append(ns, node), b, m) /\ FirstOk(Append(ns, node), b)
         /\ Append(ns, node) \in Seq(NodeSet)
<1> DEFINE new == Append(ns, node)
<1>1. /\ new \in Seq(NodeSet)
      /\ Len(ns) \in Nat
      /\ Len(new) = Len(ns) + 1
      /\ \A i \in 1 .. Len(ns) + 1 : \/ i \in 1 .. Len(ns) /\ new[i] = ns[i]
                                     \/ i = Len(ns) + 1 /\ new[i] = node
      /\ \A i \in 1 .. Len(ns) : new[i] = ns[i]
  BY AppendFacts
<1> HIDE DEF new
<1>2. \A i \in 1 .. Len(ns) : ns[i].id \in Nat
  BY Fields
<1>3. node.id \in Nat
  BY DEF NodeSet
<1>4. ASSUME NEW i \in 1 .. Len(new) PROVE b <= new[i].id /\ new[i].id < m
  BY <1>1, <1>2, <1>3 DEF NodesOk
<1>5. ASSUME NEW i \in 1 .. Len(new), NEW j \in 1 .. Len(new), new[i].id = new[j].id PROVE i = j
  BY <1>1, <1>5 DEF NodesOk
<1>6. FirstOk(new, b)
  BY <1>1 DEF FirstOk
<1> QED BY <1>1, <1>4, <1>5, <1>6 DEF NodesOk, new

(* An edge whose target has no other source is added.                      *)
LEMMA EdgesGrow ==
  ASSUME NEW es \in Seq(EdgeSetType), NEW b \in Nat, NEW n \in Nat, NEW m \in Nat,
         NEW e \in EdgeSetType,
         EdgesOk(es, b, n), n <= m, EdgeOk(e, b, m),
         \A i \in 1 .. Len(es) : es[i].target = e.target => es[i].source = e.source
  PROVE  EdgesOk(Append(es, e), b, m) /\ Append(es, e) \in Seq(EdgeSetType)
<1> DEFINE new == Append(es, e)
<1>1. /\ new \in Seq(EdgeSetType)
      /\ Len(es) \in Nat
      /\ Len(new) = Len(es) + 1
      /\ \A i \in 1 .. Len(es) + 1 : \/ i \in 1 .. Len(es) /\ new[i] = es[i]
                                     \/ i = Len(es) + 1 /\ new[i] = e
  BY AppendFacts
<1> HIDE DEF new
<1>2. \A i \in 1 .. Len(es) : es[i].source \in Nat /\ es[i].target \in Nat
  BY Fields
<1>3. ASSUME NEW i \in 1 .. Len(new) PROVE EdgeOk(new[i], b, m)
  BY <1>1, <1>2 DEF EdgesOk, EdgeOk
<1>4. ASSUME NEW i \in 1 .. Len(new), NEW j \in 1 .. Len(new), new[i].target = new[j].target
      PROVE  new[i].source = new[j].source
  BY <1>1, <1>4 DEF EdgesOk
<1> QED BY <1>1, <1>3, <1>4 DEF EdgesOk, new

(* Ids are taken: what was below the counter still is.                     *)
LEMMA CounterMoves ==
  ASSUME NEW b \in Nat, NEW n \in Nat, NEW m \in Nat, n <= m,
         NEW st \in Seq(FrameSet), NEW ns \in Seq(NodeSet), NEW es \in Seq(EdgeSetType)
  PROVE  /\ FramesOk(st, b, n) => FramesOk(st, b, m)
         /\ NodesOk(ns, b, n) => NodesOk(ns, b, m)
         /\ EdgesOk(es, b, n) => EdgesOk(es, b, m)
<1>1. /\ \A i \in 1 .. Len(st) : st[i].id \in Nat
      /\ \A i \in 1 .. Len(ns) : ns[i].id \in Nat
      /\ \A i \in 1 .. Len(es) : es[i].source \in Nat /\ es[i].target \in Nat
  BY Fields
<1>2. FramesOk(st, b, n) => FramesOk(st, b, m)
  BY <1>1 DEF FramesOk, FrameOk
<1>3. NodesOk(ns, b, n) => NodesOk(ns, b, m)
  BY <1>1 DEF NodesOk
<1>4. EdgesOk(es, b, n) => EdgesOk(es, b, m)
  BY <1>1 DEF EdgesOk, EdgeOk
<1> QED BY <1>2, <1>3, <1>4

(* A dispatch function is entered.                                         *)
LEMMA StackGrows ==
  ASSUME NEW b \in Nat, NEW n \in Nat, NEW st \in Seq(FrameSet), NEW frame \in FrameSet,
         FramesOk(st, b, n), Len(st) > 0, FrameOk(frame, Len(st) + 1, b, n)
  PROVE  FramesOk(Append(st, frame), b, n) /\ Append(st, frame) \in Seq(FrameSet)
<1> DEFINE new == Append(st, frame)
<1>1. /\ new \in Seq(FrameSet)
      /\ Len(st) \in Nat
      /\ Len(new) = Len(st) + 1
      /\ \A i \in 1 .. Len(st) + 1 : \/ i \in 1 .. Len(st) /\ new[i] = st[i]
                                     \/ i = Len(st) + 1 /\ new[i] = frame
      /\ \A i \in 1 .. Len(st) : new[i] = st[i]
  BY AppendFacts
<1> HIDE DEF new
<1>2. ASSUME NEW i \in 1 .. Len(new), i > 1 PROVE FrameOk(new[i], i, b, n)
  BY <1>1, <1>2 DEF FramesOk
<1>3. new[1] = Frame("file", b) /\ b # 0
  BY <1>1 DEF FramesOk
<1> QED BY <1>1, <1>2, <1>3 DEF FramesOk, new

(* A dispatch function returns.                                            *)
LEMMA StackShrinks ==
  ASSUME NEW b \in Nat, NEW n \in Nat, NEW st \in Seq(FrameSet), FramesOk(st, b, n), st # <<>>
  PROVE  FramesOk(Pop(st), b, n) /\ Pop(st) \in Seq(FrameSet)
<1> DEFINE new == Pop(st)
<1>1. /\ new \in Seq(FrameSet)
      /\ Len(st) \in Nat
      /\ Len(new) = Len(st) - 1
      /\ \A i \in 1 .. Len(st) - 1 : new[i] = st[i]
  BY PopFacts, LenProperties
<1> HIDE DEF new
<1>2. ASSUME NEW i \in 1 .. Len(new), i > 1 PROVE FrameOk(new[i], i, b, n)
  BY <1>1, <1>2 DEF FramesOk
<1>3. Len(new) > 0 => new[1] = Frame("file", b) /\ b # 0
  BY <1>1 DEF FramesOk
<1> QED BY <1>1, <1>2, <1>3 DEF FramesOk, new

(* The counter of open dispatches.                                         *)
LEMMA PositiveCases == \A n \in Nat : n > 0 => n = 1 \/ n > 1
  OBVIOUS

(* The frame on top of a stack that is not empty.                          *)
LEMMA TopFacts ==
  ASSUME IInv, stack # <<>>
  PROVE  /\ Top \in FrameSet /\ Top.id \in Nat /\ base <= Top.id /\ Top.id < next_id
         /\ Len(stack) > 0 /\ base # 0 /\ Len(stack) \in Nat
         /\ Len(stack) = 1 => Top.dispatch = "file" /\ Top.id = base
         /\ Len(stack) > 1 => Top.dispatch # "file" /\ base < Top.id
         /\ Top.dispatch = "module" => Len(stack) = 2
<1>1. Len(stack) \in Nat /\ Len(stack) > 0
  BY EmptySeq DEF IInv, Types
<1>2. Top \in FrameSet /\ Top.id \in Nat
  <2>1. stack \in Seq(FrameSet) /\ Len(stack) \in 1 .. Len(stack)
    BY <1>1 DEF IInv, Types
  <2>2. stack[Len(stack)] \in FrameSet
    BY <2>1, ElementOfSeq
  <2> QED BY <2>2 DEF Top, FrameSet
<1>3. base # 0 /\ base \in Nat /\ next_id \in Nat /\ base < next_id
  BY <1>1 DEF IInv, Types, FramesOk
<1>4. Len(stack) = 1 => Top = Frame("file", base)
  BY <1>1 DEF IInv, FramesOk, FrameOk, Top
<1>5. Len(stack) > 1 => /\ base < Top.id /\ Top.id < next_id
                        /\ Top.dispatch # "file"
                        /\ Top.dispatch = "module" => Len(stack) = 2
  <2>1. Len(stack) \in 1 .. Len(stack)
    BY <1>1
  <2> QED BY <2>1 DEF IInv, FramesOk, FrameOk, Top
<1>6. CASE Len(stack) = 1
  <2>1. Top.id = base /\ Top.dispatch = "file"
    BY <1>4, <1>6 DEF Frame
  <2> QED BY <1>1, <1>2, <1>3, <1>6, <2>1
<1>7. CASE Len(stack) > 1
  <2>1. base <= Top.id
    BY <1>2, <1>3, <1>5, <1>7
  <2> QED BY <1>1, <1>2, <1>3, <1>5, <1>7, <2>1
<1>8. Len(stack) = 1 \/ Len(stack) > 1
  BY <1>1, PositiveCases
<1> QED BY <1>6, <1>7, <1>8

(* A node and an edge of another construct leave the open class or module  *)
(* as it was.                                                              *)
LEMMA SecondKept ==
  ASSUME NEW ns \in Seq(NodeSet), NEW es \in Seq(EdgeSetType), NEW b, NEW frame \in FrameSet,
         NEW node \in NodeSet, NEW e \in EdgeSetType,
         SecondOk(frame, ns, es, b), node.id # frame.id, e.target # frame.id
  PROVE  SecondOk(frame, Append(ns, node), Append(es, e), b)
<1> DEFINE newN == Append(ns, node)
           newE == Append(es, e)
<1>1. \A i \in 1 .. Len(newN) : newN[i] = node \/ (i \in 1 .. Len(ns) /\ newN[i] = ns[i])
  BY AppendFacts
<1>2. \A i \in 1 .. Len(newE) : newE[i] = e \/ (i \in 1 .. Len(es) /\ newE[i] = es[i])
  BY AppendFacts
<1> HIDE DEF newN, newE
<1>3. frame.dispatch = "module" => /\ \A i \in 1 .. Len(newN) : newN[i].id # frame.id
                                   /\ \A i \in 1 .. Len(newE) : newE[i].target # frame.id
  BY <1>1, <1>2 DEF SecondOk
<1>4. frame.dispatch = "class" => \A i \in 1 .. Len(newE) :
                                    newE[i].target = frame.id => newE[i].source = b
  BY <1>2 DEF SecondOk
<1> QED BY <1>3, <1>4 DEF SecondOk, newN, newE

-----------------------------------------------------------------------------
(* The invariant is preserved, one action at a time                        *)

(* extract takes the first id for the SourceFile node.                     *)
LEMMA StartFilePreserves == ASSUME IInv, StartFile PROVE IInv'
<1>1. next_id \in Nat /\ next_id # 0
  BY DEF IInv, Types, FramesOk
<1>2. nodes' \in Seq(NodeSet) /\ stack' \in Seq(FrameSet) /\ edges' \in Seq(EdgeSetType)
  BY <1>1 DEF StartFile, Node, Frame, NodeSet, FrameSet, Kinds, Dispatches
<1>3. /\ Len(nodes') = 1 /\ nodes'[1] = Node(next_id, "SourceFile")
      /\ Len(stack') = 1 /\ stack'[1] = Frame("file", next_id)
      /\ Len(edges') = 0 /\ base' = next_id /\ next_id' = next_id + 1 /\ lost' = {}
  BY DEF StartFile
<1>4. Types'
  BY <1>1, <1>2, <1>3 DEF Types
<1>5. FramesOk(stack, base, next_id)'
  BY <1>1, <1>3 DEF FramesOk
<1>6. NodesOk(nodes, base, next_id)' /\ FirstOk(nodes, base)'
  BY <1>1, <1>3 DEF NodesOk, FirstOk, Node
<1>7. EdgesOk(edges, base, next_id)' /\ Reserved(stack, nodes, edges, base)'
  BY <1>3 DEF EdgesOk, Reserved
<1> QED BY <1>4, <1>5, <1>6, <1>7 DEF IInv

(* A row of a dispatch table: a fresh id, a node and an edge from the      *)
(* frame on top.                                                           *)
LEMMA ExtractConstructPreserves ==
  ASSUME IInv, NEW row \in Rows, ExtractConstruct(row)
  PROVE  IInv'
<1> DEFINE node == Node(next_id, row.kind)
           e == EdgeTo(Top.id, next_id, row.edge)
           frame == Frame(row.opens, next_id)
<1>1. /\ Top \in FrameSet /\ base <= Top.id /\ Top.id < next_id /\ Top.id \in Nat
      /\ Len(stack) > 0 /\ base # 0 /\ Len(stack) \in Nat
      /\ Len(stack) = 1 => Top.id = base
  <2>1. stack # <<>>
    BY DEF ExtractConstruct
  <2> QED BY <2>1, TopFacts
<1>2. /\ nodes' = Append(nodes, node) /\ edges' = Append(edges, e)
      /\ stack' = IF row.opens = "nothing" THEN stack ELSE Append(stack, frame)
      /\ next_id' = next_id + 1 /\ base' = base /\ lost' = lost
  BY DEF ExtractConstruct
<1>3. /\ base \in Nat /\ next_id \in Nat /\ next_id + 1 \in Nat /\ next_id <= next_id + 1
      /\ base < next_id
  BY DEF IInv, Types, FramesOk
<1>4. /\ node \in NodeSet /\ node.id = next_id
      /\ e \in EdgeSetType /\ e.source = Top.id /\ e.target = next_id
  BY <1>1, <1>3, RowsWellFormed DEF WellFormed, NodeSet, EdgeSetType, Kinds, Node, EdgeTo
<1>5. row.opens # "nothing" => /\ frame \in FrameSet /\ frame.id = next_id
                               /\ frame.dispatch \notin {"file", "module"}
  BY <1>3, RowsWellFormed DEF WellFormed, FrameSet, Frame
<1> HIDE DEF node, e, frame
<1>6. /\ \A i \in 1 .. Len(nodes) : nodes[i].id # next_id
      /\ \A i \in 1 .. Len(edges) : edges[i].target # next_id
  BY <1>3, Fields DEF IInv, Types, NodesOk, EdgesOk, EdgeOk
<1>7. NodesOk(nodes', base, next_id + 1) /\ FirstOk(nodes', base) /\ nodes' \in Seq(NodeSet)
  <2>1. /\ nodes \in Seq(NodeSet) /\ NodesOk(nodes, base, next_id) /\ FirstOk(nodes, base)
        /\ base <= node.id /\ node.id < next_id + 1
        /\ \A i \in 1 .. Len(nodes) : nodes[i].id # node.id
    BY <1>3, <1>4, <1>6 DEF IInv, Types
  <2>2. /\ NodesOk(Append(nodes, node), base, next_id + 1) /\ FirstOk(Append(nodes, node), base)
        /\ Append(nodes, node) \in Seq(NodeSet)
    BY <1>3, <1>4, <2>1, NodesGrow
  <2> QED BY <1>2, <2>2
<1>8. EdgesOk(edges', base, next_id + 1) /\ edges' \in Seq(EdgeSetType)
  <2>1. /\ edges \in Seq(EdgeSetType) /\ EdgesOk(edges, base, next_id)
        /\ EdgeOk(e, base, next_id + 1)
        /\ \A i \in 1 .. Len(edges) : edges[i].target = e.target => edges[i].source = e.source
    BY <1>1, <1>3, <1>4, <1>6 DEF IInv, Types, EdgeOk
  <2>2. EdgesOk(Append(edges, e), base, next_id + 1) /\ Append(edges, e) \in Seq(EdgeSetType)
    BY <1>3, <1>4, <2>1, EdgesGrow
  <2> QED BY <1>2, <2>2
<1>9. FramesOk(stack, base, next_id + 1) /\ stack \in Seq(FrameSet)
  BY <1>3, CounterMoves DEF IInv, Types
<1>10. FramesOk(stack', base, next_id + 1) /\ stack' \in Seq(FrameSet)
  <2>1. CASE row.opens = "nothing"
    BY <1>2, <1>9, <2>1
  <2>2. CASE row.opens # "nothing"
    <3>1. FrameOk(frame, Len(stack) + 1, base, next_id + 1)
      BY <1>3, <1>5, <2>2 DEF FrameOk
    <3> QED BY <1>1, <1>2, <1>3, <1>5, <1>9, <2>2, <3>1, StackGrows
  <2> QED BY <2>1, <2>2
<1>11. Len(stack) > 1 => SecondOk(stack[2], nodes', edges', base)
  <2> SUFFICES ASSUME Len(stack) > 1 PROVE SecondOk(stack[2], nodes', edges', base)
    OBVIOUS
  <2>1. 2 \in 1 .. Len(stack)
    BY <1>1
  <2>2. stack[2] \in FrameSet /\ stack[2].id < next_id /\ stack[2].id \in Nat
    BY <1>9, <2>1, ElementOfSeq, Fields DEF IInv, FramesOk, FrameOk
  <2>3. SecondOk(stack[2], nodes, edges, base)
    BY DEF IInv, Reserved
  <2>4. /\ nodes \in Seq(NodeSet) /\ edges \in Seq(EdgeSetType)
        /\ node.id # stack[2].id /\ e.target # stack[2].id
    BY <1>3, <1>4, <2>2 DEF IInv, Types
  <2>5. SecondOk(stack[2], Append(nodes, node), Append(edges, e), base)
    BY <1>4, <2>2, <2>3, <2>4, SecondKept
  <2> QED BY <1>2, <2>5
<1>12. Len(stack') > 1 => SecondOk(stack'[2], nodes', edges', base)
  <2>1. CASE row.opens = "nothing"
    BY <1>2, <1>11, <2>1
  <2>2. CASE row.opens # "nothing" /\ Len(stack) > 1
    <3>1. 2 \in 1 .. Len(stack) /\ stack'[2] = stack[2]
      BY <1>1, <1>2, <1>5, <1>9, <2>2, AppendFacts
    <3> QED BY <1>11, <2>2, <3>1
  <2>3. CASE row.opens # "nothing" /\ Len(stack) = 1
    <3>1. stack'[2] = frame
      <4>1. frame \in FrameSet /\ stack \in Seq(FrameSet) /\ stack' = Append(stack, frame)
        BY <1>2, <1>5, <1>9, <2>3
      <4>2. Append(stack, frame)[Len(stack) + 1] = frame
        BY <4>1, AppendProperties
      <4> QED BY <2>3, <4>1, <4>2
    <3>2. \A i \in 1 .. Len(edges') : edges'[i] = e \/ (i \in 1 .. Len(edges) /\ edges'[i] = edges[i])
      BY <1>2, <1>4, AppendFacts DEF IInv, Types
    <3>3. \A i \in 1 .. Len(edges') : edges'[i].target = next_id => edges'[i].source = base
      BY <1>1, <1>4, <1>6, <2>3, <3>2
    <3> QED BY <1>5, <2>3, <3>1, <3>3 DEF SecondOk
  <2>4. Len(stack) = 1 \/ Len(stack) > 1
    BY <1>1, PositiveCases
  <2> QED BY <2>1, <2>2, <2>3, <2>4
<1>13. Types'
  BY <1>2, <1>3, <1>7, <1>8, <1>10 DEF Types, IInv
<1> QED BY <1>2, <1>7, <1>8, <1>10, <1>12, <1>13 DEF IInv, Reserved

(* extract_module takes its id before the name is known.                   *)
LEMMA EnterModulePreserves == ASSUME IInv, EnterModule PROVE IInv'
<1> DEFINE frame == Frame("module", next_id)
<1>1. /\ stack' = Append(stack, frame) /\ next_id' = next_id + 1
      /\ nodes' = nodes /\ edges' = edges /\ base' = base /\ lost' = lost
      /\ Top.dispatch = "file" /\ stack # <<>>
  BY DEF EnterModule
<1>2. Len(stack) = 1
  BY <1>1, TopFacts, PositiveCases
<1>3. /\ base \in Nat /\ next_id \in Nat /\ next_id + 1 \in Nat /\ next_id <= next_id + 1
      /\ base < next_id
      /\ stack \in Seq(FrameSet) /\ nodes \in Seq(NodeSet) /\ edges \in Seq(EdgeSetType)
  BY DEF IInv, Types, FramesOk
<1>4. frame \in FrameSet /\ frame.id = next_id /\ frame.dispatch = "module"
  BY <1>3 DEF Frame, FrameSet, Dispatches
<1> HIDE DEF frame
<1>5. /\ FramesOk(stack, base, next_id + 1)
      /\ NodesOk(nodes, base, next_id + 1)
      /\ EdgesOk(edges, base, next_id + 1)
  BY <1>3, CounterMoves DEF IInv
<1>6. FramesOk(stack', base, next_id + 1) /\ stack' \in Seq(FrameSet)
  <2>1. FrameOk(frame, Len(stack) + 1, base, next_id + 1) /\ Len(stack) > 0
    BY <1>2, <1>3, <1>4 DEF FrameOk
  <2> QED BY <1>1, <1>3, <1>4, <1>5, <2>1, StackGrows
<1>7. SecondOk(stack'[2], nodes, edges, base)
  <2>1. Append(stack, frame)[Len(stack) + 1] = frame
    BY <1>3, <1>4, AppendProperties
  <2>2. stack'[2] = frame
    BY <1>1, <1>2, <2>1
  <2>3. /\ \A i \in 1 .. Len(nodes) : nodes[i].id # next_id
        /\ \A i \in 1 .. Len(edges) : edges[i].target # next_id
    BY <1>3, Fields DEF IInv, NodesOk, EdgesOk, EdgeOk
  <2> QED BY <1>4, <2>2, <2>3 DEF SecondOk
<1>8. Types'
  BY <1>1, <1>3, <1>6 DEF Types, IInv
<1> QED BY <1>1, <1>5, <1>6, <1>7, <1>8 DEF IInv, Reserved

(* With a name the node and its edge are added; without one the id is      *)
(* lost.                                                                   *)
LEMMA LeaveModulePreserves == ASSUME IInv, NEW named \in BOOLEAN, LeaveModule(named) PROVE IInv'
<1> DEFINE node == Node(Top.id, "Module")
           e == Contains(stack[1].id, Top.id)
<1>1. /\ stack # <<>> /\ Top.dispatch = "module" /\ stack' = Pop(stack)
      /\ next_id' = next_id /\ base' = base
      /\ named => nodes' = Append(nodes, node) /\ edges' = Append(edges, e) /\ lost' = lost
      /\ ~named => nodes' = nodes /\ edges' = edges /\ lost' = lost \cup {Top.id}
  BY DEF LeaveModule
<1>2. /\ base \in Nat /\ next_id \in Nat /\ base < next_id /\ next_id <= next_id
      /\ stack \in Seq(FrameSet) /\ nodes \in Seq(NodeSet) /\ edges \in Seq(EdgeSetType)
      /\ lost \subseteq Nat
  BY DEF IInv, Types, FramesOk
<1>3. /\ Len(stack) = 2 /\ Top.id \in Nat /\ base < Top.id /\ base <= Top.id /\ Top.id < next_id
  <2>1. Len(stack) = 2 /\ Top.id \in Nat /\ base <= Top.id /\ Top.id < next_id
    BY <1>1, TopFacts
  <2>2. base < Top.id
    BY <1>1, <2>1, TopFacts
  <2> QED BY <2>1, <2>2
<1>4. stack[1].id = base /\ Top = stack[2]
  BY <1>3 DEF IInv, FramesOk, Frame, Top
<1>5. /\ node \in NodeSet /\ node.id = Top.id
      /\ e \in EdgeSetType /\ e.source = base /\ e.target = Top.id
  BY <1>2, <1>3, <1>4 DEF NodeSet, EdgeSetType, Kinds, EdgeTypes, Node, Contains, EdgeTo
<1> HIDE DEF node, e
<1>6. /\ \A i \in 1 .. Len(nodes) : nodes[i].id # node.id
      /\ \A i \in 1 .. Len(edges) : edges[i].target # e.target
  BY <1>1, <1>3, <1>4, <1>5 DEF IInv, Reserved, SecondOk
<1>7. FramesOk(stack', base, next_id) /\ stack' \in Seq(FrameSet) /\ Len(stack') = 1
  <2>1. FramesOk(stack', base, next_id) /\ stack' \in Seq(FrameSet)
    BY <1>1, <1>2, StackShrinks DEF IInv
  <2>2. Len(Pop(stack)) = Len(stack) - 1
    BY <1>1, <1>2, PopFacts
  <2> QED BY <1>1, <1>3, <2>1, <2>2
<1>8. NodesOk(nodes', base, next_id) /\ FirstOk(nodes', base) /\ nodes' \in Seq(NodeSet)
  <2>1. NodesOk(nodes, base, next_id) /\ FirstOk(nodes, base) /\ base <= node.id /\ node.id < next_id
    BY <1>3, <1>5 DEF IInv
  <2>2. /\ NodesOk(Append(nodes, node), base, next_id) /\ FirstOk(Append(nodes, node), base)
        /\ Append(nodes, node) \in Seq(NodeSet)
    BY <1>2, <1>5, <1>6, <2>1, NodesGrow
  <2> QED BY <1>1, <1>2, <2>1, <2>2
<1>9. EdgesOk(edges', base, next_id) /\ edges' \in Seq(EdgeSetType)
  <2>1. EdgesOk(edges, base, next_id) /\ EdgeOk(e, base, next_id)
    BY <1>2, <1>3, <1>5 DEF IInv, EdgeOk
  <2>2. EdgesOk(Append(edges, e), base, next_id) /\ Append(edges, e) \in Seq(EdgeSetType)
    BY <1>2, <1>5, <1>6, <2>1, EdgesGrow
  <2> QED BY <1>1, <1>2, <2>1, <2>2
<1>10. Types'
  BY <1>1, <1>2, <1>3, <1>7, <1>8, <1>9 DEF Types
<1>11. Reserved(stack, nodes, edges, base)'
  BY <1>7 DEF Reserved
<1> QED BY <1>1, <1>7, <1>8, <1>9, <1>10, <1>11 DEF IInv

(* A frame that continues under the id of the frame below it.              *)
LEMMA ContinuePreserves ==
  ASSUME IInv, NEW d \in Dispatches \ {"file", "module"},
         Len(stack) > 1, stack # <<>>,
         stack' = Append(stack, Frame(d, Top.id)),
         UNCHANGED <<next_id, nodes, edges, base, lost>>
  PROVE  IInv'
<1> DEFINE frame == Frame(d, Top.id)
<1>1. Top.id \in Nat /\ base < Top.id /\ Top.id < next_id /\ Len(stack) \in Nat
  BY TopFacts
<1>2. /\ frame \in FrameSet /\ FrameOk(frame, Len(stack) + 1, base, next_id)
      /\ stack' = Append(stack, frame)
  BY <1>1 DEF Frame, FrameSet, FrameOk
<1> HIDE DEF frame
<1>3. /\ base \in Nat /\ next_id \in Nat /\ stack \in Seq(FrameSet) /\ Len(stack) > 0
      /\ FramesOk(stack, base, next_id)
  BY <1>1 DEF IInv, Types
<1>4. FramesOk(stack', base, next_id) /\ stack' \in Seq(FrameSet)
  BY <1>2, <1>3, StackGrows
<1>5. stack'[2] = stack[2]
  <2>1. 2 \in 1 .. Len(stack)
    BY <1>1
  <2> QED BY <1>2, <1>3, <2>1, AppendFacts
<1>6. SecondOk(stack'[2], nodes, edges, base)
  BY <1>5 DEF IInv, Reserved
<1> QED BY <1>4, <1>6 DEF IInv, Types, Reserved

(* A class on the file level is linked when its walk is done.              *)
LEMMA LeavePreserves == ASSUME IInv, Leave PROVE IInv'
<1> DEFINE e == Contains(stack[1].id, Top.id)
           link == Top.dispatch = "class" /\ Len(stack) = 2
<1>1. /\ Len(stack) > 1 /\ stack' = Pop(stack)
      /\ link => edges' = Append(edges, e)
      /\ ~link => edges' = edges
      /\ next_id' = next_id /\ nodes' = nodes /\ base' = base /\ lost' = lost
  BY DEF Leave
<1>2. /\ base \in Nat /\ next_id \in Nat /\ next_id <= next_id
      /\ stack \in Seq(FrameSet) /\ edges \in Seq(EdgeSetType)
  BY DEF IInv, Types
<1>3. stack # <<>> /\ Len(stack) \in Nat
  BY <1>1, <1>2, LenProperties, EmptySeq
<1>4. Top.id \in Nat /\ base < Top.id /\ base <= Top.id /\ Top.id < next_id
  BY <1>1, <1>3, TopFacts
<1>5. FramesOk(stack', base, next_id) /\ stack' \in Seq(FrameSet)
  BY <1>1, <1>2, <1>3, StackShrinks DEF IInv
<1>6. EdgesOk(edges', base, next_id) /\ edges' \in Seq(EdgeSetType)
  <2>1. CASE link
    <3>1. stack[1].id = base /\ Top = stack[2]
      BY <2>1 DEF IInv, FramesOk, Frame, Top
    <3>2. e \in EdgeSetType /\ e.source = base /\ e.target = Top.id
      BY <1>2, <1>4, <3>1 DEF EdgeSetType, EdgeTypes, Contains, EdgeTo
    <3> HIDE DEF e
    <3>3. \A i \in 1 .. Len(edges) : edges[i].target = e.target => edges[i].source = e.source
      BY <2>1, <3>1, <3>2 DEF IInv, Reserved, SecondOk
    <3>4. EdgeOk(e, base, next_id) /\ EdgesOk(edges, base, next_id)
      BY <1>2, <1>4, <3>2 DEF EdgeOk, IInv
    <3>5. EdgesOk(Append(edges, e), base, next_id) /\ Append(edges, e) \in Seq(EdgeSetType)
      BY <1>2, <3>2, <3>3, <3>4, EdgesGrow
    <3> QED BY <1>1, <2>1, <3>5
  <2>2. CASE ~link
    BY <1>1, <1>2, <2>2 DEF IInv
  <2> QED BY <2>1, <2>2
<1>7. Reserved(stack', nodes', edges', base)
  <2>1. Len(stack') = Len(stack) - 1 /\ \A i \in 1 .. Len(stack) - 1 : stack'[i] = stack[i]
    BY <1>1, <1>2, <1>3, PopFacts
  <2> SUFFICES ASSUME Len(stack') > 1 PROVE SecondOk(stack'[2], nodes', edges', base)
    BY DEF Reserved
  <2>2. Len(stack) # 2 /\ 2 \in 1 .. Len(stack) - 1
    BY <1>3, <2>1
  <2>3. stack'[2] = stack[2] /\ edges' = edges
    BY <1>1, <2>1, <2>2
  <2> QED BY <1>1, <2>3 DEF IInv, Reserved
<1> QED BY <1>1, <1>5, <1>6, <1>7 DEF IInv, Types

(* extract returns.                                                        *)
LEMMA FinishFilePreserves == ASSUME IInv, FinishFile PROVE IInv'
  BY DEF FinishFile, IInv, Types, FramesOk, NodesOk, FirstOk, EdgesOk, Reserved

(* The other state of the walk does not matter to the invariant.           *)
LEMMA UnchangedPreserves ==
  ASSUME IInv, UNCHANGED <<stack, next_id, nodes, edges, base, lost>> PROVE IInv'
  BY DEF IInv, Types

(* Every step of the walk keeps the invariant.                             *)
LEMMA InvPreserved == IInv /\ [Next]_vars => IInv'
<1> SUFFICES ASSUME IInv, [Next]_vars PROVE IInv'
  OBVIOUS
<1>1. CASE StartFile
  BY <1>1, StartFilePreserves
<1>2. CASE \E row \in Rows : ExtractConstruct(row)
  BY <1>2, ExtractConstructPreserves
<1>3. CASE EnterModule
  BY <1>3, EnterModulePreserves
<1>4. CASE \E named \in BOOLEAN : LeaveModule(named)
  BY <1>4, LeaveModulePreserves
<1>5. CASE EnterModuleItem
  <2>1. /\ stack # <<>> /\ Top.dispatch = "module"
        /\ stack' = Append(stack, Frame("module_item", Top.id))
        /\ UNCHANGED <<next_id, nodes, edges, base, lost>>
    BY <1>5 DEF EnterModuleItem
  <2>2. Len(stack) > 1 /\ "module_item" \in Dispatches \ {"file", "module"}
    BY <2>1, TopFacts DEF Dispatches
  <2> QED BY <2>1, <2>2, ContinuePreserves
<1>6. CASE ScanCalls
  <2>1. /\ stack # <<>> /\ Top.dispatch \in {"module", "module_item"}
        /\ stack' = Append(stack, Frame("calls", Top.id))
        /\ UNCHANGED <<next_id, nodes, edges, base, lost>>
    BY <1>6 DEF ScanCalls
  <2>2. Len(stack) > 1 /\ "calls" \in Dispatches \ {"file", "module"}
    BY <2>1, TopFacts, PositiveCases DEF Dispatches
  <2> QED BY <2>1, <2>2, ContinuePreserves
<1>7. CASE Leave
  BY <1>7, LeavePreserves
<1>8. CASE FinishFile
  BY <1>8, FinishFilePreserves
<1>9. CASE UNCHANGED vars
  BY <1>9, UnchangedPreserves DEF vars
<1> QED BY <1>1, <1>2, <1>3, <1>4, <1>5, <1>6, <1>7, <1>8, <1>9 DEF Next

(* The invariant holds throughout.                                         *)
LEMMA Invariance == Spec => []IInv
  BY InvInitially, InvPreserved, PTL DEF Spec

-----------------------------------------------------------------------------
(* What follows                                                            *)

(* The indices of the two output vectors.                                  *)
LEMMA Domains == IInv => DOMAIN nodes = 1 .. Len(nodes) /\ DOMAIN edges = 1 .. Len(edges)
  BY LenProperties DEF IInv, Types

(* The walk's state keeps its types whatever tree is walked.               *)
THEOREM TypeCorrect == Spec => []TypeOK
<1>1. IInv => TypeOK
  BY DispatchDomain DEF IInv, Types, FramesOk, TypeOK, FrameSet, NodeSet, EdgeSetType
<1> QED BY <1>1, Invariance, PTL

(* In every extracted graph edges go from a smaller to a larger id, so     *)
(* walking edges without a visited set terminates.                         *)
THEOREM EdgesGoUp == Spec => []ParentBeforeChild
<1>1. IInv => ParentBeforeChild
  BY Domains DEF IInv, EdgesOk, EdgeOk, ParentBeforeChild
<1> QED BY <1>1, Invariance, PTL

(* Every extracted graph is a forest: a node has one parent, though a      *)
(* class at the top of a file is linked to it twice.                       *)
THEOREM ParentsAreUnique == Spec => []OneParent
<1>1. IInv => OneParent
  BY Domains DEF IInv, EdgesOk, OneParent
<1> QED BY <1>1, Invariance, PTL

(* No id is given to two nodes of a file, although a module takes its id   *)
(* before its children and gets its node after them.                       *)
THEOREM NumberedOnce == Spec => []NodesNumberedOnce
<1>1. IInv => NodesNumberedOnce
  BY Domains DEF IInv, NodesOk, NodesNumberedOnce
<1> QED BY <1>1, Invariance, PTL

(* What the query tools rely on, of every extracted file.                  *)
THEOREM ForestCorrect == Spec => []GraphIsForest
  BY EdgesGoUp, ParentsAreUnique, NumberedOnce, PTL DEF GraphIsForest

(* The assumption of the indexer about what extract returns: the first     *)
(* node is the SourceFile with the first id taken, and all ids in nodes    *)
(* and edges were taken for this file.                                     *)
THEOREM OutlineCorrect == Spec => []OutlineIsSelfContained
<1>1. ASSUME IInv PROVE OutlineIsSelfContained
  <2>1. next_id \in Nat /\ base \in Nat
    BY <1>1 DEF IInv, Types
  <2>2. base # 0 => nodes[1] = Node(base, "SourceFile")
    BY <1>1 DEF IInv, FirstOk
  <2>3. \A i \in 1 .. Len(nodes) : nodes[i].id \in base .. next_id - 1
    BY <1>1, <2>1, Fields DEF IInv, Types, NodesOk
  <2>4. \A i \in 1 .. Len(edges) : /\ edges[i].source \in base .. next_id - 1
                                   /\ edges[i].target \in base .. next_id - 1
    BY <1>1, <2>1, Fields DEF IInv, Types, EdgesOk, EdgeOk
  <2> QED BY <1>1, <2>2, <2>3, <2>4, Domains DEF OutlineIsSelfContained, NodeIds, EdgeSet
<1> QED BY <1>1, Invariance, PTL

-----------------------------------------------------------------------------
(* What an extracted file looks like to the consistency check              *)

(* The id of the module that is being walked, which has no node yet.       *)
OpenModule == IF Len(stack) > 1 /\ stack[2].dispatch = "module" THEN {stack[2].id} ELSE {}

(* Every frame stands for a node or for the open module, every edge ends   *)
(* in a node and starts in one, in the open module or in one that got no   *)
(* node, and every node but the file's ends an edge.                       *)
Linked ==
  /\ \A i \in 1 .. Len(stack) : stack[i].id \in NodeIds \cup OpenModule
  /\ \A i \in 1 .. Len(edges) : /\ edges[i].target \in NodeIds
                                /\ edges[i].source \in NodeIds \cup lost \cup OpenModule
  /\ \A k \in 1 .. Len(nodes) : nodes[k].id = base \/ \E i \in 1 .. Len(edges) : edges[i].target = nodes[k].id

(* Depths of the stack.                                                    *)
LEMMA Depths ==
  ASSUME NEW n \in Nat
  PROVE  /\ n > 0 => n = 1 \/ n > 1
         /\ n > 0 /\ ~(n > 1) => n = 1
         /\ n > 1 /\ n # 2 => n > 2
OBVIOUS

(* The ids of the nodes when none or one is added.                         *)
LEMMA NodeIdsGrow ==
  ASSUME IInv
  PROVE  /\ nodes' = nodes => NodeIds' = NodeIds
         /\ \A node \in NodeSet : nodes' = Append(nodes, node) => NodeIds' = NodeIds \cup {node.id}
<1>1. nodes \in Seq(NodeSet) /\ DOMAIN nodes = 1 .. Len(nodes) /\ Len(nodes) \in Nat
  BY DEF IInv, Types
<1>2. ASSUME NEW node \in NodeSet, nodes' = Append(nodes, node) PROVE NodeIds' = NodeIds \cup {node.id}
  <2>1. nodes' \in Seq(NodeSet) /\ DOMAIN nodes' = 1 .. Len(nodes) + 1
    BY <1>1, <1>2
  <2>2. /\ \A i \in 1 .. Len(nodes) : nodes'[i] = nodes[i]
        /\ nodes'[Len(nodes) + 1] = node
    BY <1>1, <1>2
  <2>3. \A i \in 1 .. Len(nodes) + 1 : i \in 1 .. Len(nodes) \/ i = Len(nodes) + 1
    BY <1>1
  <2> QED BY <1>1, <2>1, <2>2, <2>3 DEF NodeIds
<1> QED BY <1>2 DEF NodeIds

(* A step that only moves the stack.                                       *)
LEMMA LinkedStackMoves ==
  ASSUME IInv, Linked, UNCHANGED <<nodes, edges, base, lost>>, OpenModule \subseteq OpenModule',
         \A i \in 1 .. Len(stack') : stack'[i].id \in NodeIds \cup OpenModule'
  PROVE  Linked'
BY NodeIdsGrow DEF Linked

(* A frame goes on the stack, or comes off above the second: the open      *)
(* module stays.                                                           *)
LEMMA OpenModuleStays ==
  ASSUME IInv
  PROVE  /\ \A f \in FrameSet : stack' = Append(stack, f) /\ stack # <<>> /\ f.dispatch # "module" => OpenModule' = OpenModule
         /\ stack' = Pop(stack) /\ Len(stack) > 2 => OpenModule' = OpenModule
         /\ stack' = stack => OpenModule' = OpenModule
<1>1. stack \in Seq(FrameSet) /\ Len(stack) \in Nat
  BY DEF IInv, Types
<1>2. ASSUME NEW f \in FrameSet, stack' = Append(stack, f), stack # <<>>, f.dispatch # "module"
      PROVE  OpenModule' = OpenModule
  <2>1. Len(stack') = Len(stack) + 1 /\ Len(stack) > 0 /\ \A i \in 1 .. Len(stack) : stack'[i] = stack[i]
    BY <1>1, <1>2, AppendFacts, EmptySeq
  <2>2. CASE Len(stack) = 1
    <3>1. stack'[2] = f /\ Len(stack') > 1
      BY <1>1, <1>2, <2>1, <2>2, AppendProperties
    <3> QED BY <1>2, <2>2, <3>1 DEF OpenModule
  <2>3. CASE Len(stack) > 1
    <3>1. stack'[2] = stack[2] /\ Len(stack') > 1
      BY <1>1, <2>1, <2>3
    <3> QED BY <2>3, <3>1 DEF OpenModule
  <2>4. Len(stack) = 1 \/ Len(stack) > 1
    <3>1. Len(stack) \in Nat /\ Len(stack) > 0
      BY <1>1, <2>1
    <3> QED BY <3>1, Depths
  <2> QED BY <2>2, <2>3, <2>4
<1>3. ASSUME stack' = Pop(stack), Len(stack) > 2 PROVE OpenModule' = OpenModule
  <2>1. stack # <<>>
    BY <1>3
  <2>2. Len(stack') = Len(stack) - 1 /\ \A i \in 1 .. Len(stack) - 1 : stack'[i] = stack[i]
    BY <1>1, <1>3, <2>1, PopFacts
  <2>3. stack'[2] = stack[2] /\ Len(stack') > 1
    BY <1>1, <1>3, <2>2
  <2> QED BY <1>3, <2>3 DEF OpenModule
<1>4. stack' = stack => OpenModule' = OpenModule
  BY DEF OpenModule
<1> QED BY <1>2, <1>3, <1>4

(* A frame comes off.                                                      *)
LEMMA FramesAfterPop ==
  ASSUME IInv, stack # <<>>, stack' = Pop(stack)
  PROVE  /\ \A i \in 1 .. Len(stack') : i \in 1 .. Len(stack) /\ stack'[i] = stack[i] /\ i < Len(stack)
         /\ Len(stack') = Len(stack) - 1
<1>1. stack \in Seq(FrameSet) /\ Len(stack) \in Nat
  BY DEF IInv, Types
<1>2. Len(stack') = Len(stack) - 1 /\ \A i \in 1 .. Len(stack) - 1 : stack'[i] = stack[i]
  BY <1>1, PopFacts
<1> QED BY <1>1, <1>2

(* An edge to a node there is, from where an edge may start.               *)
LEMMA LinkedEdges ==
  ASSUME IInv, Linked, NEW e \in EdgeSetType, edges' = Append(edges, e), base' = base,
         NodeIds \subseteq NodeIds', lost \subseteq lost',
         OpenModule \subseteq NodeIds' \cup OpenModule' \cup lost',
         e.target \in NodeIds', e.source \in NodeIds' \cup lost' \cup OpenModule',
         nodes' = nodes \/ \E node \in NodeSet : nodes' = Append(nodes, node) /\ node.id = e.target,
         \A i \in 1 .. Len(stack') : stack'[i].id \in NodeIds' \cup OpenModule'
  PROVE  Linked'
<1>1. edges \in Seq(EdgeSetType) /\ Len(edges) \in Nat /\ nodes \in Seq(NodeSet) /\ Len(nodes) \in Nat
  BY DEF IInv, Types
<1>2. /\ Len(edges') = Len(edges) + 1 /\ \A i \in 1 .. Len(edges) : edges'[i] = edges[i] /\ i \in 1 .. Len(edges')
      /\ edges'[Len(edges) + 1] = e /\ Len(edges) + 1 \in 1 .. Len(edges')
      /\ \A i \in 1 .. Len(edges') : i \in 1 .. Len(edges) \/ i = Len(edges) + 1
  BY <1>1, AppendFacts, AppendProperties
<1>3. ASSUME NEW i \in 1 .. Len(edges')
      PROVE  edges'[i].target \in NodeIds' /\ edges'[i].source \in NodeIds' \cup lost' \cup OpenModule'
  BY <1>2 DEF Linked
<1>4. ASSUME NEW k \in 1 .. Len(nodes')
      PROVE  nodes'[k].id = base' \/ \E i \in 1 .. Len(edges') : edges'[i].target = nodes'[k].id
  <2>1. nodes'[k].id = e.target \/ (k \in 1 .. Len(nodes) /\ nodes'[k] = nodes[k])
    BY <1>1, AppendFacts
  <2>2. CASE nodes'[k].id = e.target
    BY <1>2, <2>2
  <2>3. CASE k \in 1 .. Len(nodes) /\ nodes'[k] = nodes[k]
    BY <1>2, <2>3 DEF Linked
  <2> QED BY <2>1, <2>2, <2>3
<1> QED BY <1>3, <1>4 DEF Linked

-----------------------------------------------------------------------------
(* One action at a time                                                    *)

(* extract begins with the file's node and its frame.                      *)
LEMMA LinkedStartFile == ASSUME IInv, StartFile PROVE Linked'
<1>1. nodes' = <<Node(next_id, "SourceFile")>> /\ edges' = <<>> /\ stack' = <<Frame("file", next_id)>> /\ base' = next_id
  BY DEF StartFile
<1>2. NodeIds' = {next_id} /\ Len(nodes') = 1 /\ nodes'[1].id = next_id
  BY <1>1 DEF NodeIds, Node
<1>3. Len(stack') = 1 /\ stack'[1].id = next_id /\ Len(edges') = 0
  BY <1>1 DEF Frame
<1> QED BY <1>1, <1>2, <1>3 DEF Linked

(* A construct gets its node, its edge and perhaps a frame.                *)
LEMMA LinkedExtract ==
  ASSUME IInv, Linked, NEW row \in Rows, ExtractConstruct(row)
  PROVE  Linked'
<1> DEFINE node == Node(next_id, row.kind)
           e == EdgeTo(Top.id, next_id, row.edge)
           f == Frame(row.opens, next_id)
<1>1. /\ stack # <<>> /\ nodes' = Append(nodes, node) /\ edges' = Append(edges, e)
      /\ base' = base /\ lost' = lost /\ next_id \in Nat
      /\ stack' = IF row.opens = "nothing" THEN stack ELSE Append(stack, f)
  BY DEF ExtractConstruct, IInv, Types
<1>2. WellFormed(row)
  BY RowsWellFormed
<1>3. Top \in FrameSet /\ Top.id \in Nat /\ Len(stack) > 0 /\ Len(stack) \in Nat
  BY <1>1, TopFacts
<1>4. node \in NodeSet /\ node.id = next_id
  BY <1>1 DEF NodeSet, Node, Kinds
<1>5. e \in EdgeSetType /\ e.source = Top.id /\ e.target = next_id
  BY <1>1, <1>2, <1>3 DEF EdgeSetType, EdgeTo, WellFormed
<1>6. row.opens # "nothing" => f \in FrameSet /\ f.dispatch # "module" /\ f.id = next_id
  BY <1>1, <1>2 DEF WellFormed, FrameSet, Frame
<1> HIDE DEF node, e, f
<1>7. NodeIds' = NodeIds \cup {next_id}
  BY <1>1, <1>4, NodeIdsGrow
<1>8. OpenModule' = OpenModule
  BY <1>1, <1>6, OpenModuleStays
<1>9. Top.id \in NodeIds \cup OpenModule
  BY <1>3 DEF Linked, Top
<1>10. ASSUME NEW i \in 1 .. Len(stack') PROVE stack'[i].id \in NodeIds' \cup OpenModule'
  <2>1. CASE row.opens = "nothing"
    BY <1>1, <1>7, <1>8, <1>10, <2>1 DEF Linked
  <2>2. CASE row.opens # "nothing"
    <3>1. stack \in Seq(FrameSet) /\ stack' = Append(stack, f)
      BY <1>1, <2>2 DEF IInv, Types
    <3>2. stack'[i] = f \/ (i \in 1 .. Len(stack) /\ stack'[i] = stack[i])
      BY <1>3, <1>6, <1>10, <2>2, <3>1, AppendFacts
    <3> QED BY <1>6, <1>7, <1>8, <2>2, <3>2 DEF Linked
  <2> QED BY <2>1, <2>2
<1> QED BY <1>1, <1>4, <1>5, <1>7, <1>8, <1>9, <1>10, LinkedEdges

(* The walk enters a module, a wrapper or a block: a frame on top.         *)
LEMMA LinkedEnter ==
  ASSUME IInv, Linked, EnterModule \/ EnterModuleItem \/ ScanCalls
  PROVE  Linked'
<1>1. stack # <<>> /\ UNCHANGED <<nodes, edges, base, lost>> /\ next_id \in Nat
  BY DEF EnterModule, EnterModuleItem, ScanCalls, IInv, Types
<1>2. /\ Top \in FrameSet /\ Top.id \in Nat /\ Len(stack) > 0 /\ Len(stack) \in Nat
      /\ Len(stack) > 1 => Top.dispatch # "file"
      /\ stack \in Seq(FrameSet) /\ Top.id \in NodeIds \cup OpenModule
  BY <1>1, TopFacts DEF IInv, Types, Linked, Top
<1>3. ASSUME NEW f \in FrameSet, stack' = Append(stack, f)
      PROVE  \A i \in 1 .. Len(stack') : stack'[i] = f \/ (i \in 1 .. Len(stack) /\ stack'[i] = stack[i])
  BY <1>2, <1>3, AppendFacts
<1>4. CASE EnterModule
  <2> DEFINE f == Frame("module", next_id)
  <2>1. f \in FrameSet /\ stack' = Append(stack, f) /\ f.id = next_id /\ f.dispatch = "module" /\ Top.dispatch = "file"
    BY <1>1, <1>4 DEF EnterModule, Frame, FrameSet, Dispatches
  <2> HIDE DEF f
  <2>0. Len(stack) = 1
    <3>1. Len(stack) \in Nat /\ Len(stack) > 0 /\ ~(Len(stack) > 1)
      BY <1>2, <2>1
    <3> QED BY <3>1, Depths
  <2>2. Len(stack') = 2 /\ stack'[2] = f
    <3>1. Len(stack') = Len(stack) + 1 /\ stack'[Len(stack) + 1] = f
      BY <1>2, <2>1, AppendProperties
    <3> QED BY <2>0, <3>1
  <2>3. OpenModule' = {next_id} /\ OpenModule = {}
    BY <2>0, <2>1, <2>2 DEF OpenModule
  <2>4. \A i \in 1 .. Len(stack') : stack'[i].id \in NodeIds \cup OpenModule'
    BY <1>3, <2>1, <2>3 DEF Linked
  <2> QED BY <1>1, <2>3, <2>4, LinkedStackMoves
<1>5. ASSUME NEW d \in {"module_item", "calls"}, stack' = Append(stack, Frame(d, Top.id)) PROVE Linked'
  <2> DEFINE f == Frame(d, Top.id)
  <2>1. f \in FrameSet /\ stack' = Append(stack, f) /\ f.id = Top.id /\ f.dispatch # "module"
    BY <1>2, <1>5 DEF Frame, FrameSet, Dispatches
  <2> HIDE DEF f
  <2>2. OpenModule' = OpenModule
    BY <1>1, <2>1, OpenModuleStays
  <2>3. \A i \in 1 .. Len(stack') : stack'[i].id \in NodeIds \cup OpenModule'
    BY <1>2, <1>3, <2>1, <2>2 DEF Linked
  <2> QED BY <1>1, <2>2, <2>3, LinkedStackMoves
<1> QED BY <1>4, <1>5 DEF EnterModuleItem, ScanCalls

(* The end of a module: its node and its edge, or its id among the lost.   *)
LEMMA LinkedLeaveModule ==
  ASSUME IInv, Linked, NEW named \in BOOLEAN, LeaveModule(named)
  PROVE  Linked'
<1>1. stack # <<>> /\ Top.dispatch = "module" /\ stack' = Pop(stack) /\ base' = base
  BY DEF LeaveModule
<1>2. Len(stack) = 2 /\ Top.id \in Nat /\ base \in Nat /\ base # 0 /\ Top = stack[2]
  BY <1>1, TopFacts DEF IInv, Types, Top
<1>3. stack[1] = Frame("file", base) /\ stack[1].id = base
  BY <1>2 DEF IInv, FramesOk, Frame
<1>4. OpenModule = {Top.id}
  BY <1>1, <1>2 DEF OpenModule
<1>5. Len(stack') = 1 /\ stack'[1].id = base /\ OpenModule' = {}
  <2>1. Len(stack') = 1
    BY <1>1, <1>2, FramesAfterPop
  <2>2. stack'[1] = stack[1]
    BY <1>1, <2>1, FramesAfterPop
  <2> QED BY <1>3, <2>1, <2>2 DEF OpenModule
<1>6. base \in NodeIds
  BY <1>2 DEF IInv, FirstOk, NodeIds, Node, Types
<1>7. CASE named = TRUE
  <2> DEFINE node == Node(Top.id, "Module")
             e == Contains(stack[1].id, Top.id)
  <2>1. nodes' = Append(nodes, node) /\ edges' = Append(edges, e) /\ lost' = lost
    BY <1>7 DEF LeaveModule
  <2>2. node \in NodeSet /\ node.id = Top.id
    BY <1>2 DEF NodeSet, Node, Kinds
  <2>3. e \in EdgeSetType /\ e.source = base /\ e.target = Top.id
    BY <1>2, <1>3 DEF EdgeSetType, Contains, EdgeTo, EdgeTypes
  <2> HIDE DEF node, e
  <2>4. NodeIds' = NodeIds \cup {Top.id}
    BY <2>1, <2>2, NodeIdsGrow
  <2>5. \A i \in 1 .. Len(stack') : stack'[i].id \in NodeIds' \cup OpenModule'
    BY <1>5, <1>6, <2>4
  <2> QED BY <1>1, <1>4, <1>6, <2>1, <2>2, <2>3, <2>4, <2>5, LinkedEdges
<1>8. CASE named = FALSE
  <2>1. nodes' = nodes /\ edges' = edges /\ lost' = lost \cup {Top.id}
    BY <1>8 DEF LeaveModule
  <2>2. NodeIds' = NodeIds
    BY <2>1, NodeIdsGrow
  <2> QED BY <1>1, <1>4, <1>5, <1>6, <2>1, <2>2 DEF Linked
<1> QED BY <1>7, <1>8

(* The children are exhausted; a class of the file is linked again.        *)
LEMMA LinkedLeave == ASSUME IInv, Linked, Leave PROVE Linked'
<1>1. /\ stack # <<>> /\ Len(stack) > 1 /\ Top.dispatch # "module" /\ stack' = Pop(stack)
      /\ nodes' = nodes /\ base' = base /\ lost' = lost
  BY DEF Leave
<1>2. Len(stack) \in Nat /\ Top.id \in Nat /\ base \in Nat /\ base # 0 /\ Top.id \in NodeIds \cup OpenModule
  BY <1>1, TopFacts DEF IInv, Types, Top, Linked
<1>3. OpenModule' = OpenModule /\ (Len(stack) = 2 => OpenModule = {})
  <2>1. CASE Len(stack) = 2
    <3>1. Len(stack') = 1
      BY <1>1, <2>1, FramesAfterPop
    <3> QED BY <1>1, <2>1, <3>1 DEF OpenModule, Top
  <2>2. CASE Len(stack) # 2
    <3>1. Len(stack) > 2
      <4>1. Len(stack) \in Nat /\ Len(stack) > 1
        BY <1>1, <1>2
      <4> QED BY <2>2, <4>1, Depths
    <3> QED BY <1>1, <2>2, <3>1, OpenModuleStays
  <2> QED BY <2>1, <2>2
<1>4. NodeIds' = NodeIds
  BY <1>1, NodeIdsGrow
<1>5. \A i \in 1 .. Len(stack') : stack'[i].id \in NodeIds \cup OpenModule'
  BY <1>1, <1>3, FramesAfterPop DEF Linked
<1>6. CASE Top.dispatch = "class" /\ Len(stack) = 2
  <2> DEFINE e == Contains(stack[1].id, Top.id)
  <2>1. edges' = Append(edges, e)
    BY <1>6 DEF Leave
  <2>2. stack[1].id = base
    BY <1>1 DEF IInv, FramesOk, Frame
  <2>3. e \in EdgeSetType /\ e.source = base /\ e.target = Top.id
    BY <1>2, <2>2 DEF EdgeSetType, Contains, EdgeTo, EdgeTypes
  <2>4. base \in NodeIds
    BY <1>2 DEF IInv, FirstOk, NodeIds, Node, Types
  <2> HIDE DEF e
  <2> QED BY <1>1, <1>2, <1>3, <1>4, <1>5, <1>6, <2>1, <2>3, <2>4, LinkedEdges
<1>7. CASE ~(Top.dispatch = "class" /\ Len(stack) = 2)
  <2>1. edges' = edges
    BY <1>7 DEF Leave
  <2> QED BY <1>1, <1>3, <1>5, <2>1, LinkedStackMoves
<1> QED BY <1>6, <1>7

(* The file's frame comes off.                                             *)
LEMMA LinkedFinish == ASSUME IInv, Linked, FinishFile PROVE Linked'
<1>1. stack' = <<>> /\ Len(stack) = 1 /\ UNCHANGED <<nodes, edges, base, lost>>
  BY DEF FinishFile
<1>2. OpenModule = {} /\ Len(stack') = 0
  BY <1>1 DEF OpenModule
<1> QED BY <1>1, <1>2, LinkedStackMoves

(* Both invariants together.                                               *)
LEMMA LinkedAlways == Spec => [](IInv /\ Linked)
<1>1. Init => IInv /\ Linked
  <2>1. Init => Linked
    BY DEF Init, InitAt, Linked
  <2> QED BY <2>1, InvInitially
<1>2. IInv /\ Linked /\ [Next]_vars => (IInv /\ Linked)'
  <2> SUFFICES ASSUME IInv, Linked, [Next]_vars PROVE Linked'
    BY InvPreserved
  <2>1. CASE UNCHANGED vars
    BY <2>1 DEF vars, Linked, NodeIds, OpenModule
  <2> QED BY <2>1, LinkedStartFile, LinkedExtract, LinkedEnter, LinkedLeaveModule, LinkedLeave, LinkedFinish DEF Next
<1> QED BY <1>1, <1>2, PTL DEF Spec

(* A node that ends an edge is linked to something.                        *)
LEMMA LinkCounts ==
  ASSUME IInv, NEW i \in 1 .. Len(edges)
  PROVE  Links(edges[i].source, edges[i].target) # 0
<1> DEFINE E == {j \in DOMAIN edges : /\ edges[j].source = edges[i].source /\ edges[j].target = edges[i].target
                                      /\ edges[j].edge_type \in EdgeTypes}
<1>1. edges \in Seq(EdgeSetType) /\ DOMAIN edges = 1 .. Len(edges) /\ Len(edges) \in Nat
  BY DEF IInv, Types
<1>2. edges[i] \in EdgeSetType
  BY <1>1
<1>3. i \in E
  BY <1>1, <1>2 DEF EdgeSetType
<1>4. IsFiniteSet(1 .. Len(edges))
  BY <1>1, FS_Interval
<1>5. IsFiniteSet(E)
  BY <1>1, <1>4, FS_Subset
<1>6. Cardinality(E) # 0
  BY <1>3, <1>5, FS_EmptySet
<1> QED BY <1>6 DEF Links, Copies

(* What the check looks for is nowhere in an extracted file.               *)
LEMMA ExtractedPasses ==
  ASSUME IInv, Linked, Extracted
  PROVE  /\ dangling_edges = {} /\ orphan_nodes = {}
         /\ \A e \in EdgeSet : e.target \in NodeIds /\ e.source \in NodeIds \cup lost
<1>1. stack = <<>> /\ base # 0 /\ base \in Nat /\ next_id \in Nat /\ Len(stack) = 0
  BY DEF Extracted, IInv, Types
<1>2. OpenModule = {}
  BY <1>1 DEF OpenModule
<1>3. DOMAIN edges = 1 .. Len(edges) /\ DOMAIN nodes = 1 .. Len(nodes)
  BY DEF IInv, Types
<1>4. \A i \in DOMAIN edges : edges[i].target \in NodeIds /\ edges[i].source \in NodeIds \cup lost
  BY <1>2, <1>3 DEF Linked
<1>5. dangling_edges = {}
  BY <1>4 DEF dangling_edges, Stored
<1>6. \A e \in EdgeSet : e.target \in NodeIds /\ e.source \in NodeIds \cup lost
  BY <1>4 DEF EdgeSet
<1>7. ASSUME NEW n \in orphan_nodes PROVE FALSE
  <2>1. n \in NodeIds /\ ~Is(n, {"SourceFile"}) /\ \A s \in Ids : Links(s, n) = 0
    BY <1>7 DEF orphan_nodes, Stored
  <2>2. PICK k \in 1 .. Len(nodes) : nodes[k].id = n
    BY <1>3, <2>1 DEF NodeIds
  <2>3. CASE n = base
    <3>1. nodes[1] = Node(base, "SourceFile") /\ 1 \in 1 .. Len(nodes)
      BY <1>1 DEF IInv, FirstOk
    <3>2. nodes[1].id = n /\ nodes[1].kind = "SourceFile"
      BY <2>3, <3>1 DEF Node
    <3>3. \A j \in DOMAIN nodes : nodes[j].id = n => j = 1
      BY <1>3, <3>1, <3>2 DEF IInv, NodesOk
    <3>4. KindOf(n) = "SourceFile"
      <4> DEFINE j == CHOOSE j \in DOMAIN nodes : nodes[j].id = n
      <4>1. j \in DOMAIN nodes /\ nodes[j].id = n
        BY <1>3, <3>1, <3>2
      <4>2. j = 1
        BY <3>3, <4>1
      <4> QED BY <3>2, <4>2 DEF KindOf
    <3> QED BY <2>1, <3>4 DEF Is, Stored
  <2>4. CASE n # base
    <3>1. PICK i \in 1 .. Len(edges) : edges[i].target = n
      BY <2>2, <2>4 DEF Linked
    <3>2. edges[i].source \in Ids
      BY <1>1, <3>1, Fields DEF IInv, Types, EdgesOk, EdgeOk, Ids
    <3>3. Links(edges[i].source, n) # 0
      BY <3>1, LinkCounts
    <3> QED BY <2>1, <3>2, <3>3
  <2> QED BY <2>3, <2>4
<1> QED BY <1>5, <1>6, <1>7

(* Whatever the tree, every link that the extractor makes ends in a node   *)
(* and starts in one or in a nameless module, and no node but the file's   *)
(* is without links: checks (a) and (c) of `check` report nothing of it.   *)
THEOREM LinksCorrect == Spec => []LinksLeadToNodes
<1>1. IInv /\ Linked => LinksLeadToNodes
  BY ExtractedPasses DEF LinksLeadToNodes
<1> QED BY <1>1, LinkedAlways, PTL
=============================================================================
