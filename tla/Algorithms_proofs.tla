-------------------------- MODULE Algorithms_proofs --------------------------
(***************************************************************************)
(* The parts that stand alone, for every value of their constants: the     *)
(* tool router, the impact search, the set-up of an authorized client, the *)
(* discovery of its server, the scanner of the language server and the     *)
(* glob matcher.                                                           *)
(*                                                                         *)
(* A reference that is defined by recursion is unfolded by the equation    *)
(* its CHOOSE satisfies; what holds of every position is shown by the      *)
(* least position at which it would not (LeastElement).                    *)
(***************************************************************************)
EXTENDS ToolRouter, Impact, ClientSetup, Discovery, LspTokens, GlobMatch,
        FiniteSetTheorems, SequenceTheorems, WellFoundedInduction, TLAPS

(* A set of numbers that is not empty has a least one.                     *)
LEMMA LeastElement ==
  ASSUME NEW S, S \subseteq Nat, S # {}
  PROVE  \E n \in S : \A m \in S : n =< m
<1>1. PICK x \in S : \A y \in S : ~(<<y, x>> \in OpToRel(<, Nat))
  BY NatLessThanWellFounded, WFMin
<1>2. ASSUME NEW y \in S PROVE x =< y
  <2>1. x \in Nat /\ y \in Nat /\ <<y, x>> \in Nat \X Nat
    OBVIOUS
  <2>2. ~(y < x)
    BY <1>1, <2>1 DEF OpToRel
  <2> QED BY <2>1, <2>2
<1> QED BY <1>2

-----------------------------------------------------------------------------
(***************************************************************************)
(* ToolRouter: ListIsCurrent for every set of names and of versions. Of    *)
(* the variables only the number of notices and the flag need a type. That *)
(* the list is the router's is inductive with it: a method either leaves   *)
(* the visible list alone, or raises the number of notices, or sets the    *)
(* flag.                                                                   *)
(***************************************************************************)

(* The number of notices and the flag are what they are.                   *)
Counted == notices \in Nat /\ silent \in BOOLEAN

(* A list without a later notice is the list of the router.                *)
Current == \A list \in listed : notices = 0 /\ ~silent => list = list_all

(* The invariant of the router                                             *)
RInv == Counted /\ Current

-----------------------------------------------------------------------------
(* What every method of the router does to the invariant: the list stays,  *)
(* a notice goes out, or the flag is set.                                  *)
LEMMA Announced ==
  ASSUME RInv, listed' = listed, notices' \in Nat, silent' \in BOOLEAN,
         \/ list_all' = list_all /\ notices' = notices /\ silent' = silent
         \/ notices' > 0
         \/ silent' = TRUE
  PROVE  RInv'
BY DEF RInv, Counted, Current

(* A method that does not notify: the flag is set if the list changes.     *)
LEMMA QuietSteps ==
  ASSUME RInv, Quietly, listed' = listed
  PROVE  RInv'
<1>1. notices' = notices
  BY DEF Quietly, Notify
<1>2. silent' = (silent \/ list_all' # list_all)
  BY DEF Quietly, Unannounced
<1>3. notices' \in Nat /\ silent' \in BOOLEAN
  BY <1>1, <1>2 DEF RInv, Counted
<1>4. CASE list_all' = list_all
  <2>1. silent' = silent
    BY <1>2, <1>4 DEF RInv, Counted
  <2> QED BY <1>1, <1>3, <1>4, <2>1, Announced
<1>5. CASE list_all' # list_all
  <2>1. silent' = TRUE
    BY <1>2, <1>5
  <2> QED BY <1>3, <2>1, Announced
<1> QED BY <1>4, <1>5

(* A method that notifies when the visible list changes                    *)
LEMMA NotifyingSteps ==
  ASSUME NEW due \in BOOLEAN, RInv, Notify(due), Unannounced(TRUE), listed' = listed,
         ~due => list_all' = list_all
  PROVE  RInv'
<1>1. notices' \in Nat
  BY DEF Notify, RInv, Counted
<1>2. silent' \in BOOLEAN
  BY DEF Unannounced, RInv, Counted
<1>3. CASE due /\ Reaches
  <2>1. notices' > 0
    BY <1>3 DEF Notify, RInv, Counted
  <2> QED BY <1>1, <1>2, <2>1, Announced
<1>4. CASE ~Reaches
  <2>1. notices' = notices
    BY <1>4 DEF Notify
  <2>2. silent' = (silent \/ list_all' # list_all)
    BY <1>4 DEF Unannounced
  <2>3. CASE list_all' = list_all
    <3>1. silent' = silent
      BY <2>2, <2>3 DEF RInv, Counted
    <3> QED BY <1>1, <1>2, <2>1, <2>3, <3>1, Announced
  <2>4. CASE list_all' # list_all
    <3>1. silent' = TRUE
      BY <2>2, <2>4
    <3> QED BY <1>1, <1>2, <3>1, Announced
  <2> QED BY <2>3, <2>4
<1>5. CASE ~due
  <2>1. notices' = notices
    BY <1>5 DEF Notify
  <2>2. list_all' = list_all
    BY <1>5
  <2>3. silent' = silent
    BY <2>2 DEF Unannounced, RInv, Counted
  <2> QED BY <1>1, <1>2, <2>1, <2>2, <2>3, Announced
<1> QED BY <1>3, <1>4, <1>5

(* Disabling a name changes the list only if the name was on it.           *)
LEMMA DisableInvisible ==
  ASSUME NEW n, off' = off \cup {n}, map' = map, ~has_route(n)
  PROVE  list_all' = list_all
<1>1. DOMAIN map \ off' = DOMAIN map \ off
  BY DEF has_route
<1> QED BY <1>1 DEF list_all, Enabled

(* Enabling a name changes the list only if the name was disabled and is   *)
(* that of a route.                                                        *)
LEMMA EnableInvisible ==
  ASSUME NEW n, off' = off \ {n}, map' = map, ~(n \in off /\ n \in DOMAIN map)
  PROVE  list_all' = list_all
<1>1. DOMAIN map \ off' = DOMAIN map \ off
  OBVIOUS
<1> QED BY <1>1 DEF list_all, Enabled

-----------------------------------------------------------------------------
(* Every method of the router and every step of the client keeps the       *)
(* invariant.                                                              *)
LEMMA RouterStep ==
  ASSUME RInv, [RouterNext]_routerVars
  PROVE  RInv'
<1>1. CASE ChangeRoutes
  <2>1. listed' = listed
    BY <1>1 DEF ChangeRoutes
  <2>2. ASSUME NEW n \in ToolName, disable_route(n) PROVE RInv'
    <3>1. ~has_route(n) => list_all' = list_all
      BY <2>2, DisableInvisible DEF disable_route
    <3>2. has_route(n) \in BOOLEAN
      BY DEF has_route
    <3> QED BY <2>1, <2>2, <3>1, <3>2, NotifyingSteps DEF disable_route
  <2>3. ASSUME NEW n \in ToolName, enable_route(n) PROVE RInv'
    <3> DEFINE due == n \in off /\ n \in DOMAIN map
    <3>1. ~due => list_all' = list_all
      BY <2>3, EnableInvisible DEF enable_route
    <3>2. Notify(due) /\ Unannounced(TRUE) /\ due \in BOOLEAN
      BY <2>3 DEF enable_route
    <3> HIDE DEF due
    <3> QED BY <2>1, <3>1, <3>2, NotifyingSteps
  <2>4. ASSUME Quietly PROVE RInv'
    BY <2>1, <2>4, QuietSteps
  <2> QED BY <1>1, <2>2, <2>3, <2>4 DEF ChangeRoutes, add_route, remove_route, merge, AddAll
<1>2. ASSUME NEW to \in {"none", "bound"}, SetNotifier(to) PROVE RInv'
  BY <1>2 DEF SetNotifier, RInv, Counted, Current, list_all, Enabled
<1>3. CASE Initialized
  BY <1>3 DEF Initialized, RInv, Counted, Current, list_all, Enabled
<1>4. CASE ListTools
  BY <1>4 DEF ListTools, RInv, Counted, Current, list_all, Enabled
<1>5. CASE ToldOfChange
  BY <1>5 DEF ToldOfChange, RInv, Counted, Current
<1>6. CASE UNCHANGED routerVars
  BY <1>6 DEF routerVars, RInv, Counted, Current, list_all, Enabled
<1> QED BY <1>1, <1>2, <1>3, <1>4, <1>5, <1>6 DEF RouterNext

(* What a list that is the router's says of calls                          *)
LEMMA ListTellsCalls ==
  ASSUME RInv PROVE ListIsCurrent
<1> SUFFICES ASSUME NEW list \in listed, notices = 0, ~silent
             PROVE  /\ list = list_all
                    /\ \A n \in ToolName :
                         IF n \in DOMAIN list
                           THEN has_route(n) /\ get(n) = {list[n]} /\ CallTool(n) = list[n]
                           ELSE ~has_route(n) /\ get(n) = {} /\ CallTool(n) \notin Version
  BY DEF ListIsCurrent
<1>1. list = list_all
  BY DEF RInv, Current
<1>2. DOMAIN list = DOMAIN map \ off
  BY <1>1 DEF list_all, Enabled
<1>3. \A n \in DOMAIN list : list[n] = map[n]
  BY <1>1, <1>2 DEF list_all, Enabled
<1>4. ASSUME NEW n \in ToolName, n \in DOMAIN list
      PROVE  has_route(n) /\ get(n) = {list[n]} /\ CallTool(n) = list[n]
  BY <1>2, <1>3, <1>4 DEF has_route, get, CallTool, call
<1>5. ASSUME NEW n \in ToolName, n \notin DOMAIN list
      PROVE  ~has_route(n) /\ get(n) = {} /\ CallTool(n) \notin Version
  <2>1. n \in off \/ n \notin DOMAIN map
    BY <1>2, <1>5
  <2>2. CallTool(n) \in {"tool not found", "service"}
    BY <2>1 DEF CallTool, call
  <2> QED BY <2>1, <2>2, RouterAssumption DEF has_route, get
<1> QED BY <1>1, <1>4, <1>5

(* A client that lists the tools when it is told to knows the tools of the *)
(* router (ToolRouter of router/tool.rs) and what a call of each does, for *)
(* any names, any order of adding, removing, disabling and enabling, and   *)
(* any delay of the notices.                                               *)
THEOREM ListCorrect == RouterSpec => []ListIsCurrent
<1>1. RouterInit => RInv
  <2> SUFFICES ASSUME RouterInit PROVE RInv
    OBVIOUS
  <2>1. notices = 0 /\ listed = {} /\ silent = FALSE
    BY DEF RouterInit, RouterStarts
  <2>2. notices \in Nat
    BY <2>1
  <2>3. silent \in BOOLEAN
    BY <2>1
  <2>4. Current
    BY <2>1 DEF Current
  <2> QED BY <2>2, <2>3, <2>4 DEF RInv, Counted
<1>2. RInv /\ [RouterNext]_routerVars => RInv'
  BY RouterStep
<1>3. RInv => ListIsCurrent
  BY ListTellsCalls
<1> QED BY <1>1, <1>2, <1>3, PTL DEF RouterSpec

-----------------------------------------------------------------------------
(***************************************************************************)
(* Impact: ImpactIsExact for every number of nodes, kinds of edges and     *)
(* targets.                                                                *)
(***************************************************************************)

(* The reference unfolded: what is within four steps, level by level       *)
LEMMA BallUnfolds ==
  ASSUME NEW near
  PROVE  /\ Ball(near, 0) = targets
         /\ \A d \in 0 .. 3 : Ball(near, d + 1) = Ball(near, d) \cup Around(near, Ball(near, d))
<1> DEFINE b1 == targets \cup Around(near, targets)
           b2 == b1 \cup Around(near, b1)
           b3 == b2 \cup Around(near, b2)
           b4 == b3 \cup Around(near, b3)
           g(d) == [k \in 0 .. d |-> IF k = 0 THEN targets ELSE IF k = 1 THEN b1
                                     ELSE IF k = 2 THEN b2 ELSE IF k = 3 THEN b3 ELSE b4]
           Solves(b, d) == b = [k \in 0 .. d |-> IF k = 0 THEN targets ELSE b[k - 1] \cup Around(near, b[k - 1])]
<1>1. ASSUME NEW d \in 0 .. 4 PROVE Solves(g(d), d)
  <2> HIDE DEF b1, b2, b3, b4
  <2>1. ASSUME NEW k \in 0 .. d, k # 0 PROVE g(d)[k] = g(d)[k - 1] \cup Around(near, g(d)[k - 1])
    <3>1. k \in {1, 2, 3, 4} /\ k - 1 \in 0 .. d
      BY <2>1
    <3>2. CASE k = 1
      BY <3>1, <3>2 DEF b1
    <3>3. CASE k = 2
      BY <3>1, <3>3 DEF b2
    <3>4. CASE k = 3
      BY <3>1, <3>4 DEF b3
    <3>5. CASE k = 4
      BY <3>1, <3>5 DEF b4
    <3> QED BY <3>1, <3>2, <3>3, <3>4, <3>5
  <2>2. g(d)[0] = targets
    OBVIOUS
  <2>3. DOMAIN g(d) = 0 .. d
    OBVIOUS
  <2> HIDE DEF g
  <2>4. g(d) = [k \in 0 .. d |-> g(d)[k]]
    BY <2>3 DEF g
  <2> QED BY <2>1, <2>2, <2>4
<1>2. ASSUME NEW d \in 0 .. 4, NEW b, Solves(b, d) PROVE b[d] = g(d)[d]
  <2> HIDE DEF b1, b2, b3, b4
  <2>1. ASSUME NEW k \in 1 .. d, NEW j, j = k - 1 PROVE b[k] = b[j] \cup Around(near, b[j])
    <3> DEFINE f == [i \in 0 .. d |-> IF i = 0 THEN targets ELSE b[i - 1] \cup Around(near, b[i - 1])]
    <3>1. f[k] = b[j] \cup Around(near, b[j])
      BY <2>1
    <3>2. b = f
      BY <1>2
    <3> QED BY <3>1, <3>2
  <2>2. b[0] = targets
    BY <1>2
  <2>3. d >= 1 => b[1] = b1
    BY <2>1, <2>2 DEF b1
  <2>4. d >= 2 => b[2] = b2
    BY <2>1, <2>3 DEF b2
  <2>5. d >= 3 => b[3] = b3
    BY <2>1, <2>4 DEF b3
  <2>6. d >= 4 => b[4] = b4
    BY <2>1, <2>5 DEF b4
  <2> QED BY <2>2, <2>3, <2>4, <2>5, <2>6
<1>3. ASSUME NEW d \in 0 .. 4 PROVE Ball(near, d) = g(d)[d]
  <2> DEFINE b == CHOOSE b : Solves(b, d)
  <2>1. Ball(near, d) = b[d]
    BY DEF Ball
  <2> HIDE DEF g
  <2>2. Solves(b, d)
    BY <1>1
  <2> HIDE DEF b
  <2> QED BY <1>2, <2>1, <2>2
<1>4. /\ Ball(near, 0) = targets /\ Ball(near, 1) = b1 /\ Ball(near, 2) = b2 /\ Ball(near, 3) = b3 /\ Ball(near, 4) = b4
  <2> HIDE DEF b1, b2, b3, b4
  <2> QED BY <1>3
<1>5. /\ Ball(near, 1) = Ball(near, 0) \cup Around(near, Ball(near, 0))
      /\ Ball(near, 2) = Ball(near, 1) \cup Around(near, Ball(near, 1))
  BY <1>4
<1>6. /\ Ball(near, 3) = Ball(near, 2) \cup Around(near, Ball(near, 2))
      /\ Ball(near, 4) = Ball(near, 3) \cup Around(near, Ball(near, 3))
  BY <1>4
<1> HIDE DEF b1, b2, b3, b4
<1> QED BY <1>4, <1>5, <1>6

(* The targets of a search are nodes of the graph.                         *)
ImpactStatic == exists \subseteq GraphNode /\ targets \subseteq exists
(* The neighbours `hdl impact` follows, in both directions.                *)
Near(n) == Sources(n) \cup Driven(n)

(* Neighbours are node numbers.                                            *)
LEMMA NearNodes == ASSUME NEW n PROVE Sources(n) \subseteq GraphNode /\ Near(n) \subseteq GraphNode
BY DEF Sources, Driven, Near

(* What Ball is in terms of the nodes                                      *)
LEMMA BallLevels ==
  ASSUME ImpactStatic, NEW near
  PROVE  /\ Ball(near, 0) = targets
         /\ \A d \in 0 .. 4 : Ball(near, d) \subseteq exists
         /\ \A d \in 0 .. 3 : \A n : n \in Ball(near, d + 1) <=>
              n \in Ball(near, d) \/ (n \in exists /\ \E m \in Ball(near, d) : n \in near[m])
         /\ \A d, e \in 0 .. 4 : d <= e => Ball(near, d) \subseteq Ball(near, e)
<1> DEFINE B(d) == Ball(near, d)
<1>1. B(0) = targets /\ \A d \in 0 .. 3 : B(d + 1) = B(d) \cup Around(near, B(d))
  BY BallUnfolds
<1> HIDE DEF B
<1>2. \A d \in 0 .. 3 : \A n : n \in B(d + 1) <=> n \in B(d) \/ (n \in exists /\ \E m \in B(d) : n \in near[m])
  BY <1>1 DEF Around
<1>3. \A d \in 0 .. 3 : B(d) \subseteq B(d + 1)
  BY <1>2
<1>4. B(0) \subseteq B(1) /\ B(1) \subseteq B(2) /\ B(2) \subseteq B(3) /\ B(3) \subseteq B(4)
  <2>1. B(0 + 1) = B(1) /\ B(1 + 1) = B(2) /\ B(2 + 1) = B(3) /\ B(3 + 1) = B(4)
    OBVIOUS
  <2> QED BY <1>3, <2>1
<1>5. B(0) \subseteq exists
  BY <1>1 DEF ImpactStatic
<1>6. \A d \in 0 .. 3 : B(d) \subseteq exists => B(d + 1) \subseteq exists
  BY <1>1 DEF Around
<1>7. B(1) \subseteq exists /\ B(2) \subseteq exists /\ B(3) \subseteq exists /\ B(4) \subseteq exists
  <2>1. B(0 + 1) = B(1) /\ B(1 + 1) = B(2) /\ B(2 + 1) = B(3) /\ B(3 + 1) = B(4)
    OBVIOUS
  <2> QED BY <1>5, <1>6, <2>1
<1>8. \A d \in 0 .. 4 : B(d) \subseteq exists
  BY <1>5, <1>7
<1>9. \A d, e \in 0 .. 4 : d <= e => B(d) \subseteq B(e)
  <2> TAKE d, e \in 0 .. 4
  <2>1. d \in {0, 1, 2, 3, 4} /\ e \in {0, 1, 2, 3, 4}
    OBVIOUS
  <2> QED BY <1>4, <2>1
<1> QED BY <1>1, <1>2, <1>8, <1>9 DEF B

(* The nodes within d steps, level by level.                               *)
LEMMA WithinLevels ==
  ASSUME ImpactStatic
  PROVE  /\ Within(0) = targets
         /\ \A d \in 0 .. 4 : Within(d) \subseteq exists
         /\ \A d \in 0 .. 3 : \A n : n \in Within(d + 1) <=>
              n \in Within(d) \/ (n \in exists /\ \E m \in Within(d) : n \in Near(m))
         /\ \A d, e \in 0 .. 4 : d <= e => Within(d) \subseteq Within(e)
<1> DEFINE near == [n \in GraphNode |-> Sources(n) \cup Driven(n)]
<1>1. \A m \in exists : near[m] = Near(m)
  BY DEF ImpactStatic, Near
<1>2. \A d : Within(d) = Ball(near, d)
  BY DEF Within
<1> HIDE DEF near
<1> QED BY <1>1, <1>2, BallLevels

(* The same upwards, which is how the MCP tool is promised to search.      *)
LEMMA AboveLevels ==
  ASSUME ImpactStatic
  PROVE  /\ Above(0) = targets
         /\ \A d \in 0 .. 4 : Above(d) \subseteq exists
         /\ \A d \in 0 .. 3 : \A n : n \in Above(d + 1) <=>
              n \in Above(d) \/ (n \in exists /\ \E m \in Above(d) : n \in Sources(m))
         /\ \A d, e \in 0 .. 4 : d <= e => Above(d) \subseteq Above(e)
<1> DEFINE near == [n \in GraphNode |-> Sources(n)]
<1>1. \A m \in exists : near[m] = Sources(m)
  BY DEF ImpactStatic
<1>2. \A d : Above(d) = Ball(near, d)
  BY DEF Above
<1> HIDE DEF near
<1> QED BY <1>1, <1>2, BallLevels

-----------------------------------------------------------------------------
(* The queue                                                               *)

(* A node and its depth wait in the queue.                                 *)
Queued(e, q) == \E i \in 1 .. Len(q) : q[i] = e

(* Nearer nodes come first, and the queue holds two depths at most         *)
QueueOk(q, max) ==
  /\ q \in Seq(GraphNode \X (0 .. max))
  /\ \A i, j \in 1 .. Len(q) : i < j => q[i][2] <= q[j][2]
  /\ \A i \in 1 .. Len(q) : q[i][2] <= q[1][2] + 1

(* The head is taken and what was found goes to the end                    *)
Moves(q, s, r, max) ==
  /\ QueueOk(q, max) /\ q # <<>>
  /\ s \in Seq(GraphNode \X (0 .. max)) /\ \A i \in 1 .. Len(s) : s[i][2] = q[1][2] + 1
  /\ r = Tail(q) \o s

(* A turn of the loop keeps the queue in order, loses only its head and    *)
(* gains only what was found; the head may go one level further only when  *)
(* no node of its level is left.                                           *)
LEMMA QueueMoves ==
  ASSUME NEW max \in Nat, NEW q, NEW s, NEW r, Moves(q, s, r, max)
  PROVE  /\ QueueOk(r, max)
         /\ \A e : Queued(e, s) => Queued(e, r)
         /\ \A e : Queued(e, q) => e = q[1] \/ Queued(e, r)
         /\ \A e : Queued(e, r) => Queued(e, q) \/ Queued(e, s)
         /\ r # <<>> =>
              \/ r[1][2] = q[1][2]
              \/ r[1][2] = q[1][2] + 1 /\ \A e : Queued(e, r) => e[2] = q[1][2] + 1
<1>0. /\ QueueOk(q, max) /\ q # <<>> /\ s \in Seq(GraphNode \X (0 .. max))
      /\ \A i \in 1 .. Len(s) : s[i][2] = q[1][2] + 1
      /\ r = Tail(q) \o s
  BY DEF Moves
<1> DEFINE E == GraphNode \X (0 .. max)
<1>1. q \in Seq(E) /\ Len(q) \in Nat /\ Len(q) >= 1 /\ Len(s) \in Nat
  BY <1>0 DEF QueueOk
<1>2. /\ Tail(q) \in Seq(E) /\ Len(Tail(q)) = Len(q) - 1
      /\ \A i \in 1 .. Len(q) - 1 : Tail(q)[i] = q[i + 1]
  BY <1>1
<1>3. /\ r \in Seq(E) /\ Len(r) = Len(q) - 1 + Len(s)
      /\ \A i \in 1 .. Len(q) - 1 : r[i] = q[i + 1]
      /\ \A i \in 1 .. Len(s) : r[Len(q) - 1 + i] = s[i]
  <2>1. \A i \in 1 .. Len(Tail(q)) + Len(s) :
          r[i] = IF i <= Len(Tail(q)) THEN Tail(q)[i] ELSE s[i - Len(Tail(q))]
    BY <1>0, <1>1, <1>2
  <2>2. r \in Seq(E) /\ Len(r) = Len(Tail(q)) + Len(s)
    BY <1>0, <1>1, <1>2
  <2> DEFINE n == Len(q) - 1
  <2>3. n \in Nat /\ n = Len(Tail(q))
    BY <1>1, <1>2
  <2> HIDE DEF n
  <2>4. ASSUME NEW i \in 1 .. n PROVE r[i] = Tail(q)[i]
    <3>1. i \in 1 .. n + Len(s) /\ i <= n
      BY <1>1, <2>3
    <3> QED BY <2>1, <2>3, <3>1
  <2>5. ASSUME NEW i \in 1 .. Len(s) PROVE r[n + i] = s[i]
    <3>1. n + i \in 1 .. n + Len(s) /\ ~(n + i <= n) /\ n + i - n = i
      BY <1>1, <2>3
    <3> QED BY <2>1, <2>3, <3>1
  <2> QED BY <1>2, <2>2, <2>3, <2>4, <2>5 DEF n
<1>4. q[1][2] \in Nat /\ \A i \in 1 .. Len(q) : q[i] \in E /\ q[i][2] \in Nat
  BY <1>1
<1> HIDE DEF E
<1>5. \A i \in 1 .. Len(r) : \/ /\ i \in 1 .. Len(q) - 1 /\ r[i] = q[i + 1] /\ i + 1 \in 1 .. Len(q)
                            \/ /\ i > Len(q) - 1 /\ i - (Len(q) - 1) \in 1 .. Len(s)
                               /\ r[i] = s[i - (Len(q) - 1)] /\ r[i][2] = q[1][2] + 1
  <2> TAKE i \in 1 .. Len(r)
  <2>1. CASE i <= Len(q) - 1
    BY <1>1, <1>3, <2>1
  <2>2. CASE i > Len(q) - 1
    <3>1. i - (Len(q) - 1) \in 1 .. Len(s) /\ Len(q) - 1 + (i - (Len(q) - 1)) = i
      BY <1>1, <1>3, <2>2
    <3> QED BY <1>0, <1>3, <2>2, <3>1
  <2> QED BY <1>1, <1>3, <2>1, <2>2
<1> DEFINE D == q[1][2]
           dq(i) == q[i][2]
           dr(i) == r[i][2]
<1>6. \A i, j \in 1 .. Len(q) : i < j => dq(i) <= dq(j)
  BY <1>0 DEF QueueOk
<1>7. \A i \in 1 .. Len(q) : D <= dq(i) /\ dq(i) <= D + 1
  BY <1>0, <1>1, <1>4, <1>6 DEF QueueOk
<1>15. D \in Nat
  BY <1>4
<1>8. \A i \in 1 .. Len(r) : D <= dr(i) /\ dr(i) <= D + 1 /\ dr(i) \in Nat
  <2> TAKE i \in 1 .. Len(r)
  <2>1. CASE r[i] = q[i + 1] /\ i + 1 \in 1 .. Len(q)
    BY <1>4, <1>7, <2>1
  <2>2. CASE r[i][2] = q[1][2] + 1
    BY <1>4, <2>2
  <2> QED BY <1>5, <2>1, <2>2
<1>9. \A i, j \in 1 .. Len(r) : i < j => dr(i) <= dr(j)
  <2> TAKE i, j \in 1 .. Len(r)
  <2> HAVE i < j
  <2>1. CASE j \in 1 .. Len(q) - 1
    <3>1. dr(i) = dq(i + 1) /\ dr(j) = dq(j + 1) /\ i + 1 \in 1 .. Len(q) /\ j + 1 \in 1 .. Len(q)
      BY <1>1, <1>3, <2>1
    <3> QED BY <1>1, <1>6, <3>1
  <2>2. CASE j > Len(q) - 1
    <3>1. dr(j) = D + 1
      BY <1>1, <1>5, <2>2
    <3> QED BY <1>8, <1>15, <3>1
  <2> QED BY <1>1, <1>3, <2>1, <2>2
<1>14. QueueOk(r, max)
  <2>1. \A i \in 1 .. Len(r) : dr(i) <= dr(1) + 1
    <3> HIDE DEF D, dr
    <3> TAKE i \in 1 .. Len(r)
    <3>1. 1 \in 1 .. Len(r) /\ dr(i) <= D + 1 /\ D <= dr(1) /\ dr(1) \in Nat /\ dr(i) \in Nat
      BY <1>1, <1>3, <1>8
    <3> QED BY <1>8, <1>15, <3>1
  <2> QED BY <1>3, <1>9, <2>1 DEF QueueOk, E
<1>10. \A e : Queued(e, s) => Queued(e, r)
  <2> SUFFICES ASSUME NEW i \in 1 .. Len(s) PROVE \E j \in 1 .. Len(r) : r[j] = s[i]
    BY DEF Queued
  <2>1. Len(q) - 1 + i \in 1 .. Len(r)
    BY <1>1, <1>3
  <2> QED BY <1>3, <2>1
<1>11. \A e : Queued(e, q) => e = q[1] \/ Queued(e, r)
  <2> SUFFICES ASSUME NEW i \in 1 .. Len(q), i # 1 PROVE \E j \in 1 .. Len(r) : r[j] = q[i]
    BY DEF Queued
  <2>1. i - 1 \in 1 .. Len(r) /\ i - 1 \in 1 .. Len(q) - 1 /\ (i - 1) + 1 = i
    BY <1>1, <1>3
  <2> QED BY <1>3, <2>1
<1>12. \A e : Queued(e, r) => Queued(e, q) \/ Queued(e, s)
  BY <1>5 DEF Queued
<1>13. ASSUME r # <<>>
       PROVE  \/ D = dr(1)
              \/ dr(1) = D + 1 /\ \A e : Queued(e, r) => e[2] = D + 1
  <2>1. 1 \in 1 .. Len(r)
    BY <1>3, <1>13
  <2>2. ASSUME dr(1) # D, NEW i \in 1 .. Len(r) PROVE dr(i) = D + 1 /\ dr(1) = D + 1
    <3> HIDE DEF D, dr
    <3>1. i = 1 \/ dr(1) <= dr(i)
      BY <1>3, <1>9, <2>1
    <3> QED BY <1>8, <1>15, <2>1, <2>2, <3>1
  <2> QED BY <2>1, <2>2 DEF Queued
<1> QED BY <1>10, <1>11, <1>12, <1>13, <1>14

(* The nodes pushed, in whatever order, are those that were found          *)
LEMMA PushedNodes ==
  ASSUME NEW fresh, fresh \subseteq GraphNode, NEW depth, NEW s \in Pushed(fresh, depth)
  PROVE  /\ s \in Seq(fresh \X {depth})
         /\ \A n \in fresh : Queued(<<n, depth>>, s)
<1>1. IsFiniteSet(fresh)
  <2>1. MaxNode \in Int /\ 1 \in Int
    BY NodesAssumption
  <2>2. IsFiniteSet(GraphNode)
    BY <2>1, FS_Interval DEF GraphNode
  <2> QED BY <2>2, FS_Subset
<1> DEFINE D == 1 .. Cardinality(fresh)
<1>2. PICK f \in [D -> fresh] : /\ \A i, j \in D : i # j => f[i] # f[j]
                                /\ s = [i \in DOMAIN f |-> <<f[i], depth>>]
  BY DEF Pushed, SetToSeqs
<1>3. Cardinality(fresh) \in Nat
  BY <1>1, FS_CardinalityType
<1>4. s \in Seq(fresh \X {depth}) /\ Len(s) = Cardinality(fresh)
  <2>1. s = [i \in D |-> <<f[i], depth>>]
    BY <1>2
  <2>2. \A i \in D : s[i] \in fresh \X {depth}
    BY <1>2, <2>1
  <2> HIDE DEF D
  <2>3. s \in [D -> fresh \X {depth}]
    BY <2>1, <2>2
  <2> QED BY <1>3, <2>3, IsASeq DEF D
<1>5. ASSUME NEW n \in fresh, \A i \in D : f[i] # n PROVE FALSE
  <2> DEFINE rest == fresh \ {n}
  <2>1. IsFiniteSet(rest) /\ Cardinality(rest) = Cardinality(fresh) - 1
    BY <1>1, FS_RemoveElement
  <2>2. IsFiniteSet(D) /\ Cardinality(D) = Cardinality(fresh)
    BY <1>3, FS_Interval
  <2>3. f \in [D -> rest]
    BY <1>2, <1>5
  <2>4. \E i, j \in D : i # j /\ f[i] = f[j]
    BY <1>3, <2>1, <2>2, <2>3, FS_PigeonHole
  <2> QED BY <1>2, <2>4
<1> QED BY <1>2, <1>4, <1>5 DEF Queued

-----------------------------------------------------------------------------
(* cmd_impact                                                              *)

(* A node was found at a depth                                             *)
FoundAt(n, k) == (k = 0 /\ n \in targets) \/ <<k, n>> \in results

(* Its neighbours are all marked                                           *)
Searched(n) == Near(n) \cap exists \subseteq visited_nodes

(* What the search of `hdl impact` keeps: what is reported is reported at  *)
(* its distance, what is marked was found, what was found is in the queue  *)
(* or searched, and the levels before the head of the queue are complete.  *)
CliInv ==
  /\ ImpactStatic
  /\ QueueOk(queue, 3)
  /\ results \subseteq (1 .. 3) \X GraphNode
  /\ \A n \in exists : n \in visited_nodes <=> \E k \in 0 .. 3 : FoundAt(n, k)
  /\ \A k \in 1 .. 3, n \in GraphNode : <<k, n>> \in results => n \in Within(k) \ Within(k - 1)
  /\ \A e : Queued(e, queue) => FoundAt(e[1], e[2])
  /\ \A k \in 0 .. 2, n \in GraphNode : FoundAt(n, k) => Queued(<<n, k>>, queue) \/ Searched(n)
  /\ queue # <<>> => Within(queue[1][2]) \subseteq visited_nodes

(* What was found at a depth is within that many steps.                    *)
LEMMA FoundWithin ==
  ASSUME CliInv, NEW n, NEW k \in 0 .. 3, FoundAt(n, k)
  PROVE  n \in Within(k) /\ n \in GraphNode /\ n \in exists
BY WithinLevels DEF CliInv, FoundAt, ImpactStatic

(* A marked node within d steps was found at depth d or less               *)
LEMMA FoundNear ==
  ASSUME CliInv, NEW d \in 0 .. 3, NEW n \in Within(d), n \in visited_nodes
  PROVE  \E k \in 0 .. 3 : k <= d /\ FoundAt(n, k)
<1>1. n \in exists /\ n \in GraphNode
  BY WithinLevels DEF CliInv, ImpactStatic
<1>2. PICK k \in 0 .. 3 : FoundAt(n, k)
  BY <1>1 DEF CliInv
<1>3. ASSUME k > d PROVE FALSE
  <2>1. k \in 1 .. 3 /\ k - 1 \in 0 .. 4 /\ d \in 0 .. 4 /\ d <= k - 1 /\ k # 0
    BY <1>3
  <2>2. n \notin Within(k - 1)
    BY <1>1, <1>2, <2>1 DEF CliInv, FoundAt
  <2>3. Within(d) \subseteq Within(k - 1)
    BY <2>1, WithinLevels DEF CliInv
  <2> QED BY <2>2, <2>3
<1> QED BY <1>2, <1>3

(* When the nodes at depth d or less are searched, the next level is marked *)
LEMMA NextLevel ==
  ASSUME CliInv, NEW d \in 0 .. 2, Within(d) \subseteq visited_nodes,
         \A n \in GraphNode : \A k \in 0 .. 3 : k <= d /\ FoundAt(n, k) => Searched(n)
  PROVE  Within(d + 1) \subseteq visited_nodes
<1> SUFFICES ASSUME NEW n \in Within(d + 1), n \notin Within(d) PROVE n \in visited_nodes
  OBVIOUS
<1>1. PICK m \in Within(d) : n \in exists /\ n \in Near(m)
  BY WithinLevels DEF CliInv
<1>2. PICK k \in 0 .. 3 : k <= d /\ FoundAt(m, k)
  BY <1>1, FoundNear
<1>3. Searched(m)
  BY <1>2, FoundWithin
<1> QED BY <1>1, <1>3 DEF Searched

(* When the queue is empty the report is the reference.                    *)
LEMMA CliDone ==
  ASSUME CliInv, queue = <<>>
  PROVE  results = UNION {At(Within(d) \ Within(d - 1), d) : d \in 1 .. 3}
<1>1. \A n \in GraphNode : \A k \in 0 .. 2 : FoundAt(n, k) => Searched(n)
  BY DEF CliInv, Queued
<1>2. ASSUME NEW t \in targets PROVE t \in visited_nodes
  <2>1. t \in exists /\ 0 \in 0 .. 3 /\ FoundAt(t, 0)
    BY DEF CliInv, ImpactStatic, FoundAt
  <2> QED BY <2>1 DEF CliInv
<1>3. Within(0) \subseteq visited_nodes
  BY <1>2, WithinLevels DEF CliInv
<1>4. Within(1) \subseteq visited_nodes
  <2>1. Within(0 + 1) \subseteq visited_nodes
    BY <1>1, <1>3, NextLevel
  <2> QED BY <2>1
<1>5. Within(2) \subseteq visited_nodes
  <2>1. Within(1 + 1) \subseteq visited_nodes
    BY <1>1, <1>4, NextLevel
  <2> QED BY <2>1
<1>6. Within(3) \subseteq visited_nodes
  <2>1. Within(2 + 1) \subseteq visited_nodes
    BY <1>1, <1>5, NextLevel
  <2> QED BY <2>1
<1>7. \A d \in 0 .. 3 : Within(d) \subseteq visited_nodes
  BY <1>3, <1>4, <1>5, <1>6
<1>8. ASSUME NEW r \in results PROVE \E d \in 1 .. 3 : r \in At(Within(d) \ Within(d - 1), d)
  <2>1. PICK k \in 1 .. 3, n \in GraphNode : r = <<k, n>>
    BY DEF CliInv
  <2>2. n \in Within(k) \ Within(k - 1)
    BY <2>1 DEF CliInv
  <2> QED BY <2>1, <2>2 DEF At
<1>9. ASSUME NEW d \in 1 .. 3, NEW n \in Within(d) \ Within(d - 1) PROVE <<d, n>> \in results
  <2>1. PICK k \in 0 .. 3 : k <= d /\ FoundAt(n, k)
    BY <1>7, FoundNear
  <2>2. n \in Within(k)
    BY <2>1, FoundWithin
  <2>3. ~(k <= d - 1)
    <3>1. d - 1 \in 0 .. 4 /\ k \in 0 .. 4
      OBVIOUS
    <3> QED BY <1>9, <2>2, <3>1, WithinLevels DEF CliInv
  <2>4. k = d /\ k # 0
    BY <2>1, <2>3
  <2> QED BY <2>1, <2>4 DEF FoundAt
<1> DEFINE S == {At(Within(d) \ Within(d - 1), d) : d \in 1 .. 3}
<1>10. ASSUME NEW r \in UNION S PROVE r \in results
  <2>1. PICK d \in 1 .. 3 : r \in At(Within(d) \ Within(d - 1), d)
    OBVIOUS
  <2> QED BY <1>9, <2>1 DEF At
<1>11. ASSUME NEW r \in results PROVE r \in UNION S
  BY <1>8
<1> QED BY <1>10, <1>11

(* One turn of the loop                                                    *)
LEMMA CliTurn ==
  ASSUME CliInv, CliStep
  PROVE  CliInv'
<1> DEFINE n == Head(queue)[1]
           depth == Head(queue)[2]
           up == IF CliLimit(depth) THEN {} ELSE Sources(n) \ visited_nodes
           down == IF CliLimit(depth) THEN {} ELSE Driven(n) \ (visited_nodes \cup up)
           fresh == (up \cup down) \cap exists
<1>1. /\ queue # <<>> /\ UNCHANGED graphVars
      /\ visited_nodes' = visited_nodes \cup up \cup down
      /\ results' = results \cup At(fresh, depth + 1)
      /\ \E s \in Pushed(up \cap exists, depth + 1), t \in Pushed(down \cap exists, depth + 1) :
           queue' = Tail(queue) \o s \o t
  BY DEF CliStep
<1>2. /\ queue \in Seq(GraphNode \X (0 .. 3)) /\ Len(queue) >= 1 /\ Head(queue) = queue[1]
      /\ queue[1] \in GraphNode \X (0 .. 3)
  BY <1>1 DEF CliInv, QueueOk
<1>3. n \in GraphNode /\ depth \in 0 .. 3 /\ Head(queue) = <<n, depth>> /\ depth = queue[1][2] /\ n = queue[1][1]
  BY <1>2
<1>4. /\ up \subseteq GraphNode /\ down \subseteq GraphNode /\ (up \cup down) \cap visited_nodes = {}
      /\ fresh \subseteq Near(n) /\ fresh \subseteq exists
      /\ depth = 3 => up = {} /\ down = {}
      /\ depth # 3 => Near(n) \subseteq visited_nodes \cup up \cup down
  BY <1>3, NearNodes DEF Near, CliLimit
<1> HIDE DEF up, down, n, depth
<1>5. \A d : Within(d)' = Within(d)
  BY <1>1 DEF graphVars, Within, Ball, Around, Sources, Driven
<1>6. /\ exists' = exists /\ targets' = targets /\ \A m : Near(m)' = Near(m)
  BY <1>1 DEF graphVars, Near, Sources, Driven
<1>7. FoundAt(n, depth) /\ n \in Within(depth) /\ n \in exists
  <2>1. Queued(queue[1], queue)
    BY <1>2 DEF Queued
  <2> QED BY <1>3, <2>1, FoundWithin DEF CliInv
<1>8. Within(depth) \subseteq visited_nodes
  BY <1>1, <1>3 DEF CliInv
(* What is found is exactly one step farther                               *)
<1>9. \A m \in fresh : depth + 1 \in 1 .. 3 /\ m \in Within(depth + 1) \ Within(depth) /\ m \in GraphNode
  <2> TAKE m \in fresh
  <2>1. depth \in 0 .. 2 /\ m \in Near(n) /\ m \in exists
    BY <1>3, <1>4
  <2>2. m \in Within(depth + 1)
    BY <1>7, <2>1, WithinLevels DEF CliInv
  <2>3. m \notin visited_nodes
    BY <1>4
  <2> QED BY <1>4, <1>8, <2>1, <2>2, <2>3
(* The queue                                                               *)
<1>10. PICK s \in Seq(GraphNode \X (0 .. 3)) :
         /\ queue' = Tail(queue) \o s
         /\ \A e : Queued(e, s) <=> \E m \in fresh : e = <<m, depth + 1>>
         /\ \A i \in 1 .. Len(s) : s[i][2] = queue[1][2] + 1
  <2>1. PICK a \in Pushed(up \cap exists, depth + 1), b \in Pushed(down \cap exists, depth + 1) :
          queue' = Tail(queue) \o a \o b
    BY <1>1
  <2>2. /\ a \in Seq((up \cap exists) \X {depth + 1}) /\ \A m \in up \cap exists : Queued(<<m, depth + 1>>, a)
        /\ b \in Seq((down \cap exists) \X {depth + 1}) /\ \A m \in down \cap exists : Queued(<<m, depth + 1>>, b)
    BY <1>4, PushedNodes
  <2> DEFINE F == fresh \X {depth + 1}
  <2>3. a \in Seq(F) /\ b \in Seq(F)
    BY <2>2
  <2>4. \A e \in F : e \in GraphNode \X (0 .. 3) /\ e[2] = queue[1][2] + 1 /\ \E m \in fresh : e = <<m, depth + 1>>
    BY <1>3, <1>9
  <2> HIDE DEF F, fresh
  <2>5. a \o b \in Seq(F) /\ Tail(queue) \o a \o b = Tail(queue) \o (a \o b)
    <3>1. Tail(queue) \in Seq(GraphNode \X (0 .. 3))
      BY <1>2
    <3>2. a \in Seq(GraphNode \X (0 .. 3)) /\ b \in Seq(GraphNode \X (0 .. 3))
      BY <2>3, <2>4
    <3>3. Tail(queue) \o a \o b = Tail(queue) \o (a \o b)
      BY <3>1, <3>2, ConcatAssociative
    <3>4. a \o b \in Seq(F)
      BY <2>3, ConcatProperties
    <3> QED BY <3>3, <3>4
  <2>6. \A e : Queued(e, a) \/ Queued(e, b) => Queued(e, a \o b)
    <3>1. ASSUME NEW i \in 1 .. Len(a) PROVE i \in 1 .. Len(a \o b) /\ (a \o b)[i] = a[i]
      BY <2>3
    <3>2. ASSUME NEW i \in 1 .. Len(b) PROVE Len(a) + i \in 1 .. Len(a \o b) /\ (a \o b)[Len(a) + i] = b[i]
      BY <2>3
    <3> QED BY <3>1, <3>2 DEF Queued
  <2>7. \A m \in fresh : Queued(<<m, depth + 1>>, a \o b)
    BY <2>2, <2>6 DEF fresh
  <2>8. \A i \in 1 .. Len(a \o b) : (a \o b)[i] \in F
    BY <2>5
  <2>9. a \o b \in Seq(GraphNode \X (0 .. 3))
    BY <2>4, <2>5
  <2> WITNESS a \o b \in Seq(GraphNode \X (0 .. 3))
  <2> QED BY <2>1, <2>4, <2>5, <2>7, <2>8 DEF Queued
<1>11. /\ QueueOk(queue', 3)
       /\ \A e : Queued(e, s) => Queued(e, queue')
       /\ \A e : Queued(e, queue) => e = queue[1] \/ Queued(e, queue')
       /\ \A e : Queued(e, queue') => Queued(e, queue) \/ Queued(e, s)
       /\ queue' # <<>> =>
            \/ queue'[1][2] = queue[1][2]
            \/ queue'[1][2] = queue[1][2] + 1 /\ \A e : Queued(e, queue') => e[2] = queue[1][2] + 1
  <2>1. 3 \in Nat /\ QueueOk(queue, 3)
    BY DEF CliInv
  <2> HIDE DEF fresh
  <2>2. queue # <<>> /\ queue' = Tail(queue) \o s /\ \A i \in 1 .. Len(s) : s[i][2] = queue[1][2] + 1
    BY <1>1, <1>10
  <2>3. Moves(queue, s, queue', 3)
    BY <2>1, <2>2 DEF Moves
  <2> QED BY <2>1, <2>3, QueueMoves
(* The parts of the invariant                                              *)
<1>12. \A m, k : FoundAt(m, k)' <=> FoundAt(m, k) \/ (m \in fresh /\ k = depth + 1)
  BY <1>1, <1>6 DEF FoundAt, At
<1>13. results' \subseteq (1 .. 3) \X GraphNode
  BY <1>1, <1>9 DEF At, CliInv
<1>14. \A m \in exists : m \in visited_nodes' <=> \E k \in 0 .. 3 : FoundAt(m, k)'
  <2> TAKE m \in exists
  <2>1. m \in visited_nodes' <=> m \in visited_nodes \/ m \in fresh
    BY <1>1
  <2>2. m \in visited_nodes <=> \E k \in 0 .. 3 : FoundAt(m, k)
    BY DEF CliInv
  <2>3. m \in fresh => depth + 1 \in 0 .. 3
    BY <1>9
  <2> HIDE DEF fresh
  <2> QED BY <1>12, <2>1, <2>2, <2>3
<1>15. \A k \in 1 .. 3, m \in GraphNode : <<k, m>> \in results' => m \in Within(k) \ Within(k - 1)
  <2> TAKE k \in 1 .. 3, m \in GraphNode
  <2> HAVE <<k, m>> \in results'
  <2>1. CASE <<k, m>> \in results
    BY <2>1 DEF CliInv
  <2>2. CASE k = depth + 1 /\ m \in fresh
    <3>1. k - 1 = depth
      BY <1>3, <2>2
    <3> QED BY <1>9, <2>2, <3>1
  <2> QED BY <1>1, <2>1, <2>2 DEF At
<1>16. \A e : Queued(e, queue') => FoundAt(e[1], e[2])'
  BY <1>10, <1>11, <1>12 DEF CliInv
<1>17. \A m : Searched(m) => Searched(m)'
  BY <1>1, <1>6 DEF Searched
<1>18. \A m : m = n /\ depth # 3 => Searched(m)'
  BY <1>1, <1>4, <1>6 DEF Searched
<1>19. \A k \in 0 .. 2, m \in GraphNode : FoundAt(m, k)' => Queued(<<m, k>>, queue') \/ Searched(m)'
  <2> TAKE k \in 0 .. 2, m \in GraphNode
  <2> HAVE FoundAt(m, k)'
  <2>1. CASE FoundAt(m, k)
    <3>1. Queued(<<m, k>>, queue) \/ Searched(m)
      BY <2>1 DEF CliInv
    <3>2. <<m, k>> = queue[1] => m = n /\ k = depth
      BY <1>3
    <3>3. k # 3
      OBVIOUS
    <3> QED BY <1>11, <1>17, <1>18, <3>1, <3>2, <3>3
  <2>2. CASE m \in fresh /\ k = depth + 1
    BY <1>10, <1>11, <2>2
  <2> QED BY <1>12, <2>1, <2>2
<1>20. ASSUME queue' # <<>> PROVE Within(queue'[1][2]) \subseteq visited_nodes'
  <2>1. CASE queue'[1][2] = depth
    BY <1>1, <1>8, <2>1
  <2>2. CASE queue'[1][2] = depth + 1 /\ \A e : Queued(e, queue') => e[2] = depth + 1
    <3>1. queue'[1][2] \in 0 .. 3 /\ depth \in 0 .. 2
      BY <1>3, <1>11, <1>20, <2>2 DEF QueueOk
    <3> SUFFICES ASSUME NEW m \in Within(depth + 1), m \notin Within(depth) PROVE m \in visited_nodes'
      BY <1>1, <1>8, <2>2
    <3>2. PICK j \in Within(depth) : m \in exists /\ m \in Near(j)
      BY <3>1, WithinLevels DEF CliInv
    <3>3. PICK k \in 0 .. 3 : k <= depth /\ FoundAt(j, k)
      BY <1>3, <1>8, FoundNear
    <3>4. j \in GraphNode /\ k \in 0 .. 2 /\ FoundAt(j, k)'
      BY <1>12, <3>1, <3>3, FoundWithin
    <3>5. ~Queued(<<j, k>>, queue')
      <4>1. <<j, k>>[2] # depth + 1
        BY <1>3, <3>3
      <4> QED BY <2>2, <4>1
    <3>6. Searched(j)'
      BY <1>19, <3>4, <3>5
    <3> QED BY <1>6, <3>2, <3>6 DEF Searched
  <2> QED BY <1>3, <1>11, <1>20, <2>1, <2>2
<1>21. ImpactStatic'
  BY <1>6 DEF CliInv, ImpactStatic
<1> HIDE DEF fresh
<1> QED BY <1>5, <1>6, <1>11, <1>13, <1>14, <1>15, <1>16, <1>19, <1>20, <1>21 DEF CliInv

-----------------------------------------------------------------------------
(* hdl_impact                                                              *)

(* What is above a node is marked                                          *)
Risen(n) == Sources(n) \cap exists \subseteq visited_nodes

(* What the search of hdl_impact keeps: it reports a node once and near    *)
(* enough, and what it does not go up from was found where going up is not *)
(* needed.                                                                 *)
McpInv ==
  /\ ImpactStatic
  /\ QueueOk(queue, 4)
  /\ results \subseteq (0 .. 4) \X GraphNode
  /\ \A n : n \in visited_nodes <=> n \in targets \/ \E k \in 0 .. 4 : <<k, n>> \in results
  /\ \A k \in 0 .. 4, n \in GraphNode : <<k, n>> \in results => n \in Within(4) \ targets
  /\ \A k, j \in 0 .. 4, n \in GraphNode : <<k, n>> \in results /\ <<j, n>> \in results => k = j
  /\ \A e : Queued(e, queue) => e[1] \in Within(e[2]) /\ e[1] \in visited_nodes
  /\ \A t \in targets : Queued(<<t, 0>>, queue) \/ Risen(t)
  /\ \A k \in 0 .. 4, n \in GraphNode : <<k, n>> \in results =>
       \/ Risen(n)
       \/ n \notin Above(k) /\ k # 4 /\ (k = 3 \/ Queued(<<n, k + 1>>, queue))
  /\ queue # <<>> /\ queue[1][2] <= 3 => Above(queue[1][2]) \subseteq visited_nodes

(* When what is marked and not in the queue is searched upwards, the next  *)
(* level is marked.                                                        *)
LEMMA NextAbove ==
  ASSUME McpInv, NEW d \in 0 .. 2, Above(d) \subseteq visited_nodes,
         \A n : \A k \in 0 .. d : ~Queued(<<n, k>>, queue)
  PROVE  Above(d + 1) \subseteq visited_nodes
<1> SUFFICES ASSUME NEW n \in Above(d + 1), n \notin Above(d) PROVE n \in visited_nodes
  OBVIOUS
<1>1. PICK m \in Above(d) : n \in exists /\ n \in Sources(m)
  BY AboveLevels DEF McpInv
<1>2. m \in visited_nodes /\ m \in GraphNode
  BY <1>1, AboveLevels DEF McpInv, ImpactStatic
<1>3. CASE m \in targets
  <2>1. 0 \in 0 .. d
    OBVIOUS
  <2>2. Risen(m)
    BY <1>3, <2>1 DEF McpInv
  <2> QED BY <1>1, <2>2 DEF Risen
<1>4. ASSUME NEW k \in 0 .. 4, <<k, m>> \in results PROVE n \in visited_nodes
  <2>1. CASE Risen(m)
    BY <1>1, <2>1 DEF Risen
  <2>2. CASE m \notin Above(k) /\ k # 4 /\ (k = 3 \/ Queued(<<m, k + 1>>, queue))
    <3>1. ~(d <= k)
      <4>1. d \in 0 .. 4
        OBVIOUS
      <4> QED BY <1>1, <2>2, <4>1, AboveLevels DEF McpInv
    <3>2. k # 3 /\ k + 1 \in 0 .. d
      BY <3>1
    <3> QED BY <2>2, <3>2
  <2> QED BY <1>2, <1>4, <2>1, <2>2 DEF McpInv
<1> QED BY <1>2, <1>3, <1>4 DEF McpInv

(* When the queue is empty all that is above within three steps is         *)
(* reported, nothing that is further than four steps, and nothing twice.   *)
LEMMA McpDone ==
  ASSUME McpInv, queue = <<>>
  PROVE  /\ Above(3) \ targets \subseteq {r[2] : r \in results}
         /\ {r[2] : r \in results} \subseteq Within(4) \ targets
         /\ \A r, s \in results : r[2] = s[2] => r = s
<1>1. \A n, k : ~Queued(<<n, k>>, queue)
  BY DEF Queued
<1>2. Above(0) \subseteq visited_nodes
  BY AboveLevels DEF McpInv
<1>3. Above(0 + 1) \subseteq visited_nodes
  BY <1>1, <1>2, NextAbove
<1>4. Above(1) \subseteq visited_nodes
  BY <1>3
<1>5. Above(1 + 1) \subseteq visited_nodes
  BY <1>1, <1>4, NextAbove
<1>6. Above(2) \subseteq visited_nodes
  BY <1>5
<1>7. Above(2 + 1) \subseteq visited_nodes
  BY <1>1, <1>6, NextAbove
<1>8. Above(3) \subseteq visited_nodes
  BY <1>7
<1>9. ASSUME NEW n \in Above(3) \ targets PROVE n \in {r[2] : r \in results}
  <2>1. PICK k \in 0 .. 4 : <<k, n>> \in results
    BY <1>8 DEF McpInv
  <2>2. <<k, n>>[2] = n
    OBVIOUS
  <2> QED BY <2>1, <2>2
<1>10. ASSUME NEW r \in results PROVE \E k \in 0 .. 4, n \in GraphNode : r = <<k, n>>
  BY DEF McpInv
<1>11. ASSUME NEW r \in results PROVE r[2] \in Within(4) \ targets
  BY <1>10 DEF McpInv
<1>12. ASSUME NEW r \in results, NEW s \in results, r[2] = s[2] PROVE r = s
  <2>1. PICK k \in 0 .. 4, n \in GraphNode : r = <<k, n>>
    BY <1>10
  <2>2. PICK j \in 0 .. 4, m \in GraphNode : s = <<j, m>>
    BY <1>10
  <2>3. m = n
    BY <1>12, <2>1, <2>2
  <2> QED BY <2>1, <2>2, <2>3 DEF McpInv
<1> QED BY <1>9, <1>11, <1>12

(* One turn of the loop                                                    *)
LEMMA McpTurn ==
  ASSUME McpInv, McpStep
  PROVE  McpInv'
<1> DEFINE n == Head(queue)[1]
           depth == Head(queue)[2]
           up == IF depth > 3 THEN {} ELSE (Sources(n) \cap exists) \ visited_nodes
           down == IF depth > 3 THEN {} ELSE (Driven(n) \cap exists) \ (visited_nodes \cup up)
<1>1. /\ queue # <<>> /\ UNCHANGED graphVars
      /\ visited_nodes' = visited_nodes \cup up \cup down
      /\ results' = results \cup At(up, depth) \cup At(down, depth + 1)
      /\ \E s \in Pushed(up, depth + 1) : queue' = Tail(queue) \o s
  BY DEF McpStep
<1>2. /\ queue \in Seq(GraphNode \X (0 .. 4)) /\ Len(queue) >= 1 /\ Head(queue) = queue[1]
      /\ queue[1] \in GraphNode \X (0 .. 4)
  BY <1>1 DEF McpInv, QueueOk
<1>3. n \in GraphNode /\ depth \in 0 .. 4 /\ Head(queue) = <<n, depth>> /\ depth = queue[1][2] /\ n = queue[1][1]
  BY <1>2
<1>4. /\ up \subseteq GraphNode /\ down \subseteq GraphNode /\ (up \cup down) \cap visited_nodes = {}
      /\ up \cap down = {}
      /\ up \subseteq Near(n) /\ down \subseteq Near(n) /\ up \subseteq exists /\ down \subseteq exists
      /\ depth = 4 => up = {} /\ down = {}
      /\ depth # 4 => Sources(n) \cap exists \subseteq visited_nodes \cup up
      /\ \A m \in down : Sources(m) \subseteq {n}
  BY <1>3, NearNodes DEF Near, Sources, Driven
<1> HIDE DEF up, down, n, depth
<1>5. \A d : Within(d)' = Within(d) /\ Above(d)' = Above(d)
  BY <1>1 DEF graphVars, Within, Above, Ball, Around, Sources, Driven
<1>6. exists' = exists /\ targets' = targets /\ \A m : Sources(m)' = Sources(m)
  BY <1>1 DEF graphVars, Sources
<1>7. n \in Within(depth) /\ n \in visited_nodes
  <2>1. Queued(queue[1], queue)
    BY <1>2 DEF Queued
  <2> QED BY <1>3, <2>1 DEF McpInv
<1>8. depth # 4 => Above(depth) \subseteq visited_nodes
  BY <1>1, <1>3 DEF McpInv
<1>9. \A m \in up \cup down : /\ depth \in 0 .. 3 /\ m \in Within(depth + 1) /\ m \in Within(4)
                              /\ m \in GraphNode /\ m \notin visited_nodes /\ m \notin targets
  <2> TAKE m \in up \cup down
  <2>1. depth \in 0 .. 3 /\ m \in Near(n) /\ m \in exists /\ m \notin visited_nodes /\ m \in GraphNode
    BY <1>3, <1>4
  <2>2. m \in Within(depth + 1)
    BY <1>7, <2>1, WithinLevels DEF McpInv
  <2>3. depth + 1 \in 0 .. 4 /\ 4 \in 0 .. 4 /\ depth + 1 <= 4
    BY <2>1
  <2>4. m \in Within(4)
    BY <2>2, <2>3, WithinLevels DEF McpInv
  <2> QED BY <2>1, <2>2, <2>4 DEF McpInv
(* The queue                                                               *)
<1>10. PICK s \in Seq(GraphNode \X (0 .. 4)) :
         /\ queue' = Tail(queue) \o s
         /\ \A e : Queued(e, s) <=> \E m \in up : e = <<m, depth + 1>>
         /\ \A i \in 1 .. Len(s) : s[i][2] = queue[1][2] + 1
  <2>1. PICK a \in Pushed(up, depth + 1) : queue' = Tail(queue) \o a
    BY <1>1
  <2>2. a \in Seq(up \X {depth + 1}) /\ \A m \in up : Queued(<<m, depth + 1>>, a)
    BY <1>4, PushedNodes
  <2> DEFINE F == up \X {depth + 1}
  <2>3. \A e \in F : e \in GraphNode \X (0 .. 4) /\ e[2] = queue[1][2] + 1 /\ \E m \in up : e = <<m, depth + 1>>
    BY <1>3, <1>9
  <2>4. \A i \in 1 .. Len(a) : a[i] \in F
    BY <2>2
  <2> HIDE DEF F
  <2>5. a \in Seq(GraphNode \X (0 .. 4))
    BY <2>2, <2>3 DEF F
  <2> QED BY <2>1, <2>2, <2>3, <2>4, <2>5 DEF Queued
<1>11. /\ QueueOk(queue', 4)
       /\ \A e : Queued(e, s) => Queued(e, queue')
       /\ \A e : Queued(e, queue) => e = queue[1] \/ Queued(e, queue')
       /\ \A e : Queued(e, queue') => Queued(e, queue) \/ Queued(e, s)
       /\ queue' # <<>> =>
            \/ queue'[1][2] = queue[1][2]
            \/ queue'[1][2] = queue[1][2] + 1 /\ \A e : Queued(e, queue') => e[2] = queue[1][2] + 1
  <2>1. 4 \in Nat /\ QueueOk(queue, 4)
    BY DEF McpInv
  <2>2. queue # <<>> /\ queue' = Tail(queue) \o s /\ \A i \in 1 .. Len(s) : s[i][2] = queue[1][2] + 1
    BY <1>1, <1>10
  <2>3. Moves(queue, s, queue', 4)
    BY <2>1, <2>2 DEF Moves
  <2> QED BY <2>1, <2>3, QueueMoves
(* The parts of the invariant                                              *)
<1>12. \A k, m : <<k, m>> \in results' <=>
         <<k, m>> \in results \/ (k = depth /\ m \in up) \/ (k = depth + 1 /\ m \in down)
  BY <1>1 DEF At
<1>13. results' \subseteq (0 .. 4) \X GraphNode
  <2>1. At(up, depth) \subseteq (0 .. 4) \X GraphNode /\ At(down, depth + 1) \subseteq (0 .. 4) \X GraphNode
    BY <1>3, <1>9 DEF At
  <2> QED BY <1>1, <2>1 DEF McpInv
<1>14. \A m : m \in visited_nodes' <=> m \in targets \/ \E k \in 0 .. 4 : <<k, m>> \in results'
  <2> TAKE m
  <2>1. m \in visited_nodes' <=> m \in visited_nodes \/ m \in up \/ m \in down
    BY <1>1
  <2>2. m \in visited_nodes <=> m \in targets \/ \E k \in 0 .. 4 : <<k, m>> \in results
    BY DEF McpInv
  <2>3. m \in up \cup down => depth \in 0 .. 4 /\ depth + 1 \in 0 .. 4
    BY <1>9
  <2> QED BY <1>12, <2>1, <2>2, <2>3
<1>15. \A k \in 0 .. 4, m \in GraphNode : <<k, m>> \in results' => m \in Within(4) \ targets
  BY <1>9, <1>12 DEF McpInv
<1>16. \A k, j \in 0 .. 4, m \in GraphNode : <<k, m>> \in results' /\ <<j, m>> \in results' => k = j
  <2> TAKE k, j \in 0 .. 4, m \in GraphNode
  <2>1. m \in up \cup down => ~(<<k, m>> \in results) /\ ~(<<j, m>> \in results)
    BY <1>9 DEF McpInv
  <2>2. <<k, m>> \in results /\ <<j, m>> \in results => k = j
    BY DEF McpInv
  <2> QED BY <1>4, <1>12, <2>1, <2>2
<1>17. \A e : Queued(e, queue') => e[1] \in Within(e[2]) /\ e[1] \in visited_nodes'
  <2> SUFFICES ASSUME NEW e, Queued(e, queue') PROVE e[1] \in Within(e[2]) /\ e[1] \in visited_nodes'
    OBVIOUS
  <2>1. CASE Queued(e, queue)
    BY <1>1, <2>1 DEF McpInv
  <2>2. ASSUME NEW m \in up, e = <<m, depth + 1>> PROVE e[1] \in Within(e[2]) /\ e[1] \in visited_nodes'
    BY <1>1, <1>9, <2>2
  <2> QED BY <1>10, <1>11, <2>1, <2>2
<1>18. \A m : Risen(m) => Risen(m)'
  BY <1>1, <1>6 DEF Risen
<1>19. \A m : m = n /\ depth # 4 => Risen(m)'
  BY <1>1, <1>4, <1>6 DEF Risen
<1>20. \A m \in down : Risen(m)'
  BY <1>1, <1>4, <1>6, <1>7 DEF Risen
<1>21. \A t \in targets : Queued(<<t, 0>>, queue') \/ Risen(t)'
  <2> TAKE t \in targets
  <2>1. Queued(<<t, 0>>, queue) \/ Risen(t)
    BY DEF McpInv
  <2>2. <<t, 0>> = queue[1] => t = n /\ depth # 4
    BY <1>3
  <2> QED BY <1>11, <1>18, <1>19, <2>1, <2>2
<1>22. \A k \in 0 .. 4, m \in GraphNode : <<k, m>> \in results' =>
         \/ Risen(m)'
         \/ m \notin Above(k) /\ k # 4 /\ (k = 3 \/ Queued(<<m, k + 1>>, queue'))
  <2> TAKE k \in 0 .. 4, m \in GraphNode
  <2> HAVE <<k, m>> \in results'
  <2>1. CASE <<k, m>> \in results
    <3>1. \/ Risen(m)
          \/ m \notin Above(k) /\ k # 4 /\ (k = 3 \/ Queued(<<m, k + 1>>, queue))
      BY <2>1 DEF McpInv
    <3>2. <<m, k + 1>> = queue[1] /\ k # 3 => m = n /\ depth # 4
      BY <1>3
    <3> QED BY <1>11, <1>18, <1>19, <3>1, <3>2
  <2>2. CASE k = depth /\ m \in up
    <3>1. m \notin Above(k) /\ k # 4
      BY <1>8, <1>9, <2>2
    <3>2. Queued(<<m, k + 1>>, queue')
      BY <1>10, <1>11, <2>2
    <3> QED BY <3>1, <3>2
  <2>3. CASE k = depth + 1 /\ m \in down
    BY <1>20, <2>3
  <2> QED BY <1>12, <2>1, <2>2, <2>3
<1>23. ASSUME queue' # <<>>, queue'[1][2] <= 3 PROVE Above(queue'[1][2]) \subseteq visited_nodes'
  <2>1. CASE queue'[1][2] = depth
    BY <1>1, <1>3, <1>8, <1>23, <2>1
  <2>2. CASE queue'[1][2] = depth + 1 /\ \A e : Queued(e, queue') => e[2] = depth + 1
    <3>1. depth \in 0 .. 2
      BY <1>3, <1>23, <2>2
    <3>6. Above(queue'[1][2]) = Above(depth + 1) /\ Above(depth) \subseteq visited_nodes'
      <4>1. Above(depth) \subseteq visited_nodes
        BY <1>8, <3>1
      <4> QED BY <1>1, <2>2, <4>1
    <3> SUFFICES ASSUME NEW m \in Above(depth + 1), m \notin Above(depth) PROVE m \in visited_nodes'
      BY <3>6
    <3>2. PICK j \in Above(depth) : m \in exists /\ m \in Sources(j)
      BY <3>1, AboveLevels DEF McpInv
    <3>3. j \in visited_nodes' /\ j \in GraphNode
      BY <1>1, <1>8, <3>1, <3>2, AboveLevels DEF McpInv, ImpactStatic
    <3>4. \A k \in 0 .. depth : ~Queued(<<j, k>>, queue')
      <4>1. \A k \in 0 .. depth : <<j, k>>[2] # depth + 1
        BY <3>1
      <4> QED BY <2>2, <4>1
    <3>5. Risen(j)'
      <4>1. CASE j \in targets
        <5>1. 0 \in 0 .. depth
          BY <3>1
        <5> QED BY <1>21, <3>4, <4>1, <5>1
      <4>2. ASSUME NEW k \in 0 .. 4, <<k, j>> \in results' PROVE Risen(j)'
        <5>1. ASSUME j \notin Above(k), k # 4, k = 3 \/ Queued(<<j, k + 1>>, queue') PROVE FALSE
          <6>1. ~(depth <= k)
            <7>1. depth \in 0 .. 4
              BY <3>1
            <7> QED BY <3>2, <5>1, <7>1, AboveLevels DEF McpInv
          <6>2. k # 3 /\ k + 1 \in 0 .. depth
            BY <3>1, <6>1
          <6> QED BY <3>4, <5>1, <6>2
        <5> QED BY <1>22, <3>3, <4>2, <5>1
      <4> QED BY <1>14, <3>3, <4>1, <4>2
    <3> QED BY <1>6, <3>2, <3>5 DEF Risen
  <2> QED BY <1>3, <1>11, <1>23, <2>1, <2>2
<1>24. ImpactStatic'
  BY <1>6 DEF McpInv, ImpactStatic
<1> QED BY <1>5, <1>6, <1>11, <1>13, <1>14, <1>15, <1>16, <1>17, <1>21, <1>22, <1>23, <1>24 DEF McpInv

-----------------------------------------------------------------------------
(* Both searches                                                           *)

(* The invariant of either search.                                         *)
ImpactInv == /\ tool \in {"cli", "mcp"}
             /\ tool = "cli" => CliInv
             /\ tool = "mcp" => McpInv

(* Before the first turn the queue holds the targets, at depth 0.          *)
LEMMA ImpactInitInv ==
  ASSUME ImpactInit
  PROVE  ImpactInv
<1>1. /\ tool \in {"cli", "mcp"} /\ visited_nodes = targets /\ results = {}
      /\ queue \in Pushed(targets, 0)
  BY DEF ImpactInit, Pushed
<1>2. ImpactStatic
  BY DEF ImpactInit, ImpactStatic
<1>3. targets \subseteq GraphNode
  BY <1>2 DEF ImpactStatic
<1>4. queue \in Seq(targets \X {0}) /\ \A n \in targets : Queued(<<n, 0>>, queue)
  BY <1>1, <1>3, PushedNodes
<1>5. ASSUME NEW i \in 1 .. Len(queue) PROVE queue[i] \in targets \X {0} /\ queue[i][2] = 0
  <2>1. queue[i] \in targets \X {0}
    BY <1>4
  <2> QED BY <2>1
<1>6. ASSUME NEW max \in Nat PROVE QueueOk(queue, max)
  <2>1. targets \X {0} \subseteq GraphNode \X (0 .. max)
    BY <1>3
  <2> DEFINE F == targets \X {0}
             E == GraphNode \X (0 .. max)
  <2> HIDE DEF E, F
  <2>2. F \subseteq E /\ queue \in Seq(F)
    BY <1>4, <2>1 DEF E, F
  <2>3. queue \in Seq(E)
    BY <2>2
  <2>4. \A i \in 1 .. Len(queue) : 1 \in 1 .. Len(queue)
    <3>1. Len(queue) \in Nat
      BY <2>2
    <3> QED BY <3>1
  <2>5. \A i \in 1 .. Len(queue) : queue[i][2] = 0 /\ queue[1][2] = 0
    BY <1>5, <2>4
  <2> QED BY <2>3, <2>5 DEF QueueOk, E
<1>7. \A e : Queued(e, queue) => \E n \in targets : e = <<n, 0>>
  <2> SUFFICES ASSUME NEW i \in 1 .. Len(queue) PROVE \E n \in targets : queue[i] = <<n, 0>>
    BY DEF Queued
  <2> QED BY <1>5
<1>8. Within(0) = targets /\ Above(0) = targets
  BY <1>2, WithinLevels, AboveLevels
<1>9. queue # <<>> => queue[1][2] = 0
  <2>1. queue # <<>> => 1 \in 1 .. Len(queue)
    BY <1>4
  <2> QED BY <1>5, <2>1
<1>10. CASE tool = "cli"
  <2>1. \A n, k : FoundAt(n, k) <=> k = 0 /\ n \in targets
    BY <1>1 DEF FoundAt
  <2>2. QueueOk(queue, 3)
    BY <1>6
  <2>3. \A n \in exists : n \in visited_nodes <=> \E k \in 0 .. 3 : FoundAt(n, k)
    BY <1>1, <2>1
  <2>4. \A e : Queued(e, queue) => FoundAt(e[1], e[2])
    BY <1>7, <2>1
  <2>5. \A k \in 0 .. 2, n \in GraphNode : FoundAt(n, k) => Queued(<<n, k>>, queue)
    BY <1>4, <2>1
  <2>6. CliInv
    BY <1>1, <1>2, <1>8, <1>9, <2>2, <2>3, <2>4, <2>5 DEF CliInv
  <2> QED BY <1>10, <2>6 DEF ImpactInv
<1>11. CASE tool = "mcp"
  <2>1. QueueOk(queue, 4)
    BY <1>6
  <2>2. \A e : Queued(e, queue) => e[1] \in Within(e[2]) /\ e[1] \in visited_nodes
    BY <1>1, <1>7, <1>8
  <2>3. McpInv
    BY <1>1, <1>2, <1>4, <1>8, <1>9, <2>1, <2>2 DEF McpInv
  <2> QED BY <1>11, <2>3 DEF ImpactInv
<1> QED BY <1>1, <1>10, <1>11

(* A turn of either loop, or none, keeps the invariant.                    *)
LEMMA ImpactStepInv ==
  ASSUME ImpactInv, [ImpactNext]_impactVars
  PROVE  ImpactInv'
<1>1. CASE CliStep
  <2>1. tool = "cli" /\ tool' = tool
    BY <1>1 DEF CliStep, graphVars
  <2>2. CliInv'
    BY <1>1, <2>1, CliTurn DEF ImpactInv
  <2> QED BY <2>1, <2>2 DEF ImpactInv
<1>2. CASE McpStep
  <2>1. tool = "mcp" /\ tool' = tool
    BY <1>2 DEF McpStep, graphVars
  <2>2. McpInv'
    BY <1>2, <2>1, McpTurn DEF ImpactInv
  <2> QED BY <2>1, <2>2 DEF ImpactInv
<1>3. CASE UNCHANGED impactVars
  <2>1. CliInv' <=> CliInv
    BY <1>3 DEF impactVars, graphVars, CliInv, ImpactStatic, FoundAt, Searched, Near, Sources, Driven,
               Within, Ball, Around
  <2>2. McpInv' <=> McpInv
    BY <1>3 DEF impactVars, graphVars, McpInv, ImpactStatic, Risen, Sources, Driven,
               Within, Above, Ball, Around
  <2> QED BY <1>3, <2>1, <2>2 DEF ImpactInv, impactVars, graphVars
<1> QED BY <1>1, <1>2, <1>3 DEF ImpactNext

(* The invariant is enough for the property.                               *)
LEMMA ImpactInvExact ==
  ASSUME ImpactInv
  PROVE  ImpactIsExact
<1>1. CASE tool = "cli"
  BY <1>1, CliDone DEF ImpactInv, ImpactIsExact
<1>2. CASE tool = "mcp"
  BY <1>2, McpDone DEF ImpactInv, ImpactIsExact
<1> QED BY <1>1, <1>2 DEF ImpactInv

(* For every forest, of any size and with any nodes missing, and every set *)
(* of targets: `hdl impact` reports exactly the nodes within three steps   *)
(* at their distances, and hdl_impact what is above within three steps,    *)
(* each node once.                                                         *)
THEOREM ImpactCorrect == ImpactSpec => []ImpactIsExact
<1>1. ImpactInit => ImpactInv
  BY ImpactInitInv
<1>2. ImpactInv /\ [ImpactNext]_impactVars => ImpactInv'
  BY ImpactStepInv
<1>3. ImpactInv => ImpactIsExact
  BY ImpactInvExact
<1> QED BY <1>1, <1>2, <1>3, PTL DEF ImpactSpec

-----------------------------------------------------------------------------
(***************************************************************************)
(* ClientSetup: MethodIsOffered.                                           *)
(***************************************************************************)

(* A client that was configured was configured by the flow it is in, and   *)
(* only after the check of that flow.                                      *)
SetupInv ==
  /\ config.flow \in {"authorize", "secret", "jwt"}
  /\ offers.methods \in Methods
  /\ step \in {"registering", "Session"} => config.flow = "authorize"
  /\ step \in {"exchanging", "Authorized"} => config.flow # "authorize"
  /\ step = "Session" => \E secret \in BOOLEAN : oauth_client = configure_client(secret)
  /\ step \in {"exchanging", "Authorized"} => Supported /\ oauth_client = configure_client_credentials

(* What a server offers is one of the lists of methods.                    *)
LEMMA OffersAreMethods ==
  ASSUME NEW flow, NEW o \in OffersTo(flow)
  PROVE  o.methods \in Methods
BY DEF OffersTo

(* Before the first step nothing is configured.                            *)
LEMMA SetupInitInv == SetupInit => SetupInv
<1> SUFFICES ASSUME SetupInit PROVE SetupInv
  OBVIOUS
<1>1. PICK c \in Authorize \cup Credential : \E o \in OffersTo(c.flow) :
        config = c /\ offers = o /\ step = "called"
  BY DEF SetupInit, SetupCalled
<1>2. config.flow \in {"authorize", "secret", "jwt"}
  BY <1>1 DEF Authorize, Credential
<1>3. offers.methods \in Methods
  BY <1>1, OffersAreMethods
<1> QED BY <1>1, <1>2, <1>3 DEF SetupInv

(* A session is opened with the client configured for it.                  *)
LEMMA OpenSessionInv ==
  ASSUME SetupInv, config.flow = "authorize", NEW secret \in BOOLEAN, OpenSession(secret),
         UNCHANGED <<config, offers>>
  PROVE  SetupInv'
<1>1. step' \in {"Invalid URL", "InvalidScope", "Session"}
  BY DEF OpenSession, Ends
<1>2. step' = "Session" => oauth_client' = configure_client(secret)'
  BY DEF OpenSession, Ends, configure_client
<1> QED BY <1>1, <1>2 DEF SetupInv

(* Every step keeps the invariant.                                         *)
LEMMA SetupStepInv == SetupInv /\ [SetupNext]_setupVars => SetupInv'
<1> SUFFICES ASSUME SetupInv, [SetupNext]_setupVars PROVE SetupInv'
  OBVIOUS
<1>1. CASE NewSession
  <2> USE <1>1 DEF NewSession
  <2>1. CASE /\ offers.url_ids /\ config.client_metadata_url # "absent"
             /\ config.client_metadata_url = "https"
    BY <2>1, OpenSessionInv
  <2>2. CASE ~(/\ offers.url_ids /\ config.client_metadata_url # "absent"
               /\ config.client_metadata_url = "https")
    <3>1. step' \in {"registering", "RegistrationFailed"}
      BY <2>2 DEF Ends
    <3> QED BY <3>1 DEF SetupInv
  <2> QED BY <2>1, <2>2
<1>2. CASE Registered
  <2>1. config.flow = "authorize" /\ UNCHANGED <<config, offers>>
    BY <1>2 DEF Registered, SetupInv
  <2>2. CASE Ends("RegistrationFailed")
    BY <2>1, <2>2 DEF Ends, SetupInv
  <2>3. ASSUME NEW client_secret \in {"absent", "empty", "secret"}, OpenSession(client_secret = "secret")
        PROVE  SetupInv'
    BY <2>1, <2>3, OpenSessionInv
  <2> QED BY <1>2, <2>2, <2>3 DEF Registered
<1>3. CASE AuthenticateWithCredentials
  <2>1. config.flow # "authorize" /\ UNCHANGED <<config, offers>>
    BY <1>3 DEF AuthenticateWithCredentials
  <2>2. CASE step' \in {"ClientCredentialsError", "Invalid URL"}
    BY <2>1, <2>2 DEF SetupInv
  <2>3. CASE Supported /\ oauth_client' = configure_client_credentials /\ step' = "exchanging"
    BY <2>1, <2>3 DEF SetupInv, Supported, configure_client_credentials
  <2> QED BY <1>3, <2>2, <2>3 DEF AuthenticateWithCredentials, Ends
<1>4. CASE ExchangeEnds
  BY <1>4 DEF ExchangeEnds, Ends, SetupInv, Supported, configure_client_credentials
<1>5. CASE UNCHANGED setupVars
  BY <1>5 DEF setupVars, SetupInv, Supported, configure_client_credentials, configure_client
<1> QED BY <1>1, <1>2, <1>3, <1>4, <1>5 DEF SetupNext

(* The client that the invariant describes authenticates as the server     *)
(* offers.                                                                 *)
LEMMA SetupInvOffered == SetupInv => MethodIsOffered
<1> SUFFICES ASSUME SetupInv, step \in {"Session", "exchanging", "Authorized"},
                    offers.methods # Unsaid, Proof # "none",
                    config.flow = "authorize" => offers.methods \cap {"basic", "post"} # {}
             PROVE  Proof \in offers.methods
  BY DEF MethodIsOffered
<1>1. CASE step = "Session"
  BY <1>1 DEF SetupInv, Proof, configure_client, OAuthClient
<1>2. CASE step \in {"exchanging", "Authorized"}
  BY <1>2 DEF SetupInv, Proof, Supported, configure_client_credentials, OAuthClient
<1> QED BY <1>1, <1>2

(* For every server and every configuration: a client that goes on to the  *)
(* token endpoint uses a method the server offers, if it offers one the    *)
(* client has.                                                             *)
THEOREM MethodCorrect == SetupSpec => []MethodIsOffered
<1>1. SetupInit => SetupInv
  BY SetupInitInv
<1>2. SetupInv /\ [SetupNext]_setupVars => SetupInv'
  BY SetupStepInv
<1>3. SetupInv => MethodIsOffered
  BY SetupInvOffered
<1> QED BY <1>1, <1>2, <1>3, PTL DEF SetupSpec

-----------------------------------------------------------------------------
(***************************************************************************)
(* LspTokens: DecodedWhereTheyStand for documents of any length. Order of  *)
(* the tokens is not needed: a delta is an integer.                        *)
(***************************************************************************)

(* The newlines up to a place                                              *)
Newlines(i) == {k \in 1 .. i : chars[k] = "nl"}

(* The place a line and a column name, with the scan's way of counting     *)
Stands(l, c, i) == l = LineOf(i) /\ c = ColOf(i)

(* A position of the scan or of a token: right if no newline is escaped    *)
Right(l, c, i) == /\ l \in Nat /\ c \in Int /\ i \in 0 .. Len(chars)
                  /\ ~EscapedNewline => Stands(l, c, i)

(* A character that is no newline moves the column by one.                 *)
LEMMA StandsPast ==
  ASSUME NEW l \in Nat, NEW c \in Int, NEW i \in Nat, Stands(l, c, i), chars[i + 1] # "nl"
  PROVE  Stands(l, c + 1, i + 1)
<1>1. Newlines(i + 1) = Newlines(i)
  BY DEF Newlines
<1>2. LineOf(i + 1) = LineOf(i) /\ ColOf(i + 1) = (i + 1) - Max({0} \cup Newlines(i))
  <2>1. LineOf(i + 1) = Cardinality(Newlines(i + 1)) /\ LineOf(i) = Cardinality(Newlines(i))
    BY DEF LineOf, Newlines
  <2>2. ColOf(i + 1) = (i + 1) - Max({0} \cup Newlines(i + 1))
    BY DEF ColOf, Newlines
  <2> QED BY <1>1, <2>1, <2>2
<1>3. c = i - Max({0} \cup Newlines(i))
  BY DEF Stands, ColOf, Newlines
<1> DEFINE m == Max({0} \cup Newlines(i))
<1>4. m \in Int
  <2>1. {0} \cup Newlines(i) \in SUBSET Nat /\ {0} \cup Newlines(i) # {} /\ IsFiniteSet({0} \cup Newlines(i))
    <3>1. IsFiniteSet(1 .. i)
      BY FS_Interval
    <3>2. IsFiniteSet(Newlines(i))
      BY <3>1, FS_Subset DEF Newlines
    <3> QED BY <3>2, FS_AddElement DEF Newlines
  <2> DEFINE S == {0} \cup Newlines(i)
             T == {n \in Nat : \E x \in S : n = i - x}
  <2>2. T \subseteq Nat /\ T # {}
    BY DEF Newlines
  <2>3. PICK n \in T : \A x \in T : n <= x
    BY <2>2, LeastElement
  <2>4. PICK x \in S : n = i - x
    BY <2>3
  <2>5. \A y \in S : x >= y
    <3> TAKE y \in S
    <3>1. i - y \in T
      BY DEF Newlines
    <3> QED BY <2>1, <2>3, <2>4, <3>1
  <2>6. \E x1 \in S : \A y \in S : x1 >= y
    BY <2>5
  <2>7. m \in S
    BY <2>6 DEF Max
  <2> QED BY <2>1, <2>7
<1> HIDE DEF m
<1> QED BY <1>2, <1>3, <1>4 DEF Stands, m

(* A newline begins the next line.                                         *)
LEMMA StandsBelow ==
  ASSUME NEW l \in Nat, NEW c \in Int, NEW i \in Nat, Stands(l, c, i), chars[i + 1] = "nl"
  PROVE  Stands(l + 1, 0, i + 1)
<1>1. Newlines(i + 1) = Newlines(i) \cup {i + 1} /\ i + 1 \notin Newlines(i)
  BY DEF Newlines
<1>2. IsFiniteSet(Newlines(i))
  <2>1. IsFiniteSet(1 .. i)
    BY FS_Interval
  <2> QED BY <2>1, FS_Subset DEF Newlines
<1>3. Cardinality(Newlines(i + 1)) = Cardinality(Newlines(i)) + 1
  BY <1>1, <1>2, FS_AddElement
<1>4. LineOf(i + 1) = l + 1
  BY <1>3 DEF Stands, LineOf, Newlines
<1> DEFINE S == {0} \cup Newlines(i + 1)
<1>5. i + 1 \in S /\ \A y \in S : i + 1 >= y
  BY <1>1 DEF Newlines
<1>6. S \subseteq Nat
  BY DEF Newlines
<1> HIDE DEF S
<1>7. Max(S) \in S /\ \A y \in S : Max(S) >= y
  BY <1>5 DEF Max
<1>8. Max(S) = i + 1
  <2>1. Max(S) \in Nat /\ Max(S) >= i + 1 /\ i + 1 >= Max(S)
    BY <1>5, <1>6, <1>7
  <2> QED BY <2>1
<1>9. ColOf(i + 1) = 0
  BY <1>8 DEF ColOf, S, Newlines
<1> QED BY <1>4, <1>9 DEF Stands

-----------------------------------------------------------------------------
(* The loops of the scan, and its end.                                     *)
ScanMode == {"scan", "block", "comment", "string", "number", "word", "encoded"}

(* What the scan has pushed stands where it says.                          *)
RawOk == /\ raw \in Seq([line : Nat, col : Int, start : Nat, length : Int, type : {"comment", "string", "keyword"}])
         /\ \A k \in 1 .. Len(raw) : Right(raw[k].line, raw[k].col, raw[k].start)

(* The token that is scanned stands where it says.                         *)
TokenOk == /\ token \in [line : Nat, col : Int, start : Nat]
           /\ Right(token.line, token.col, token.start)

(* The invariant of the scan: every position it holds is right, and at the *)
(* end the deltas are those of the tokens.                                 *)
TokensInv == /\ chars \in Seq(Alphabet)
             /\ Right(line, col, at)
             /\ mode \in ScanMode
             /\ TokenOk /\ RawOk
             /\ mode = "encoded" =>
                  encoded = [k \in DOMAIN raw |-> Delta(raw[k], IF k = 1 THEN NoToken ELSE raw[k - 1])]

(* The scan begins at the first character of the first line.               *)
LEMMA TokensInitInv == TokensInit => TokensInv
<1> SUFFICES ASSUME TokensInit PROVE TokensInv
  OBVIOUS
<1>1. PICK text \in BoundedSeq(Alphabet, MaxChars) : TokensCalled(text)
  BY DEF TokensInit
<1>2. chars \in Seq(Alphabet)
  BY <1>1 DEF TokensCalled, BoundedSeq, SeqOf
<1>3. Stands(0, 0, 0)
  <2>1. {k \in 1 .. 0 : chars[k] = "nl"} = {}
    OBVIOUS
  <2>2. LineOf(0) = 0
    BY <2>1, FS_EmptySet DEF LineOf
  <2>3. Max({0}) = 0
    BY DEF Max
  <2>4. {0} \cup {k \in 1 .. 0 : chars[k] = "nl"} = {0}
    BY <2>1
  <2>5. ColOf(0) = 0
    BY <2>3, <2>4 DEF ColOf
  <2> QED BY <2>2, <2>5 DEF Stands
<1>4. Right(0, 0, 0)
  BY <1>2, <1>3 DEF Right
<1> QED BY <1>1, <1>2, <1>4 DEF TokensInv, TokensCalled, TokenOk, RawOk, NoToken, ScanMode

(* The document stays, and with it what is right in it.                    *)
LEMMA RightStays ==
  ASSUME chars' = chars
  PROVE  \A l, c, i : Right(l, c, i) => Right(l, c, i)'
BY DEF Right, Stands, LineOf, ColOf, EscapedNewline

(* The moves of the scan                                                   *)
LEMMA TakeOne ==
  ASSUME TokensInv, chars' = chars, More(1), Ch # "nl", Take(1)
  PROVE  Right(line, col, at)'
<1>1. chars[at + 1] # "nl" /\ at \in Nat /\ at + 1 \in 0 .. Len(chars)
  BY DEF TokensInv, Right, More, Ch
<1>2. line \in Nat /\ col \in Int /\ (~EscapedNewline => Stands(line, col, at))
  BY DEF TokensInv, Right
<1>3. ~EscapedNewline => Stands(line, col + 1, at + 1)
  BY <1>1, <1>2, StandsPast
<1>4. Right(line, col + 1, at + 1)
  BY <1>1, <1>2, <1>3 DEF Right
<1> QED BY <1>4, RightStays DEF Take

(* So do two characters, if the second is no newline either.               *)
LEMMA TakeTwo ==
  ASSUME TokensInv, chars' = chars, More(2), Ch # "nl", ~EscapedNewline => chars[at + 2] # "nl", Take(2)
  PROVE  Right(line, col, at)'
<1>1. chars[at + 1] # "nl" /\ at \in Nat /\ at + 2 \in 0 .. Len(chars) /\ col \in Int /\ line \in Nat
  BY DEF TokensInv, Right, More, Ch
<1>2. ASSUME ~EscapedNewline PROVE Stands(line, col + 2, at + 2)
  <2>1. Stands(line, col + 1, at + 1)
    BY <1>1, <1>2, StandsPast DEF TokensInv, Right
  <2>2. chars[(at + 1) + 1] # "nl"
    BY <1>1, <1>2
  <2>3. Stands(line, (col + 1) + 1, (at + 1) + 1)
    <3>1. at + 1 \in Nat /\ col + 1 \in Int
      BY <1>1
    <3> QED BY <1>1, <2>1, <2>2, <3>1, StandsPast
  <2>4. (col + 1) + 1 = col + 2 /\ (at + 1) + 1 = at + 2
    BY <1>1
  <2> QED BY <2>3, <2>4
<1>3. Right(line, col + 2, at + 2)
  BY <1>1, <1>2 DEF Right
<1> QED BY <1>3, RightStays DEF Take

(* A newline is taken.                                                     *)
LEMMA TakeLine ==
  ASSUME TokensInv, chars' = chars, Ch = "nl", TakeNewline
  PROVE  Right(line, col, at)'
<1>1. chars[at + 1] = "nl" /\ at \in Nat /\ at + 1 \in 0 .. Len(chars)
  BY DEF TokensInv, Right, More, Ch
<1>2. line \in Nat /\ col \in Int /\ (~EscapedNewline => Stands(line, col, at))
  BY DEF TokensInv, Right
<1>3. ~EscapedNewline => Stands(line + 1, 0, at + 1)
  BY <1>1, <1>2, StandsBelow
<1>4. Right(line + 1, 0, at + 1)
  BY <1>1, <1>2, <1>3 DEF Right
<1> QED BY <1>4, RightStays DEF TakeNewline

(* Nothing is taken.                                                       *)
LEMMA StayHere ==
  ASSUME TokensInv, chars' = chars, Stay
  PROVE  Right(line, col, at)'
BY RightStays DEF TokensInv, Stay

(* The scan goes on inside a token.                                        *)
LEMMA TokenStays ==
  ASSUME TokensInv, chars' = chars, token' = token
  PROVE  TokenOk'
BY RightStays DEF TokensInv, TokenOk

(* A token begins where the scan is.                                       *)
LEMMA TokenBegins ==
  ASSUME TokensInv, chars' = chars, NEW m, Begin(m)
  PROVE  TokenOk'
<1>1. Right(line, col, at)'  \/ Right(line, col, at)
  BY DEF TokensInv
<1>2. token' = [line |-> line, col |-> col, start |-> at]
  BY DEF Begin
<1>3. Right(line, col, at) /\ line \in Nat /\ col \in Int /\ at \in Nat
  BY DEF TokensInv, Right
<1>4. Right(token'.line, token'.col, token'.start)
  BY <1>2, <1>3
<1>5. Right(token.line, token.col, token.start)'
  BY <1>4 DEF Right, Stands, LineOf, ColOf, EscapedNewline
<1> QED BY <1>2, <1>3, <1>5 DEF TokenOk

(* No token ends.                                                          *)
LEMMA RawStays ==
  ASSUME TokensInv, chars' = chars, raw' = raw
  PROVE  RawOk'
BY RightStays DEF TokensInv, RawOk

(* A token that ends is pushed with the place at which it began.           *)
LEMMA RawPushed ==
  ASSUME TokensInv, chars' = chars, NEW end \in Int, NEW type \in {"comment", "string", "keyword"}, Push(end, type)
  PROVE  RawOk'
<1> DEFINE t == [line |-> token.line, col |-> token.col, start |-> token.start,
                 length |-> end - token.start, type |-> type]
           T == [line : Nat, col : Int, start : Nat, length : Int, type : {"comment", "string", "keyword"}]
<1>1. t \in T
  BY DEF TokensInv, TokenOk
<1>2. raw' = Append(raw, t) /\ raw \in Seq(T)
  BY DEF Push, TokensInv, RawOk
<1>3. Right(t.line, t.col, t.start)
  BY DEF TokensInv, TokenOk
<1> HIDE DEF t, T
<1>4. raw' \in Seq(T) /\ \A k \in 1 .. Len(raw') : raw'[k] = t \/ (k \in 1 .. Len(raw) /\ raw'[k] = raw[k])
  BY <1>1, <1>2
<1>5. \A k \in 1 .. Len(raw') : Right(raw'[k].line, raw'[k].col, raw'[k].start)
  BY <1>3, <1>4 DEF TokensInv, RawOk
<1>6. \A k \in 1 .. Len(raw') : Right(raw[k].line, raw[k].col, raw[k].start)'
  BY <1>5 DEF Right, Stands, LineOf, ColOf, EscapedNewline
<1> QED BY <1>4, <1>6 DEF RawOk, T

-----------------------------------------------------------------------------
(* The outer loop.                                                         *)
LEMMA ScanInv == ASSUME TokensInv, Scan PROVE TokensInv'
<1>0. chars' = chars /\ raw' = raw /\ mode = "scan" /\ More(1) /\ encoded' = encoded
  BY DEF Scan
<1>1. RawOk' /\ chars' \in Seq(Alphabet)
  BY <1>0, RawStays DEF TokensInv
<1>2. mode' \in ScanMode \ {"encoded"} /\ TokenOk'
  <2>1. CASE UNCHANGED <<mode, token>>
    BY <1>0, <2>1, TokenStays DEF ScanMode
  <2>2. ASSUME NEW m \in ScanMode \ {"encoded"}, Begin(m) PROVE mode' \in ScanMode \ {"encoded"} /\ TokenOk'
    BY <1>0, <2>2, TokenBegins DEF Begin
  <2> QED BY <2>1, <2>2 DEF Scan, ScanMode
<1>3. Right(line, col, at)'
  <2>1. CASE Ch = "nl" /\ TakeNewline
    BY <1>0, <2>1, TakeLine
  <2>2. CASE Stay
    BY <1>0, <2>2, StayHere
  <2>3. CASE Ch # "nl" /\ Take(1)
    BY <1>0, <2>3, TakeOne
  <2>4. CASE Ch = "slash" /\ NextIs("star") /\ Take(2)
    BY <1>0, <2>4, TakeTwo DEF NextIs
  <2> QED BY <2>1, <2>2, <2>3, <2>4 DEF Scan
<1> QED BY <1>1, <1>2, <1>3 DEF TokensInv

(* A block comment, closed or not.                                         *)
LEMMA BlockCommentInv == ASSUME TokensInv, BlockComment PROVE TokensInv'
<1>0. chars' = chars /\ token' = token /\ mode = "block" /\ at \in Int
  BY DEF BlockComment, TokensInv, Right
<1>1. TokenOk' /\ chars' \in Seq(Alphabet)
  BY <1>0, TokenStays DEF TokensInv
<1>2. mode' \in {"block", "scan"}
  BY <1>0 DEF BlockComment
<1>3. RawOk'
  <2>1. CASE Push(at, "comment")
    BY <1>0, <2>1, RawPushed
  <2>2. CASE Push(at + 2, "comment")
    BY <1>0, <2>2, RawPushed
  <2>3. CASE raw' = raw
    BY <1>0, <2>3, RawStays
  <2> QED BY <2>1, <2>2, <2>3 DEF BlockComment
<1>4. Right(line, col, at)'
  <2>1. CASE Stay
    BY <1>0, <2>1, StayHere
  <2>2. CASE More(2) /\ Ch = "star" /\ NextIs("slash") /\ Take(2)
    BY <1>0, <2>2, TakeTwo DEF NextIs
  <2>3. CASE Ch = "nl" /\ TakeNewline
    BY <1>0, <2>3, TakeLine
  <2>4. CASE More(2) /\ Ch # "nl" /\ Take(1)
    <3>1. More(1)
      BY <1>0, <2>4 DEF More, TokensInv
    <3> QED BY <1>0, <2>4, <3>1, TakeOne
  <2> QED BY <2>1, <2>2, <2>3, <2>4 DEF BlockComment
<1> QED BY <1>1, <1>2, <1>3, <1>4 DEF TokensInv, ScanMode

(* The character after the last is no character.                           *)
LEMMA ChHere == (Ch \notin {"end"} => More(1))
BY DEF Ch

(* A line comment.                                                         *)
LEMMA LineCommentInv == ASSUME TokensInv, LineComment PROVE TokensInv'
<1>0. chars' = chars /\ token' = token /\ mode = "comment" /\ at \in Int
  BY DEF LineComment, TokensInv, Right
<1>1. TokenOk' /\ chars' \in Seq(Alphabet)
  BY <1>0, TokenStays DEF TokensInv
<1>2. CASE Ch \notin {"nl", "end"}
  <2>1. Take(1) /\ raw' = raw /\ mode' = mode
    BY <1>2 DEF LineComment
  <2>2. Right(line, col, at)' /\ RawOk'
    BY <1>0, <1>2, <2>1, TakeOne, RawStays, ChHere
  <2> QED BY <1>0, <1>1, <2>1, <2>2 DEF TokensInv, ScanMode
<1>3. CASE Ch \in {"nl", "end"}
  <2>1. Stay /\ Push(at, "comment") /\ mode' = "scan"
    BY <1>3 DEF LineComment
  <2>2. Right(line, col, at)' /\ RawOk'
    BY <1>0, <2>1, StayHere, RawPushed
  <2> QED BY <1>1, <2>1, <2>2 DEF TokensInv, ScanMode
<1> QED BY <1>2, <1>3

(* A string: an escape takes two characters, which is right unless the     *)
(* second is a newline.                                                    *)
LEMMA StringLiteralInv == ASSUME TokensInv, StringLiteral PROVE TokensInv'
<1>0. chars' = chars /\ token' = token /\ mode = "string" /\ at \in Int
  BY DEF StringLiteral, TokensInv, Right
<1>1. TokenOk' /\ chars' \in Seq(Alphabet)
  BY <1>0, TokenStays DEF TokensInv
<1>2. CASE /\ More(1) /\ Ch \notin {"quote", "nl"}
           /\ Take(IF Ch = "escape" /\ More(2) THEN 2 ELSE 1)
           /\ UNCHANGED <<raw, mode>>
  <2>1. CASE Ch = "escape" /\ More(2)
    <3>1. ~EscapedNewline => chars[at + 2] # "nl"
      <4>1. at + 1 \in 1 .. Len(chars) - 1 /\ chars[at + 1] = "escape" /\ (at + 1) + 1 = at + 2
        BY <2>1 DEF More, Ch, TokensInv, Right
      <4> QED BY <4>1 DEF EscapedNewline
    <3>2. Right(line, col, at)'
      BY <1>0, <1>2, <2>1, <3>1, TakeTwo
    <3> QED BY <1>0, <1>1, <1>2, <3>2, RawStays DEF TokensInv, ScanMode
  <2>2. CASE ~(Ch = "escape" /\ More(2))
    <3>1. Right(line, col, at)'
      BY <1>0, <1>2, <2>2, TakeOne
    <3> QED BY <1>0, <1>1, <1>2, <3>1, RawStays DEF TokensInv, ScanMode
  <2> QED BY <2>1, <2>2
<1>3. CASE Ch = "quote" /\ Take(1) /\ Push(at + 1, "string") /\ mode' = "scan"
  <2>1. RawOk'
    BY <1>0, <1>3, RawPushed
  <2>2. Right(line, col, at)'
    BY <1>0, <1>3, TakeOne, ChHere
  <2> QED BY <1>1, <1>3, <2>1, <2>2 DEF TokensInv, ScanMode
<1>4. CASE Stay /\ Push(at, "string") /\ mode' = "scan"
  <2>1. RawOk' /\ Right(line, col, at)'
    BY <1>0, <1>4, RawPushed, StayHere
  <2> QED BY <1>1, <1>4, <2>1 DEF TokensInv, ScanMode
<1> QED BY <1>2, <1>3, <1>4 DEF StringLiteral

(* A number.                                                               *)
LEMMA NumberInv == ASSUME TokensInv, Number PROVE TokensInv'
<1>0. chars' = chars /\ token' = token /\ mode = "number" /\ raw' = raw /\ mode' \in {"number", "scan"}
  BY DEF Number
<1>1. TokenOk' /\ RawOk' /\ chars' \in Seq(Alphabet)
  BY <1>0, TokenStays, RawStays DEF TokensInv
<1>2. Right(line, col, at)'
  BY <1>0, TakeOne, ChHere, StayHere DEF Number, InWord
<1> QED BY <1>0, <1>1, <1>2 DEF TokensInv, ScanMode

(* A word.                                                                 *)
LEMMA WordInv == ASSUME TokensInv, Word PROVE TokensInv'
<1>0. chars' = chars /\ token' = token /\ mode = "word" /\ mode' \in {"word", "scan"} /\ at \in Int
  BY DEF Word, TokensInv, Right
<1>1. TokenOk' /\ chars' \in Seq(Alphabet)
  BY <1>0, TokenStays DEF TokensInv
<1>2. Right(line, col, at)'
  BY <1>0, TakeOne, ChHere, StayHere DEF Word, InWord
<1>3. RawOk'
  BY <1>0, RawStays, RawPushed DEF Word
<1> QED BY <1>0, <1>1, <1>2, <1>3 DEF TokensInv, ScanMode

(* The deltas are taken of what was pushed.                                *)
LEMMA EncodeInv == ASSUME TokensInv, Encode PROVE TokensInv'
<1>0. chars' = chars /\ token' = token /\ raw' = raw /\ mode' = "encoded" /\ Stay
  BY DEF Encode, Stay
<1>1. TokenOk' /\ RawOk' /\ chars' \in Seq(Alphabet) /\ Right(line, col, at)'
  BY <1>0, TokenStays, RawStays, StayHere DEF TokensInv
<1>2. encoded' = [k \in DOMAIN raw' |-> Delta(raw'[k], IF k = 1 THEN NoToken ELSE raw'[k - 1])]
  BY <1>0 DEF Encode
<1> QED BY <1>0, <1>1, <1>2 DEF TokensInv, ScanMode

(* Every step keeps the invariant.                                         *)
LEMMA TokensStepInv == TokensInv /\ [TokensNext]_tokenVars => TokensInv'
<1> SUFFICES ASSUME TokensInv, [TokensNext]_tokenVars PROVE TokensInv'
  OBVIOUS
<1>1. CASE UNCHANGED tokenVars
  <2>1. chars' = chars /\ token' = token /\ raw' = raw /\ mode' = mode /\ Stay /\ encoded' = encoded
    BY <1>1 DEF tokenVars, Stay
  <2>2. TokenOk' /\ RawOk' /\ Right(line, col, at)'
    BY <2>1, TokenStays, RawStays, StayHere
  <2> QED BY <2>1, <2>2 DEF TokensInv
<1> QED BY <1>1, ScanInv, BlockCommentInv, LineCommentInv, StringLiteralInv, NumberInv, WordInv, EncodeInv
        DEF TokensNext

-----------------------------------------------------------------------------
(* What the client decodes is what the scan pushed.                        *)
LEMMA DecodedAsPushed ==
  ASSUME TokensInv, mode = "encoded", NEW k \in 1 .. Len(raw)
  PROVE  Decoded[k] = <<raw[k].line, raw[k].col>>
<1> DEFINE N == 0 .. Len(encoded)
           Step(p, j) == IF j = 0 THEN <<0, 0>>
                         ELSE IF encoded[j].line = 0 THEN <<p[j - 1][1], p[j - 1][2] + encoded[j].start>>
                         ELSE <<p[j - 1][1] + encoded[j].line, encoded[j].start>>
           Solves(p) == p = [j \in N |-> Step(p, j)]
           g == [j \in N |-> IF j = 0 THEN <<0, 0>> ELSE <<raw[j].line, raw[j].col>>]
<1>1. /\ Len(raw) \in Nat /\ DOMAIN raw = 1 .. Len(raw)
      /\ \A j \in 1 .. Len(raw) : raw[j].line \in Nat /\ raw[j].col \in Int
  <2>1. Len(raw) \in Nat /\ DOMAIN raw = 1 .. Len(raw)
    BY DEF TokensInv, RawOk
  <2> QED BY <2>1 DEF TokensInv, RawOk, Right
<1>2. encoded = [j \in 1 .. Len(raw) |-> Delta(raw[j], IF j = 1 THEN NoToken ELSE raw[j - 1])]
  BY <1>1 DEF TokensInv
<1>3. Len(encoded) = Len(raw) /\ N = 0 .. Len(raw)
  BY <1>1, <1>2
<1>4. ASSUME NEW p, NEW j \in 1 .. Len(raw), p[j - 1] = g[j - 1] PROVE Step(p, j) = g[j]
  <2> DEFINE prev == IF j = 1 THEN NoToken ELSE raw[j - 1]
  <2>1. encoded[j] = Delta(raw[j], prev)
    BY <1>2
  <2>2. g[j - 1] = <<prev.line, prev.col>> /\ prev.line \in Nat /\ prev.col \in Int
    BY <1>1, <1>3 DEF NoToken
  <2>3. g[j] = <<raw[j].line, raw[j].col>> /\ raw[j].line \in Nat /\ raw[j].col \in Int
    BY <1>1, <1>3
  <2> HIDE DEF prev, g
  <2>4. CASE raw[j].line = prev.line
    BY <1>4, <2>1, <2>2, <2>3, <2>4 DEF Delta
  <2>5. CASE raw[j].line # prev.line
    BY <1>4, <2>1, <2>2, <2>3, <2>5 DEF Delta
  <2> QED BY <2>4, <2>5
<1>5. Solves(g)
  <2>1. \A j \in N : Step(g, j) = g[j]
    <3> TAKE j \in N
    <3>1. CASE j = 0
      BY <3>1
    <3>2. CASE j # 0
      <4>1. j \in 1 .. Len(raw)
        BY <1>1, <1>3, <3>2
      <4> HIDE DEF Step, g
      <4> QED BY <1>4, <4>1
    <3> QED BY <3>1, <3>2
  <2> HIDE DEF Step
  <2>2. g = [j \in N |-> g[j]]
    OBVIOUS
  <2> HIDE DEF g
  <2> QED BY <2>1, <2>2
<1>6. Decoded = CHOOSE p : Solves(p)
  BY DEF Decoded
<1>7. Solves(Decoded)
  <2> HIDE DEF Solves
  <2> QED BY <1>5, <1>6
<1>8. \A j \in N : Decoded[j] = Step(Decoded, j)
  <2> HIDE DEF Step, N
  <2> QED BY <1>7
<1> DEFINE Bad == {j \in N : Decoded[j] # g[j]}
<1>9. Bad = {}
  <2> SUFFICES ASSUME Bad # {} PROVE FALSE
    OBVIOUS
  <2>1. PICK j \in Bad : \A i \in Bad : j <= i
    <3>1. Bad \subseteq Nat
      BY <1>1, <1>3
    <3> HIDE DEF Bad
    <3> QED BY <3>1, LeastElement
  <2>2. j # 0
    BY <1>3, <1>1, <1>8
  <2>3. j \in 1 .. Len(raw) /\ j - 1 \in N
    BY <1>1, <1>3, <2>2
  <2>4. Decoded[j - 1] = g[j - 1]
    BY <2>1, <2>3
  <2>5. Step(Decoded, j) = g[j]
    <3> HIDE DEF Step, g
    <3> QED BY <1>4, <2>3, <2>4
  <2> HIDE DEF Step, g
  <2> QED BY <1>8, <2>5
<1>10. k \in N /\ k # 0
  BY <1>3
<1> QED BY <1>9, <1>10

(* The invariant is enough for the property.                               *)
LEMMA TokensInvDecoded == TokensInv => DecodedWhereTheyStand
<1> SUFFICES ASSUME TokensInv, mode = "encoded", ~EscapedNewline, NEW k \in DOMAIN raw
             PROVE  Decoded[k] = <<LineOf(raw[k].start), ColOf(raw[k].start)>>
  BY DEF DecodedWhereTheyStand
<1>1. k \in 1 .. Len(raw)
  BY DEF TokensInv, RawOk
<1>2. Stands(raw[k].line, raw[k].col, raw[k].start)
  BY <1>1 DEF TokensInv, RawOk, Right
<1> QED BY <1>1, <1>2, DecodedAsPushed DEF Stands

(* For every document: the client decodes every semantic token at the line *)
(* and the column where it stands, unless a newline is escaped in the      *)
(* document.                                                               *)
THEOREM TokensCorrect == TokensSpec => []DecodedWhereTheyStand
<1>1. TokensInit => TokensInv
  BY TokensInitInv
<1>2. TokensInv /\ [TokensNext]_tokenVars => TokensInv'
  BY TokensStepInv
<1>3. TokensInv => DecodedWhereTheyStand
  BY TokensInvDecoded
<1> QED BY <1>1, <1>2, <1>3, PTL DEF TokensSpec

-----------------------------------------------------------------------------
(***************************************************************************)
(* Discovery: DiscoveryFindsFirst for headers of any number and documents  *)
(* with any number of servers.                                             *)
(***************************************************************************)

(* The least element of a set of positions is in it and no later.          *)
LEMMA MinOfPositions ==
  ASSUME NEW I, I \subseteq Nat, I # {}
  PROVE  Min(I) \in I /\ \A y \in I : Min(I) <= y
<1>1. \E x \in I : \A y \in I : x <= y
  BY LeastElement
<1> QED BY <1>1 DEF Min

(* The first position, if all before it are not in the set.                *)
LEMMA MinIsFirst ==
  ASSUME NEW I, I \subseteq Nat, NEW k \in I, \A j \in I : k <= j
  PROVE  Min(I) = k
<1>1. Min(I) \in I /\ \A y \in I : Min(I) <= y
  BY MinOfPositions
<1>2. Min(I) \in Nat /\ k \in Nat /\ Min(I) <= k /\ k <= Min(I)
  BY <1>1
<1> QED BY <1>2

(* Sequences of sequences over a set flatten to a sequence over the set:   *)
(* by the least prefix for which there is no such flattening.              *)
LEMMA FlattenType ==
  ASSUME NEW U, NEW s \in Seq(Seq(U))
  PROVE  FlattenSeq(s) \in Seq(U)
<1> DEFINE Flat(f, n) == f = [i \in 1 .. n |-> IF i = 1 THEN s[i] ELSE f[i - 1] \o s[i]]
<1>0. Len(s) \in Nat /\ \A i \in 1 .. Len(s) : s[i] \in Seq(U)
  OBVIOUS
<1>1. ASSUME NEW n \in 1 .. Len(s), NEW f, Flat(f, n)
      PROVE  \A i \in 1 .. n : f[i] = (IF i = 1 THEN s[i] ELSE f[i - 1] \o s[i])
  <2> DEFINE g == [i \in 1 .. n |-> IF i = 1 THEN s[i] ELSE f[i - 1] \o s[i]]
  <2>1. \A i \in 1 .. n : g[i] = (IF i = 1 THEN s[i] ELSE f[i - 1] \o s[i])
    OBVIOUS
  <2>2. f = g
    BY <1>1
  <2> HIDE DEF g
  <2> QED BY <2>1, <2>2
<1> HIDE DEF Flat
<1>2. ASSUME NEW n \in 1 .. Len(s), NEW f, Flat(f, n) PROVE \A i \in 1 .. n : f[i] \in Seq(U)
  <2> DEFINE Bad == {i \in 1 .. n : f[i] \notin Seq(U)}
  <2> SUFFICES ASSUME Bad # {} PROVE FALSE
    OBVIOUS
  <2>1. PICK i \in Bad : \A j \in Bad : i <= j
    <3>1. Bad \subseteq Nat
      OBVIOUS
    <3> HIDE DEF Bad
    <3> QED BY <3>1, LeastElement
  <2>2. i \in 1 .. n /\ i \in 1 .. Len(s) /\ f[i] = (IF i = 1 THEN s[i] ELSE f[i - 1] \o s[i])
    BY <1>0, <1>1, <1>2
  <2>3. i # 1 /\ s[i] \in Seq(U)
    BY <1>0, <2>1, <2>2
  <2>4. i - 1 \in 1 .. n /\ i - 1 \notin Bad
    BY <2>1, <2>2, <2>3
  <2>5. f[i - 1] \in Seq(U)
    BY <2>4
  <2>6. f[i] = f[i - 1] \o s[i]
    BY <2>2, <2>3
  <2>7. f[i] \in Seq(U)
    BY <2>3, <2>5, <2>6, ConcatProperties
  <2> QED BY <2>1, <2>7
<1>3. \A n \in 1 .. Len(s) : \E f : Flat(f, n)
  <2> DEFINE Bad == {n \in 1 .. Len(s) : ~\E f : Flat(f, n)}
  <2> SUFFICES ASSUME Bad # {} PROVE FALSE
    OBVIOUS
  <2>1. PICK n \in Bad : \A m \in Bad : n <= m
    <3>1. Bad \subseteq Nat
      BY <1>0
    <3> HIDE DEF Bad
    <3> QED BY <3>1, LeastElement
  <2>2. n \in 1 .. Len(s)
    OBVIOUS
  <2>3. CASE n = 1
    <3> DEFINE f == [i \in 1 .. n |-> s[i]]
    <3>1. \A i \in 1 .. n : f[i] = (IF i = 1 THEN s[i] ELSE f[i - 1] \o s[i])
      BY <2>3
    <3>2. f = [i \in 1 .. n |-> f[i]]
      OBVIOUS
    <3> HIDE DEF f
    <3>3. Flat(f, n)
      BY <3>1, <3>2 DEF Flat
    <3> QED BY <3>3
  <2>4. CASE n # 1
    <3>1. n - 1 \in 1 .. Len(s) /\ n - 1 \notin Bad
      <4>1. n \in Nat /\ n - 1 \in 1 .. Len(s) /\ ~(n <= n - 1)
        BY <1>0, <2>2, <2>4
      <4> HIDE DEF Bad
      <4> QED BY <2>1, <4>1
    <3>2. PICK g : Flat(g, n - 1)
      BY <3>1
    <3>3. \A i \in 1 .. n - 1 : g[i] = (IF i = 1 THEN s[i] ELSE g[i - 1] \o s[i])
      <4> DEFINE m == n - 1
      <4>1. m \in 1 .. Len(s) /\ Flat(g, m)
        BY <3>1, <3>2
      <4> HIDE DEF m
      <4>2. \A i \in 1 .. m : g[i] = (IF i = 1 THEN s[i] ELSE g[i - 1] \o s[i])
        BY <1>1, <4>1
      <4> QED BY <4>2 DEF m
    <3> DEFINE f == [i \in 1 .. n |-> IF i < n THEN g[i] ELSE g[n - 1] \o s[n]]
    <3>4. ASSUME NEW i \in 1 .. n PROVE f[i] = (IF i = 1 THEN s[i] ELSE f[i - 1] \o s[i])
      <4>1. CASE i < n
        <5>1. i \in 1 .. n - 1 /\ f[i] = g[i] /\ (i # 1 => i - 1 \in 1 .. n /\ i - 1 < n)
          BY <4>1, <2>2
        <5>2. i # 1 => f[i - 1] = g[i - 1]
          BY <5>1
        <5> QED BY <3>3, <5>1, <5>2
      <4>2. CASE i = n
        <5>1. i # 1 /\ ~(i < n) /\ n - 1 \in 1 .. n /\ n - 1 < n
          BY <1>0, <4>2, <2>2, <2>4
        <5>3. f[i] = g[n - 1] \o s[n]
          BY <5>1
        <5>2. f[i - 1] = g[n - 1]
          BY <4>2, <5>1
        <5> QED BY <4>2, <5>1, <5>2, <5>3
      <4> QED BY <2>2, <4>1, <4>2
    <3>5. f = [i \in 1 .. n |-> f[i]]
      OBVIOUS
    <3> HIDE DEF f
    <3>6. Flat(f, n)
      BY <3>4, <3>5 DEF Flat
    <3> QED BY <3>6
  <2> QED BY <2>3, <2>4
<1>4. CASE Len(s) = 0
  BY <1>4 DEF FlattenSeq
<1>5. CASE Len(s) # 0
  <2> DEFINE f == CHOOSE f : Flat(f, Len(s))
  <2>1. Len(s) \in 1 .. Len(s)
    BY <1>0, <1>5
  <2>2. FlattenSeq(s) = f[Len(s)]
    BY <1>5 DEF FlattenSeq, Flat
  <2>3. Flat(f, Len(s))
    BY <1>3, <2>1
  <2> HIDE DEF f
  <2> QED BY <1>2, <2>1, <2>2, <2>3
<1> QED BY <1>4, <1>5

-----------------------------------------------------------------------------
(* The urls that are asked for                                             *)
Known == {"resource", "server"} \X {"itself", "linked", "document",
           "protected/path", "path/protected", "protected",
           "oauth/path", "openid/path", "path/openid", "oauth", "openid"}

(* Every site has urls to ask for.                                         *)
LEMMA GeneratedUrls ==
  ASSUME NEW url, url[1] \in {"resource", "server"}
  PROVE  generate_discovery_urls(url) \in Seq(Known) /\ Len(generate_discovery_urls(url)) > 0
<1> DEFINE u == url[1]
           F == {"oauth/path", "openid/path", "path/openid", "oauth", "openid", "document"}
<1>1. \A x \in F : <<u, x>> \in Known
  BY DEF Known
<1> HIDE DEF u
<1>2. << <<u, "oauth/path">>, <<u, "openid/path">>, <<u, "path/openid">>, <<u, "oauth">> >> \in Seq(Known)
  BY <1>1
<1>3. << <<u, "oauth">>, <<u, "openid">> >> \in Seq(Known)
  BY <1>1
<1> QED BY <1>2, <1>3 DEF generate_discovery_urls, u

(* The parts of the urls with names.                                       *)
LEMMA UrlParts ==
  /\ Base[1] = "resource" /\ Base[2] = "itself"
  /\ Server[1] = "server" /\ Server[2] = "itself"
  /\ Document[1] = "server" /\ Document[2] = "document"
  /\ Blank[1] = "" /\ Unresolvable[1] = ""
  /\ Unknown[1] = "" /\ Linked[2] = "linked"
BY DEF Base, Server, Document, Blank, Unresolvable, Unknown, Linked

(* The servers of a document name urls to ask for.                         *)
LEMMA NamedUrlsType ==
  ASSUME NEW doc \in ResourceDocument
  PROVE  NamedUrls(doc) \in Seq(Known)
<1>1. \A c \in Candidate : UrlsOf(c) \in Seq(Known)
  <2> TAKE c \in Candidate
  <2>1. CASE c \in {Blank, Unresolvable}
    <3>1. UrlsOf(c) = <<>>
      <4>1. c # Document
        <5>1. c[1] = "" /\ Document[1] = "server"
          BY <2>1, UrlParts
        <5> QED BY <5>1
      <4> QED BY <2>1, <4>1 DEF UrlsOf
    <3> QED BY <3>1
  <2>2. CASE c = Document
    BY <2>2 DEF UrlsOf, Known, Document, Blank, Unresolvable
  <2>3. CASE c \in {Base, Server}
    <3>1. UrlsOf(c) = generate_discovery_urls(c)
      <4>1. c \notin {Blank, Unresolvable} /\ c # Document
        <5>1. c[1] # "" /\ c[2] # "document"
          BY <2>3, UrlParts
        <5>2. Blank[1] = "" /\ Unresolvable[1] = "" /\ Document[2] = "document"
          BY UrlParts
        <5> QED BY <5>1, <5>2
      <4> QED BY <4>1 DEF UrlsOf
    <3>2. c[1] \in {"resource", "server"}
      BY <2>3 DEF Base, Server
    <3> QED BY <3>1, <3>2, GeneratedUrls
  <2> QED BY <2>1, <2>2, <2>3 DEF Candidate
<1>2. doc.servers \in Seq(Candidate)
  BY DEF ResourceDocument, BoundedSeq, SeqOf
<1>3. [i \in DOMAIN doc.servers |-> UrlsOf(doc.servers[i])] \in Seq(Seq(Known))
  <2>1. Len(doc.servers) \in Nat /\ DOMAIN doc.servers = 1 .. Len(doc.servers)
        /\ \A i \in DOMAIN doc.servers : doc.servers[i] \in Candidate
    BY <1>2
  <2>2. \A i \in DOMAIN doc.servers : UrlsOf(doc.servers[i]) \in Seq(Known)
    BY <1>1, <2>1
  <2> QED BY <2>1, <2>2
<1> QED BY <1>3, FlattenType DEF NamedUrls

(* Two sequences after each other, by position                             *)
LEMMA FirstLinkFound ==
  ASSUME NEW headers \in Challenge
  PROVE  FirstLink(headers) # 0 <=> \E i \in DOMAIN headers : Links(headers[i])
<1> DEFINE I == {i \in 1 .. Len(headers) : Links(headers[i])}
<1>1. FirstLink(headers) = IF I # {} THEN Min(I) ELSE 0
  BY DEF FirstLink, SelectInSeq
<1>2. Len(headers) \in Nat /\ DOMAIN headers = 1 .. Len(headers)
  BY DEF Challenge, BoundedSeq, SeqOf
<1>3. I # {} => Min(I) \in I
  BY <1>2, MinOfPositions
<1>4. 0 \notin I
  BY <1>2
<1> QED BY <1>1, <1>2, <1>3, <1>4

-----------------------------------------------------------------------------
(* The places of the resource's description                                *)

(* There is a place to ask for the description.                            *)
LEMMA ResourcePlacesType == OwnPlaces \in Seq(Known) /\ Len(OwnPlaces) > 0
<1>1. \A x \in {"itself", "protected/path", "path/protected", "protected"} : <<Base[1], x>> \in Known
  BY UrlParts DEF Known
<1>2. Base \in Known
  BY DEF Base, Known
<1> DEFINE b == Base[1]
<1>3. \A x \in {"itself", "protected/path", "path/protected", "protected"} : <<b, x>> \in Known
  BY <1>1
<1>4. well_known_paths = (IF b \in paths
                         THEN << <<b, "protected/path">>, <<b, "path/protected">>, <<b, "protected">> >>
                         ELSE << <<b, "protected">> >>)
  BY DEF well_known_paths
<1> HIDE DEF b
<1>5. << <<b, "protected/path">>, <<b, "path/protected">>, <<b, "protected">> >> \in Seq(Known)
  BY <1>3
<1>6. << <<b, "protected">> >> \in Seq(Known)
  BY <1>3
<1>7. well_known_paths \in Seq(Known)
  BY <1>4, <1>5, <1>6
<1>8. <<Base>> \in Seq(Known) /\ Len(<<Base>>) = 1
  BY <1>2
<1> QED BY <1>7, <1>8, ConcatProperties DEF OwnPlaces

(* What stands for no url is never asked for.                              *)
LEMMA UnknownIsNot == Unknown \notin Known
<1>1. \A u \in Known : u[1] \in {"resource", "server"}
  BY DEF Known
<1> QED BY <1>1, UrlParts

(* What is left of a sequence from k to e                                  *)
Rest(t, s, k, e) == /\ t \in Seq(Known) /\ Len(t) = (e - k) + 1
                    /\ \A i \in 1 .. Len(t) : t[i] = s[(k + i) - 1]

(* The head of the rest is the k-th, and its tail the rest from the next.  *)
LEMMA RestHead ==
  ASSUME NEW t, NEW s, NEW k \in Nat, NEW e \in Nat, k <= e, Rest(t, s, k, e)
  PROVE  Head(t) = s[k] /\ Head(t) \in Known /\ (Len(t) > 1 <=> k < e)
         /\ (k < e => Rest(Tail(t), s, k + 1, e))
<1>1. t \in Seq(Known) /\ Len(t) = (e - k) + 1 /\ t # <<>> /\ \A i \in 1 .. Len(t) : t[i] = s[(k + i) - 1]
  BY DEF Rest
<1>2. Head(t) = t[1] /\ 1 \in 1 .. Len(t) /\ (k + 1) - 1 = k
  BY <1>1
<1>3. Head(t) = s[k] /\ Head(t) \in Known
  BY <1>1, <1>2
<1>4. Tail(t) \in Seq(Known) /\ Len(Tail(t)) = Len(t) - 1 /\ \A i \in 1 .. Len(Tail(t)) : Tail(t)[i] = t[i + 1]
  BY <1>1, HeadTailProperties
<1>5. ASSUME NEW i \in 1 .. Len(Tail(t)) PROVE Tail(t)[i] = s[((k + 1) + i) - 1]
  <2>1. i + 1 \in 1 .. Len(t) /\ (k + (i + 1)) - 1 = ((k + 1) + i) - 1
    BY <1>1, <1>4
  <2> QED BY <1>1, <1>4, <2>1
<1>6. Len(Tail(t)) = (e - (k + 1)) + 1
  BY <1>1, <1>4
<1>7. Rest(Tail(t), s, k + 1, e)
  BY <1>4, <1>5, <1>6 DEF Rest
<1>8. Len(t) > 1 <=> k < e
  BY <1>1
<1> QED BY <1>3, <1>7, <1>8

(* The whole of the first or of the second of two sequences                *)
LEMMA RestWhole ==
  ASSUME NEW a \in Seq(Known), NEW b \in Seq(Known)
  PROVE  /\ a \o b \in Seq(Known) /\ Len(a \o b) = Len(a) + Len(b)
         /\ Rest(a, a \o b, 1, Len(a)) /\ Rest(a, a, 1, Len(a))
         /\ Rest(b, a \o b, Len(a) + 1, Len(a) + Len(b))
<1>1. /\ a \o b \in Seq(Known) /\ Len(a \o b) = Len(a) + Len(b)
      /\ \A i \in 1 .. Len(a) + Len(b) : (a \o b)[i] = IF i <= Len(a) THEN a[i] ELSE b[i - Len(a)]
  BY ConcatProperties
<1>2. Len(a) \in Nat /\ Len(b) \in Nat
  OBVIOUS
<1> DEFINE c == a \o b
<1> HIDE DEF c
<1>3. ASSUME NEW i \in 1 .. Len(a) PROVE a[i] = c[(1 + i) - 1] /\ a[i] = a[(1 + i) - 1]
  <2>1. (1 + i) - 1 = i /\ i \in 1 .. Len(a) + Len(b) /\ i <= Len(a)
    BY <1>2
  <2> QED BY <1>1, <2>1 DEF c
<1>4. ASSUME NEW i \in 1 .. Len(b) PROVE b[i] = c[((Len(a) + 1) + i) - 1]
  <2>1. ((Len(a) + 1) + i) - 1 = Len(a) + i /\ Len(a) + i \in 1 .. Len(a) + Len(b)
        /\ ~(Len(a) + i <= Len(a)) /\ (Len(a) + i) - Len(a) = i
    BY <1>2
  <2> QED BY <1>1, <2>1 DEF c
<1>5. Len(a) = (Len(a) - 1) + 1 /\ Len(b) = ((Len(a) + Len(b)) - (Len(a) + 1)) + 1
  BY <1>2
<1> QED BY <1>1, <1>3, <1>4, <1>5 DEF Rest, c

-----------------------------------------------------------------------------
(* What the search goes by: a place of the resource that answers 200       *)
(* settles it, whatever the answer is.                                     *)
SettlesOn(url) == Describes(url) \/ Kind(url) = "garbled"
Subject ==
  LET first == SelectInSeq(OwnPlaces, SettlesOn)
  IN  IF first = 0 THEN Unknown ELSE IF Kind(OwnPlaces[first]) = "unauthorized" THEN Linked ELSE OwnPlaces[first]
Search == (IF Kind(Subject) = "resource" THEN NamedUrls(world[Subject].doc) ELSE <<>>)
          \o generate_discovery_urls(Base)
SearchIsExact ==
  stage \in {"discovered", "NoAuthorizationSupport", "failed"} =>
    LET first == SelectInSeq(Search, LAMBDA u : Kind(u) # "no")
    IN  CASE stage = "discovered" -> first # 0 /\ Kind(Search[first]) = "metadata" /\ found = Search[first]
          [] stage = "failed" -> first # 0 /\ Kind(Search[first]) = "unreadable"
          [] OTHER -> first = 0

(* What was asked and told nothing                                         *)
Tried(u) == u \in DOMAIN world /\ ~SettlesOn(u)
(* None of the first places told anything.                                 *)
Untold(k) == \A j \in 1 .. k - 1 : Tried(OwnPlaces[j])

(* The description was found, and resource_metadata_url says where         *)
Told == \E k \in 1 .. Len(OwnPlaces) :
          /\ Untold(k) /\ SettlesOn(OwnPlaces[k])
          /\ resource_metadata_url = IF Kind(OwnPlaces[k]) = "unauthorized" THEN Linked ELSE OwnPlaces[k]

(* The description is the one at resource_metadata_url.                    *)
LEMMA DescriptionTold ==
  ASSUME Told
  PROVE  Subject = resource_metadata_url
<1>1. PICK k \in 1 .. Len(OwnPlaces) :
          /\ Untold(k) /\ SettlesOn(OwnPlaces[k])
          /\ resource_metadata_url = IF Kind(OwnPlaces[k]) = "unauthorized" THEN Linked ELSE OwnPlaces[k]
  BY DEF Told
<1> DEFINE I == {i \in 1 .. Len(OwnPlaces) : SettlesOn(OwnPlaces[i])}
           first == IF I # {} THEN Min(I) ELSE 0
<1>2. Subject = IF first = 0 THEN Unknown
                    ELSE IF Kind(OwnPlaces[first]) = "unauthorized" THEN Linked ELSE OwnPlaces[first]
  BY DEF Subject, SelectInSeq, OwnPlaces
<1>3. Len(OwnPlaces) \in Nat
  BY ResourcePlacesType
<1>4. k \in I /\ I \subseteq Nat
  BY <1>1, <1>3
<1>5. \A j \in I : k <= j
  <2> SUFFICES ASSUME NEW j \in I, j < k PROVE FALSE
    BY <1>3
  <2>1. j \in 1 .. k - 1
    BY <1>3
  <2> QED BY <1>1, <2>1 DEF Untold, Tried
<1> HIDE DEF I
<1>6. Min(I) = k
  BY <1>4, <1>5, MinIsFirst
<1>7. first = k /\ k # 0
  BY <1>3, <1>4, <1>6
<1> HIDE DEF first
<1> QED BY <1>1, <1>2, <1>7

(* There is no description.                                                *)
LEMMA DescriptionUntold ==
  ASSUME Untold(Len(OwnPlaces) + 1)
  PROVE  Subject = Unknown
<1>1. Len(OwnPlaces) \in Nat
  BY ResourcePlacesType
<1>2. \A j \in 1 .. Len(OwnPlaces) : ~SettlesOn(OwnPlaces[j])
  BY <1>1 DEF Untold, Tried
<1> QED BY <1>2 DEF Subject, SelectInSeq, OwnPlaces

-----------------------------------------------------------------------------
(* A url has been asked for: what was known stays known.                   *)
Grows(url, answer) ==
  /\ DOMAIN world' = DOMAIN world \cup {url}
  /\ \A u \in DOMAIN world : world'[u] = world[u]
  /\ world'[url] = answer
  /\ paths' = paths

(* A request adds what it was answered.                                    *)
LEMMA AskedGrows ==
  ASSUME NEW url, NEW answer, Asked(url, answer), paths' = paths
  PROVE  Grows(url, answer)
BY DEF Asked, Grows

(* What a url told does not change.                                        *)
LEMMA GrowsKeeps ==
  ASSUME NEW url, NEW answer, Grows(url, answer)
  PROVE  /\ \A u \in DOMAIN world : /\ u \in DOMAIN world' /\ Kind(u)' = Kind(u) /\ SettlesOn(u)' = SettlesOn(u)
                                   /\ Tried(u)' = Tried(u)
         /\ Kind(url)' = answer.kind
         /\ \A u : u # url /\ u \notin DOMAIN world => Kind(u)' = "not asked"
         /\ OwnPlaces' = OwnPlaces
         /\ \A u : SettlesOn(u) => u \in DOMAIN world
<1>1. \A u \in DOMAIN world : u \in DOMAIN world' /\ world'[u] = world[u]
  BY DEF Grows
<1>2. \A u \in DOMAIN world : Kind(u)' = Kind(u)
  BY <1>1 DEF Kind
<1>3. \A u \in DOMAIN world : SettlesOn(u)' = SettlesOn(u)
  BY <1>1, <1>2 DEF SettlesOn, Describes
<1>4. \A u \in DOMAIN world : Tried(u)' = Tried(u)
  BY <1>1, <1>3 DEF Tried
<1>5. Kind(url)' = answer.kind /\ \A u : u # url /\ u \notin DOMAIN world => Kind(u)' = "not asked"
  BY DEF Kind, Grows
<1>6. OwnPlaces' = OwnPlaces
  BY DEF Grows, OwnPlaces, well_known_paths
<1>7. \A u : SettlesOn(u) => u \in DOMAIN world
  BY DEF SettlesOn, Describes, Kind
<1> QED BY <1>1, <1>2, <1>3, <1>4, <1>5, <1>6, <1>7

(* Places that told nothing tell nothing later.                            *)
LEMMA UntoldStays ==
  ASSUME NEW url, NEW answer, Grows(url, answer), NEW k, Untold(k)
  PROVE  Untold(k)'
BY GrowsKeeps DEF Untold, Tried

(* The description stays where it was found.                               *)
LEMMA ToldStays ==
  ASSUME NEW url, NEW answer, Grows(url, answer), Told, resource_metadata_url' = resource_metadata_url
  PROVE  Told'
<1>1. PICK k \in 1 .. Len(OwnPlaces) :
          /\ Untold(k) /\ SettlesOn(OwnPlaces[k])
          /\ resource_metadata_url = IF Kind(OwnPlaces[k]) = "unauthorized" THEN Linked ELSE OwnPlaces[k]
  BY DEF Told
<1>2. Untold(k)'
  BY <1>1, UntoldStays
<1>3. /\ SettlesOn(OwnPlaces[k])' /\ Kind(OwnPlaces[k])' = Kind(OwnPlaces[k])
      /\ OwnPlaces' = OwnPlaces
  <2>1. OwnPlaces[k] \in DOMAIN world /\ OwnPlaces' = OwnPlaces
    BY <1>1, GrowsKeeps
  <2> DEFINE u == OwnPlaces[k]
  <2>2. \A v : v = u => (SettlesOn(v)' /\ Kind(v)' = Kind(v))
    BY <1>1, <2>1, GrowsKeeps
  <2> QED BY <2>1, <2>2 DEF SettlesOn, Describes, Kind
<1> QED BY <1>1, <1>2, <1>3 DEF Told

-----------------------------------------------------------------------------
(* The places the description names, before the resource's own             *)
Before == IF Kind(Subject) = "resource" THEN NamedUrls(world[Subject].doc) ELSE <<>>

(* The resource was described or turned out not to be.                     *)
Settled == \/ Untold(Len(OwnPlaces) + 1) /\ Unknown \notin DOMAIN world
           \/ Told /\ resource_metadata_url \in DOMAIN world

(* A description that was read is a document.                              *)
WorldOk == \A u \in DOMAIN world : world[u].kind = "resource" => world[u].doc \in ResourceDocument

(* The search is at the k-th place: nothing was at those before it.        *)
SearchAt(k) ==
  /\ k \in 1 .. Len(Search)
  /\ \A j \in 1 .. k - 1 : Kind(Search[j]) = "no"
  /\ stage = "servers" => k <= Len(Before) /\ Rest(todo, Search, k, Len(Before))
  /\ stage = "direct" => k > Len(Before) /\ Rest(todo, Search, k, Len(Search))

(* The invariant of the discovery: while it probes, the places before told *)
(* nothing; then the description is settled; and while it searches, there  *)
(* was nothing at the places before.                                       *)
DiscoveryInv ==
  /\ WorldOk
  /\ stage = "probe" => /\ Unknown \notin DOMAIN world
                        /\ \E k \in 1 .. Len(OwnPlaces) :
                             Untold(k) /\ Rest(todo, OwnPlaces, k, Len(OwnPlaces))
  /\ stage = "resource" => Told
  /\ stage \in {"servers", "direct"} => Settled /\ \E k \in Nat : SearchAt(k)
  /\ SearchIsExact

(* The places to search are the named ones and then the resource's own, of *)
(* which there is one.                                                     *)
LEMMA PlacesType ==
  ASSUME WorldOk
  PROVE  /\ Before \in Seq(Known) /\ Search = Before \o generate_discovery_urls(Base)
         /\ Search \in Seq(Known) /\ Len(Before) < Len(Search)
         /\ generate_discovery_urls(Base) \in Seq(Known)
         /\ Len(Search) = Len(Before) + Len(generate_discovery_urls(Base))
<1>1. Kind(Subject) = "resource" => world[Subject].doc \in ResourceDocument
  BY DEF WorldOk, Kind
<1>2. Before \in Seq(Known)
  BY <1>1, NamedUrlsType DEF Before
<1>3. generate_discovery_urls(Base) \in Seq(Known) /\ Len(generate_discovery_urls(Base)) > 0
  <2>1. Base[1] \in {"resource", "server"}
    BY UrlParts
  <2> QED BY <2>1, GeneratedUrls
<1>4. Search = Before \o generate_discovery_urls(Base)
  BY DEF Search, Before
<1>5. Search \in Seq(Known) /\ Len(Search) = Len(Before) + Len(generate_discovery_urls(Base))
  BY <1>2, <1>3, <1>4, RestWhole
<1>6. Len(Before) \in Nat /\ Len(generate_discovery_urls(Base)) \in Nat
  BY <1>2, <1>3
<1> QED BY <1>2, <1>3, <1>4, <1>5, <1>6

(* Once the description is settled, an answer does not move the places.    *)
LEMMA PlacesStay ==
  ASSUME NEW url \in Known, NEW answer, Grows(url, answer), Settled,
         resource_metadata_url' = resource_metadata_url
  PROVE  Settled' /\ Before' = Before /\ Search' = Search
<1>1. Settled' /\ Subject' = Subject
      /\ (Subject \in DOMAIN world \/ (Subject # url /\ Kind(Subject) # "resource"))
  <2>1. CASE Untold(Len(OwnPlaces) + 1) /\ Unknown \notin DOMAIN world
    <3>1. OwnPlaces' = OwnPlaces
      BY GrowsKeeps
    <3>2. \A k : Untold(k) => Untold(k)'
      BY UntoldStays
    <3>3. Untold(Len(OwnPlaces) + 1)'
      BY <2>1, <3>1, <3>2 DEF Untold
    <3>4. Unknown \notin DOMAIN world'
      BY <2>1, UnknownIsNot DEF Grows
    <3>5. Subject = Unknown
      BY <2>1, DescriptionUntold
    <3>6. (Untold(Len(OwnPlaces) + 1) => Subject = Unknown)'
      BY DescriptionUntold, PTL
    <3> QED BY <2>1, <3>3, <3>4, <3>5, <3>6, UnknownIsNot DEF Settled, Kind, Unknown
  <2>2. CASE Told /\ resource_metadata_url \in DOMAIN world
    <3>1. Told'
      BY <2>2, ToldStays
    <3>2. (Told => Subject = resource_metadata_url)'
      BY DescriptionTold, PTL
    <3>3. resource_metadata_url' \in DOMAIN world'
      BY <2>2 DEF Grows
    <3> QED BY <2>2, <3>1, <3>2, <3>3, DescriptionTold DEF Settled
  <2> QED BY <2>1, <2>2 DEF Settled
<1> DEFINE D == Subject
<1>2. \A d : NamedUrls(d)' = NamedUrls(d)
  BY DEF NamedUrls, UrlsOf, generate_discovery_urls, Grows
<1>3. generate_discovery_urls(Base)' = generate_discovery_urls(Base)
  BY DEF generate_discovery_urls, Grows, Base
<1>4. CASE Subject \in DOMAIN world
  <2>1. \A v : v = Subject => Kind(v)' = Kind(v) /\ world'[v] = world[v]
    BY <1>4, GrowsKeeps DEF Grows
  <2>2. Kind(Subject)' = Kind(Subject) /\ world'[Subject'] = world[Subject]
    BY <1>1, <2>1 DEF Kind
  <2>3. Before' = Before
    BY <1>2, <2>2 DEF Before
  <2> QED BY <1>1, <1>3, <2>3 DEF Search, Before
<1>5. CASE Subject \notin DOMAIN world
  <2>1. Subject # url /\ Kind(Subject) # "resource"
    BY <1>1, <1>5
  <2>2. \A v : v = Subject => Kind(v)' = "not asked"
    BY <1>5, <2>1, GrowsKeeps
  <2>3. Kind(Subject)' = "not asked"
    BY <1>1, <2>2 DEF Kind
  <2>4. Before' = <<>> /\ Before = <<>>
    BY <2>1, <2>3 DEF Before
  <2> QED BY <1>1, <1>3, <2>4 DEF Search, Before
<1> QED BY <1>1, <1>4, <1>5

(* An answer is typed as what was asked for.                               *)
LEMMA WorldStaysOk ==
  ASSUME WorldOk, NEW url, NEW answer, Grows(url, answer),
         answer.kind = "resource" => answer.doc \in ResourceDocument
  PROVE  WorldOk'
BY DEF WorldOk, Grows

(* The first place at which there was anything                             *)
LEMMA FirstPlace ==
  ASSUME NEW k \in Nat, k \in 1 .. Len(Search), \A j \in 1 .. k - 1 : Kind(Search[j]) = "no",
         Kind(Search[k]) # "no", Len(Search) \in Nat
  PROVE  SelectInSeq(Search, LAMBDA u : Kind(u) # "no") = k
<1> DEFINE I == {i \in 1 .. Len(Search) : Kind(Search[i]) # "no"}
<1>1. SelectInSeq(Search, LAMBDA u : Kind(u) # "no") = IF I # {} THEN Min(I) ELSE 0
  BY DEF SelectInSeq
<1>2. k \in I /\ I \subseteq Nat
  OBVIOUS
<1>3. \A j \in I : k <= j
  <2> SUFFICES ASSUME NEW j \in I, j < k PROVE FALSE
    OBVIOUS
  <2>1. j \in 1 .. k - 1
    OBVIOUS
  <2> QED BY <2>1
<1> HIDE DEF I
<1>4. Min(I) = k
  BY <1>2, <1>3, MinIsFirst
<1> QED BY <1>1, <1>2, <1>4

(* The same for all positions.                                             *)
LEMMA EveryFirstPlace ==
  \A n \in Nat : (/\ n \in 1 .. Len(Search) /\ \A j \in 1 .. n - 1 : Kind(Search[j]) = "no"
                  /\ Kind(Search[n]) # "no" /\ Len(Search) \in Nat) =>
     SelectInSeq(Search, LAMBDA u : Kind(u) # "no") = n
BY FirstPlace

(* There was nothing anywhere.                                             *)
LEMMA NoPlace ==
  ASSUME \A j \in 1 .. Len(Search) : Kind(Search[j]) = "no"
  PROVE  SelectInSeq(Search, LAMBDA u : Kind(u) # "no") = 0
BY DEF SelectInSeq

-----------------------------------------------------------------------------
(* Nothing was asked for yet.                                              *)
LEMMA DiscoveryInitInv == DiscoveryInit => DiscoveryInv
<1> SUFFICES ASSUME DiscoveryInit PROVE DiscoveryInv
  OBVIOUS
<1>1. DOMAIN world = {} /\ stage = "probe" /\ todo = OwnPlaces
  BY DEF DiscoveryInit, DiscoveryCalled, OwnPlaces
<1>2. 1 \in 1 .. Len(OwnPlaces) /\ Untold(1)
  BY ResourcePlacesType DEF Untold
<1>3. Rest(todo, OwnPlaces, 1, Len(OwnPlaces))
  BY <1>1, ResourcePlacesType, RestWhole
<1>4. WorldOk
  BY <1>1 DEF WorldOk
<1>5. SearchIsExact
  BY <1>1 DEF SearchIsExact
<1> QED BY <1>1, <1>2, <1>3, <1>4, <1>5 DEF DiscoveryInv

(* The search begins with the named servers, or with the resource's host.  *)
LEMMA SearchBegins ==
  ASSUME WorldOk',
         \/ stage' = "servers" /\ Before' # <<>> /\ todo' = Before'
         \/ stage' = "direct" /\ Before' = <<>> /\ todo' = generate_discovery_urls(Base)'
  PROVE  SearchAt(1)'
<1>1. (/\ Before \in Seq(Known) /\ Search = Before \o generate_discovery_urls(Base)
       /\ Search \in Seq(Known) /\ Len(Before) < Len(Search)
       /\ generate_discovery_urls(Base) \in Seq(Known)
       /\ Len(Search) = Len(Before) + Len(generate_discovery_urls(Base)))'
  BY PlacesType, PTL
<1> DEFINE b == Before'
           d == generate_discovery_urls(Base)'
           p == Search'
<1>2. /\ b \in Seq(Known) /\ d \in Seq(Known) /\ p = b \o d /\ p \in Seq(Known) /\ Len(b) < Len(p)
      /\ Len(p) = Len(b) + Len(d)
  BY <1>1
<1>3. \/ stage' = "servers" /\ b # <<>> /\ todo' = b
      \/ stage' = "direct" /\ b = <<>> /\ todo' = d
  OBVIOUS
<1> SUFFICES /\ 1 \in 1 .. Len(p)
             /\ stage' = "servers" => 1 <= Len(b) /\ Rest(todo', p, 1, Len(b))
             /\ stage' = "direct" => 1 > Len(b) /\ Rest(todo', p, 1, Len(p))
  BY DEF SearchAt, Rest
<1> HIDE DEF b, d, p
<1>4. Len(b) \in Nat /\ Len(d) \in Nat /\ 1 \in 1 .. Len(p)
  BY <1>2
<1>5. CASE stage' = "servers"
  <2>1. b # <<>> /\ todo' = b
    BY <1>3, <1>5
  <2>2. Rest(b, p, 1, Len(b)) /\ 1 <= Len(b)
    BY <1>2, <2>1, RestWhole
  <2> QED BY <1>4, <1>5, <2>1, <2>2
<1>6. CASE stage' = "direct"
  <2>1. b = <<>> /\ todo' = d /\ Len(b) = 0
    BY <1>3, <1>6
  <2>2. Rest(d, p, Len(b) + 1, Len(b) + Len(d))
    BY <1>2, RestWhole
  <2>3. Len(b) + 1 = 1 /\ Len(b) + Len(d) = Len(p)
    BY <1>2, <2>1
  <2>4. Rest(d, p, 1, Len(p))
    BY <2>2, <2>3
  <2> QED BY <1>4, <1>6, <2>1, <2>4
<1> QED BY <1>3, <1>5, <1>6

(* A place of the description is asked: it is the first that tells, or the *)
(* next place is tried, or there is no description.                        *)
LEMMA ProbeInv ==
  ASSUME DiscoveryInv, NEW answer \in ResourceAnswer, ProbeResource(answer)
  PROVE  DiscoveryInv'
<1>0. PICK url : url = Head(todo)
  OBVIOUS
<1>1. /\ stage = "probe" /\ paths' = paths /\ Asked(url, answer) /\ Unknown \notin DOMAIN world /\ WorldOk
  BY <1>0 DEF ProbeResource, DiscoveryInv
<1>2. PICK k \in 1 .. Len(OwnPlaces) : Untold(k) /\ Rest(todo, OwnPlaces, k, Len(OwnPlaces))
  BY <1>1 DEF DiscoveryInv
<1>3. Grows(url, answer)
  BY <1>1, AskedGrows
<1>4. Len(OwnPlaces) \in Nat /\ k \in Nat /\ k <= Len(OwnPlaces)
  BY ResourcePlacesType
<1>5. /\ url = OwnPlaces[k] /\ url \in Known
      /\ Len(todo) > 1 <=> k < Len(OwnPlaces)
      /\ k < Len(OwnPlaces) => Rest(Tail(todo), OwnPlaces, k + 1, Len(OwnPlaces))
  BY <1>0, <1>2, <1>4, RestHead
<1>6. answer.kind = "resource" => answer.doc \in ResourceDocument
  BY DEF ResourceAnswer
<1>7. WorldOk'
  BY <1>1, <1>3, <1>6, WorldStaysOk
<1>8. Unknown \notin DOMAIN world' /\ OwnPlaces' = OwnPlaces /\ Untold(k)'
  BY <1>1, <1>2, <1>3, <1>5, UnknownIsNot, GrowsKeeps, UntoldStays DEF Grows
<1>9. url \in DOMAIN world' /\ world'[url] = answer /\ Kind(url)' = answer.kind
  BY <1>3, GrowsKeeps DEF Grows
<1>10. answer.kind = "unauthorized" => answer.headers \in Challenge
  BY DEF ResourceAnswer
<1>11. SettlesOn(url)' <=> \/ answer.kind \in {"garbled", "resource"}
                           \/ answer.kind = "unauthorized" /\ FirstLink(answer.headers) # 0
  BY <1>9, <1>10, FirstLinkFound DEF SettlesOn, Describes
<1>12. stage' \notin {"discovered", "NoAuthorizationSupport", "failed"} => SearchIsExact'
  BY DEF SearchIsExact
<1>13. ASSUME stage' = "resource", SettlesOn(url)',
              resource_metadata_url' = IF answer.kind = "unauthorized" THEN Linked ELSE url
       PROVE  DiscoveryInv'
  <2>1. OwnPlaces'[k] = url /\ k \in 1 .. Len(OwnPlaces')
    BY <1>5, <1>8
  <2>2. Told'
    BY <1>8, <1>9, <1>13, <2>1 DEF Told
  <2> QED BY <1>7, <1>12, <1>13, <2>2 DEF DiscoveryInv
<1>14. CASE answer.kind \in {"garbled", "resource"}
  <2>1. stage' = "resource" /\ resource_metadata_url' = url
    BY <1>0, <1>14 DEF ProbeResource, Falls
  <2> QED BY <1>11, <1>13, <1>14, <2>1
<1>15. CASE answer.kind = "unauthorized" /\ FirstLink(answer.headers) # 0
  <2>1. stage' = "resource" /\ resource_metadata_url' = Linked
    BY <1>0, <1>15 DEF ProbeResource, Falls
  <2> QED BY <1>11, <1>13, <1>15, <2>1
<1>16. CASE \/ answer.kind = "no"
            \/ answer.kind = "unauthorized" /\ FirstLink(answer.headers) = 0
  <2>1. IF Len(todo) > 1 THEN Falls("probe", Tail(todo)) ELSE Falls("direct", generate_discovery_urls(Base))
    BY <1>16 DEF ProbeResource
  <2>2. ~SettlesOn(url)'
    BY <1>11, <1>16
  <2>3. Untold(k + 1)'
    <3>1. Tried(OwnPlaces[k])'
      BY <1>5, <1>8, <1>9, <2>2 DEF Tried, SettlesOn, Describes, Kind
    <3>2. \A j \in 1 .. (k + 1) - 1 : j = k \/ j \in 1 .. k - 1
      BY <1>4
    <3> QED BY <1>8, <3>1, <3>2 DEF Untold
  <2>4. CASE k < Len(OwnPlaces)
    <3>1. stage' = "probe" /\ todo' = Tail(todo)
      BY <1>5, <2>1, <2>4 DEF Falls
    <3>2. Rest(todo, OwnPlaces, k + 1, Len(OwnPlaces))'
      BY <1>5, <1>8, <2>4, <3>1 DEF Rest
    <3>3. k + 1 \in 1 .. Len(OwnPlaces')
      BY <1>4, <1>8, <2>4
    <3> QED BY <1>7, <1>8, <1>12, <2>3, <3>1, <3>2, <3>3 DEF DiscoveryInv
  <2>5. CASE k = Len(OwnPlaces)
    <3>1. stage' = "direct" /\ todo' = generate_discovery_urls(Base)
      BY <1>4, <1>5, <2>1, <2>5 DEF Falls
    <3>2. Untold(Len(OwnPlaces) + 1)'
      BY <1>8, <2>3, <2>5 DEF Untold
    <3>3. (Untold(Len(OwnPlaces) + 1) => Subject = Unknown)'
      BY DescriptionUntold, PTL
    <3>4. Kind(Unknown)' = "not asked"
      BY <1>8 DEF Kind, Unknown
    <3>5. Before' = <<>>
      BY <3>2, <3>3, <3>4 DEF Before
    <3>6. generate_discovery_urls(Base)' = generate_discovery_urls(Base)
      BY <1>1 DEF generate_discovery_urls, Base
    <3>7. SearchAt(1)'
      BY <1>7, <3>1, <3>5, <3>6, SearchBegins
    <3>8. Settled'
      BY <1>8, <3>2 DEF Settled
    <3>9. 1 \in Nat
      OBVIOUS
    <3> QED BY <1>7, <1>12, <3>1, <3>7, <3>8, <3>9 DEF DiscoveryInv
  <2> QED BY <1>4, <2>4, <2>5
<1> QED BY <1>14, <1>15, <1>16 DEF ProbeResource

(* The description is read, or turns out to be unreadable.                 *)
LEMMA FetchResourceInv ==
  ASSUME DiscoveryInv, NEW answer \in ResourceAnswer, FetchResource(answer)
  PROVE  DiscoveryInv'
<1>0. PICK url : url = resource_metadata_url
  OBVIOUS
<1>1. /\ stage = "resource" /\ paths' = paths /\ Asked(url, answer) /\ Told /\ WorldOk
      /\ resource_metadata_url' = resource_metadata_url
  BY <1>0 DEF FetchResource, DiscoveryInv
<1>2. Grows(url, answer)
  BY <1>1, AskedGrows
<1>3. answer.kind = "resource" => answer.doc \in ResourceDocument
  BY DEF ResourceAnswer
<1>4. WorldOk'
  BY <1>1, <1>2, <1>3, WorldStaysOk
<1>5. Told'
  BY <1>1, <1>2, ToldStays
<1>6. Settled'
  BY <1>0, <1>1, <1>2, <1>5 DEF Settled, Grows
<1>7. (Told => Subject = resource_metadata_url)'
  BY DescriptionTold, PTL
<1>8. Subject' = url
  BY <1>0, <1>1, <1>5, <1>7
<1>9. Kind(Subject)' = answer.kind /\ world'[Subject'] = answer
  BY <1>2, <1>8 DEF Kind, Grows
<1>10. \A d : NamedUrls(d)' = NamedUrls(d)
  BY <1>1 DEF NamedUrls, UrlsOf, generate_discovery_urls
<1>11. generate_discovery_urls(Base)' = generate_discovery_urls(Base)
  BY <1>1 DEF generate_discovery_urls, Base
<1>12. ASSUME stage' \in {"servers", "direct"}, SearchAt(1)' PROVE DiscoveryInv'
  <2>1. SearchIsExact'
    BY <1>12 DEF SearchIsExact
  <2>2. 1 \in Nat
    OBVIOUS
  <2> QED BY <1>4, <1>6, <1>12, <2>1, <2>2 DEF DiscoveryInv
<1>13. CASE answer.kind = "resource" /\ NamedUrls(answer.doc) # <<>>
  <2>1. stage' = "servers" /\ todo' = NamedUrls(answer.doc)
    BY <1>13 DEF FetchResource, Falls
  <2>2. Before' = NamedUrls(answer.doc)
    BY <1>9, <1>10, <1>13 DEF Before
  <2>3. SearchAt(1)'
    BY <1>4, <1>13, <2>1, <2>2, SearchBegins
  <2> QED BY <1>12, <2>1, <2>3
<1>14. CASE ~(answer.kind = "resource" /\ NamedUrls(answer.doc) # <<>>)
  <2>1. stage' = "direct" /\ todo' = generate_discovery_urls(Base)
    BY <1>14 DEF FetchResource, Falls
  <2>2. Before' = <<>>
    BY <1>9, <1>10, <1>14 DEF Before
  <2>3. SearchAt(1)'
    BY <1>4, <1>11, <2>1, <2>2, SearchBegins
  <2> QED BY <1>12, <2>1, <2>3
<1> QED BY <1>13, <1>14

(* A place of the metadata is asked: the search ends there, or goes on     *)
(* with the next place of the same or of the other list.                   *)
LEMMA FetchMetadataInv ==
  ASSUME DiscoveryInv, NEW answer \in ServerAnswer, FetchMetadata(answer)
  PROVE  DiscoveryInv'
<1>0. PICK url : url = Head(todo)
  OBVIOUS
<1>1. /\ stage \in {"servers", "direct"} /\ paths' = paths /\ Asked(url, answer) /\ Settled /\ WorldOk
      /\ resource_metadata_url' = resource_metadata_url
  BY <1>0 DEF FetchMetadata, DiscoveryInv
<1>2. PICK k \in Nat : SearchAt(k)
  BY <1>1 DEF DiscoveryInv
<1> DEFINE e == IF stage = "servers" THEN Len(Before) ELSE Len(Search)
<1>3. /\ Before \in Seq(Known) /\ Search = Before \o generate_discovery_urls(Base)
      /\ Search \in Seq(Known) /\ Len(Before) < Len(Search)
      /\ generate_discovery_urls(Base) \in Seq(Known)
      /\ Len(Search) = Len(Before) + Len(generate_discovery_urls(Base))
      /\ Len(Before) \in Nat /\ Len(Search) \in Nat
  BY <1>1, PlacesType
<1>4. k \in 1 .. Len(Search) /\ k <= e /\ e \in Nat /\ Rest(todo, Search, k, e)
  BY <1>1, <1>2, <1>3 DEF SearchAt
<1> HIDE DEF e
<1>5. /\ url = Search[k] /\ url \in Known /\ (Len(todo) > 1 <=> k < e)
      /\ k < e => Rest(Tail(todo), Search, k + 1, e)
  BY <1>0, <1>4, RestHead
<1>6. Grows(url, answer)
  BY <1>1, AskedGrows
<1>7. WorldOk'
  <2>1. answer.kind # "resource"
    BY DEF ServerAnswer
  <2> QED BY <1>1, <1>6, <2>1, WorldStaysOk
<1>8. Settled' /\ Before' = Before /\ Search' = Search
  BY <1>1, <1>5, <1>6, PlacesStay
<1>9. Kind(url)' = answer.kind
  BY <1>6, GrowsKeeps
<1>10. \A j \in 1 .. k - 1 : Kind(Search[j])' = "no"
  <2> TAKE j \in 1 .. k - 1
  <2>1. Kind(Search[j]) = "no"
    BY <1>2 DEF SearchAt
  <2>2. Search[j] \in DOMAIN world
    BY <2>1 DEF Kind
  <2>3. \A u : u = Search[j] => Kind(u)' = "no"
    BY <1>6, <2>1, <2>2, GrowsKeeps
  <2> QED BY <1>8, <2>3 DEF Kind
<1>11. Search'[k] = url /\ Kind(Search[k])' = answer.kind
  BY <1>5, <1>8, <1>9 DEF Kind
<1>12. (\A n \in Nat : (/\ n \in 1 .. Len(Search) /\ \A j \in 1 .. n - 1 : Kind(Search[j]) = "no"
                        /\ Kind(Search[n]) # "no" /\ Len(Search) \in Nat) =>
           SelectInSeq(Search, LAMBDA u : Kind(u) # "no") = n)'
  BY EveryFirstPlace, PTL
<1>13. CASE answer.kind \in {"metadata", "unreadable"}
  <2>1. SelectInSeq(Search, LAMBDA u : Kind(u) # "no")' = k
    BY <1>3, <1>4, <1>8, <1>10, <1>11, <1>12, <1>13
  <2>2. stage' = IF answer.kind = "metadata" THEN "discovered" ELSE "failed"
    BY <1>13 DEF FetchMetadata, Falls
  <2>3. answer.kind = "metadata" => found' = url
    BY <1>0, <1>13 DEF FetchMetadata
  <2>4. SearchIsExact'
    BY <1>4, <1>11, <1>13, <2>1, <2>2, <2>3 DEF SearchIsExact
  <2> QED BY <1>7, <1>13, <2>2, <2>4 DEF DiscoveryInv
<1>14. CASE answer.kind = "no"
  <2>1. IF Len(todo) > 1 THEN Falls(stage, Tail(todo)) ELSE Exhausted
    BY <1>14 DEF FetchMetadata
  <2>2. \A j \in 1 .. (k + 1) - 1 : Kind(Search[j])' = "no"
    <3> TAKE j \in 1 .. (k + 1) - 1
    <3>1. j \in 1 .. k - 1 \/ j = k
      OBVIOUS
    <3> QED BY <1>10, <1>11, <1>14, <3>1
  <2>3. ASSUME stage' \in {"servers", "direct"}, SearchAt(k + 1)' PROVE DiscoveryInv'
    <3>1. SearchIsExact'
      BY <2>3 DEF SearchIsExact
    <3>2. k + 1 \in Nat
      OBVIOUS
    <3> QED BY <1>7, <1>8, <2>3, <3>1, <3>2 DEF DiscoveryInv
  <2>4. CASE k < e
    <3>1. stage' = stage /\ todo' = Tail(todo)
      BY <1>5, <2>1, <2>4 DEF Falls
    <3>2. Rest(todo', Search', k + 1, e)
      BY <1>5, <1>8, <2>4, <3>1
    <3>3. k + 1 \in 1 .. Len(Search') /\ k + 1 <= e
      BY <1>3, <1>4, <1>8, <2>4 DEF e
    <3>4. SearchAt(k + 1)'
      <4>1. stage' = "servers" => k + 1 <= Len(Before') /\ Rest(todo', Search', k + 1, Len(Before'))
        BY <1>8, <3>1, <3>2, <3>3 DEF e
      <4>2. stage' = "direct" => k + 1 > Len(Before') /\ Rest(todo', Search', k + 1, Len(Search'))
        BY <1>2, <1>3, <1>8, <3>1, <3>2, <3>3 DEF e, SearchAt
      <4> QED BY <2>2, <3>3, <4>1, <4>2 DEF SearchAt, Rest
    <3> QED BY <1>1, <2>3, <3>1, <3>4
  <2>5. CASE k = e /\ stage = "servers"
    <3>1. stage' = "direct" /\ todo' = generate_discovery_urls(Base) /\ k = Len(Before)
      BY <1>5, <2>1, <2>5 DEF Falls, Exhausted, e
    <3>2. Rest(generate_discovery_urls(Base), Before \o generate_discovery_urls(Base), Len(Before) + 1,
               Len(Before) + Len(generate_discovery_urls(Base)))
      BY <1>3, RestWhole
    <3>3. Rest(todo', Search', k + 1, Len(Search'))
      BY <1>3, <1>8, <3>1, <3>2
    <3>4. k + 1 \in 1 .. Len(Search') /\ k + 1 > Len(Before')
      BY <1>3, <1>8, <3>1
    <3>5. SearchAt(k + 1)'
      BY <2>2, <3>1, <3>3, <3>4 DEF SearchAt, Rest
    <3> QED BY <2>3, <3>1, <3>5
  <2>6. CASE k = e /\ stage = "direct"
    <3>1. stage' = "NoAuthorizationSupport" /\ k = Len(Search)
      BY <1>5, <2>1, <2>6 DEF Falls, Exhausted, e
    <3>2. (k + 1) - 1 = Len(Search')
      BY <1>8, <3>1
    <3>3. \A j \in 1 .. Len(Search') : Kind(Search[j])' = "no"
      BY <2>2, <3>2
    <3>4. ((\A j \in 1 .. Len(Search) : Kind(Search[j]) = "no") =>
             SelectInSeq(Search, LAMBDA u : Kind(u) # "no") = 0)'
      BY NoPlace, PTL
    <3>5. SelectInSeq(Search, LAMBDA u : Kind(u) # "no")' = 0
      BY <3>3, <3>4
    <3>6. SearchIsExact'
      BY <3>1, <3>5 DEF SearchIsExact
    <3> QED BY <1>7, <3>1, <3>6 DEF DiscoveryInv
  <2> QED BY <1>1, <1>4, <2>4, <2>5, <2>6
<1> QED BY <1>13, <1>14 DEF ServerAnswer

(* Every step keeps the invariant.                                         *)
LEMMA DiscoveryStepInv == DiscoveryInv /\ [DiscoveryNext]_discoveryVars => DiscoveryInv'
<1> SUFFICES ASSUME DiscoveryInv, [DiscoveryNext]_discoveryVars PROVE DiscoveryInv'
  OBVIOUS
<1>1. CASE UNCHANGED discoveryVars
  <2> USE <1>1 DEF discoveryVars
  <2>1. WorldOk' = WorldOk
    BY DEF WorldOk
  <2>2. Told' = Told /\ Settled' = Settled /\ (\A k : Untold(k)' = Untold(k)) /\ OwnPlaces' = OwnPlaces
    BY DEF Told, Settled, Untold, Tried, SettlesOn, Describes, Kind, OwnPlaces, well_known_paths
  <2>3. Search' = Search /\ Before' = Before
    <3>1. /\ \A u : /\ Kind(u)' = Kind(u) /\ SettlesOn(u)' = SettlesOn(u)
                    /\ generate_discovery_urls(u)' = generate_discovery_urls(u)
          /\ well_known_paths' = well_known_paths
      BY DEF Kind, SettlesOn, Describes, generate_discovery_urls, well_known_paths
    <3>2. Subject' = Subject
      BY DEF Subject, OwnPlaces, SelectInSeq, Kind, SettlesOn, Describes, well_known_paths
    <3>3. \A d : NamedUrls(d)' = NamedUrls(d)
      BY DEF NamedUrls, UrlsOf, generate_discovery_urls
    <3>4. Kind(Subject)' = Kind(Subject) /\ generate_discovery_urls(Base)' = generate_discovery_urls(Base)
      BY <3>1, <3>2 DEF Kind, generate_discovery_urls, Base
    <3>5. Before' = Before
      BY <3>2, <3>3, <3>4 DEF Before
    <3> QED BY <3>4, <3>5 DEF Search, Before
  <2>4. \A k : SearchAt(k)' = SearchAt(k)
    BY <2>3 DEF SearchAt, Kind, Rest
  <2>5. SearchIsExact' = SearchIsExact
    BY <2>3 DEF SearchIsExact, Kind, SelectInSeq
  <2> QED BY <2>1, <2>2, <2>4, <2>5 DEF DiscoveryInv
<1> QED BY <1>1, ProbeInv, FetchResourceInv, FetchMetadataInv DEF DiscoveryNext

(* Where no place of the resource answers 200 with something else, the     *)
(* search goes by the resource's description.                              *)
LEMMA SearchFindsFirst ==
  ASSUME SearchIsExact
  PROVE  DiscoveryFindsFirst
<1> SUFFICES ASSUME \A i \in DOMAIN OwnPlaces : Kind(OwnPlaces[i]) # "garbled"
             PROVE  Search = Places
  BY DEF SearchIsExact, DiscoveryFindsFirst
<1>1. \A i \in DOMAIN OwnPlaces : SettlesOn(OwnPlaces[i]) <=> Describes(OwnPlaces[i])
  BY DEF SettlesOn
<1>2. {i \in 1 .. Len(OwnPlaces) : SettlesOn(OwnPlaces[i])} = {i \in 1 .. Len(OwnPlaces) : Describes(OwnPlaces[i])}
  BY <1>1, ResourcePlacesType DEF OwnPlaces
<1>3. SelectInSeq(OwnPlaces, SettlesOn) = SelectInSeq(OwnPlaces, Describes)
  BY <1>2 DEF SelectInSeq
<1>4. Subject = Description
  BY <1>3 DEF Subject, Description
<1> QED BY <1>4 DEF Search, Places

(* For every set of headers and every number of servers a document may     *)
(* name: the discovery ends with the first metadata in the order of        *)
(* preference, fails at the first body that breaks off, and gives up only  *)
(* when there is none.                                                     *)
THEOREM DiscoveryCorrect == DiscoverySpec => []DiscoveryFindsFirst
<1>1. DiscoveryInit => DiscoveryInv
  BY DiscoveryInitInv
<1>2. DiscoveryInv /\ [DiscoveryNext]_discoveryVars => DiscoveryInv'
  BY DiscoveryStepInv
<1>3. DiscoveryInv => DiscoveryFindsFirst
  BY SearchFindsFirst DEF DiscoveryInv
<1> QED BY <1>1, <1>2, <1>3, PTL DEF DiscoverySpec

-----------------------------------------------------------------------------
(***************************************************************************)
(* GlobMatch: GlobIsExact for patterns and texts of any length.            *)
(***************************************************************************)

(* The characters of pattern and text, in either case                      *)
GlobChar == PatternChar \cup TextChar

(* The i-th character of the pattern takes the text from a to b.           *)
Takes(p, t, i, a, b) == IF p[i] = "*" THEN a <= b
                        ELSE b = a + 1 /\ p[i] \in {"?", t[b]}

(* The pattern after i characters matches the text after j characters.     *)
GlobsFrom(p, t, i, j) ==
  \E cut \in [i .. Len(p) -> 0 .. Len(t)] :
    /\ cut[i] = j /\ cut[Len(p)] = Len(t)
    /\ \A k \in i + 1 .. Len(p) : Takes(p, t, k, cut[k - 1], cut[k])

(* The reference is a match from the start.                                *)
LEMMA GlobsFromStart ==
  ASSUME NEW p \in Seq(GlobChar), NEW t \in Seq(GlobChar)
  PROVE  Globs(p, t) <=> GlobsFrom(p, t, 0, 0)
<1>1. 0 + 1 = 1
  OBVIOUS
<1> QED BY <1>1 DEF Globs, GlobsFrom, Takes

(* The empty pattern matches the empty text.                               *)
LEMMA GlobsFromEnd ==
  ASSUME NEW p \in Seq(GlobChar), NEW t \in Seq(GlobChar), NEW j
  PROVE  GlobsFrom(p, t, Len(p), j) <=> j = Len(t)
<1>1. Len(p) \in Nat /\ Len(t) \in Nat
  OBVIOUS
<1> DEFINE cut == [k \in Len(p) .. Len(p) |-> Len(t)]
<1>2. cut \in [Len(p) .. Len(p) -> 0 .. Len(t)] /\ cut[Len(p)] = Len(t) /\ Len(p) + 1 .. Len(p) = {}
  BY <1>1
<1> HIDE DEF cut
<1> QED BY <1>2 DEF GlobsFrom

(* A match stays inside the text.                                          *)
LEMMA GlobsInside ==
  ASSUME NEW p \in Seq(GlobChar), NEW t \in Seq(GlobChar), NEW i \in 0 .. Len(p), NEW j, GlobsFrom(p, t, i, j)
  PROVE  j \in 0 .. Len(t)
<1>1. PICK cut \in [i .. Len(p) -> 0 .. Len(t)] : cut[i] = j
  BY DEF GlobsFrom
<1>2. i \in i .. Len(p)
  OBVIOUS
<1> QED BY <1>1, <1>2

(* One character of the pattern at a time                                  *)
LEMMA GlobsUnfolds ==
  ASSUME NEW p \in Seq(GlobChar), NEW t \in Seq(GlobChar), NEW i \in 0 .. Len(p), i < Len(p), NEW j \in 0 .. Len(t)
  PROVE  GlobsFrom(p, t, i, j) <=> \E b \in 0 .. Len(t) : Takes(p, t, i + 1, j, b) /\ GlobsFrom(p, t, i + 1, b)
<1>0. Len(p) \in Nat /\ Len(t) \in Nat /\ i \in Nat /\ i + 1 \in 1 .. Len(p)
  OBVIOUS
<1>1. ASSUME GlobsFrom(p, t, i, j)
      PROVE  \E b \in 0 .. Len(t) : Takes(p, t, i + 1, j, b) /\ GlobsFrom(p, t, i + 1, b)
  <2>1. PICK cut \in [i .. Len(p) -> 0 .. Len(t)] :
           /\ cut[i] = j /\ cut[Len(p)] = Len(t)
           /\ \A k \in i + 1 .. Len(p) : Takes(p, t, k, cut[k - 1], cut[k])
    BY <1>1 DEF GlobsFrom
  <2>2. Takes(p, t, i + 1, cut[i], cut[i + 1])
    <3>1. i + 1 \in i + 1 .. Len(p) /\ (i + 1) - 1 = i
      BY <1>0
    <3> QED BY <2>1, <3>1
  <2> DEFINE c == [k \in i + 1 .. Len(p) |-> cut[k]]
  <2>3. /\ c \in [i + 1 .. Len(p) -> 0 .. Len(t)]
        /\ c[i + 1] = cut[i + 1] /\ c[Len(p)] = Len(t)
    BY <1>0, <2>1
  <2>4. \A k \in (i + 1) + 1 .. Len(p) : c[k - 1] = cut[k - 1] /\ c[k] = cut[k] /\ k \in i + 1 .. Len(p)
    BY <1>0
  <2> HIDE DEF c
  <2>5. \A k \in (i + 1) + 1 .. Len(p) : Takes(p, t, k, c[k - 1], c[k])
    BY <2>1, <2>4
  <2>6. GlobsFrom(p, t, i + 1, cut[i + 1])
    BY <2>3, <2>5 DEF GlobsFrom
  <2>7. cut[i + 1] \in 0 .. Len(t)
    BY <1>0
  <2> QED BY <2>1, <2>2, <2>6, <2>7
<1>2. ASSUME NEW b \in 0 .. Len(t), Takes(p, t, i + 1, j, b), GlobsFrom(p, t, i + 1, b)
      PROVE  GlobsFrom(p, t, i, j)
  <2>1. PICK cut \in [i + 1 .. Len(p) -> 0 .. Len(t)] :
           /\ cut[i + 1] = b /\ cut[Len(p)] = Len(t)
           /\ \A k \in (i + 1) + 1 .. Len(p) : Takes(p, t, k, cut[k - 1], cut[k])
    BY <1>2 DEF GlobsFrom
  <2> DEFINE c == [k \in i .. Len(p) |-> IF k = i THEN j ELSE cut[k]]
  <2>2. c \in [i .. Len(p) -> 0 .. Len(t)] /\ c[i] = j /\ c[Len(p)] = Len(t) /\ c[i + 1] = b
    BY <1>0, <2>1
  <2>3. \A k \in (i + 1) + 1 .. Len(p) : c[k - 1] = cut[k - 1] /\ c[k] = cut[k]
    BY <1>0
  <2> HIDE DEF c
  <2>4. ASSUME NEW k \in i + 1 .. Len(p) PROVE Takes(p, t, k, c[k - 1], c[k])
    <3>1. CASE k = i + 1
      <4>1. k - 1 = i
        BY <1>0, <3>1
      <4> QED BY <1>2, <2>2, <3>1, <4>1
    <3>2. CASE k # i + 1
      <4>1. k \in (i + 1) + 1 .. Len(p)
        BY <1>0, <3>2
      <4> QED BY <2>1, <2>3, <4>1
    <3> QED BY <3>1, <3>2
  <2> QED BY <2>2, <2>4 DEF GlobsFrom
<1> QED BY <1>1, <1>2

(* What a star does, and what another character does                       *)
LEMMA GlobsStar ==
  ASSUME NEW p \in Seq(GlobChar), NEW t \in Seq(GlobChar), NEW i \in 0 .. Len(p), i < Len(p), p[i + 1] = "*",
         NEW j \in 0 .. Len(t)
  PROVE  /\ GlobsFrom(p, t, i, j) <=> \E b \in 0 .. Len(t) : j <= b /\ GlobsFrom(p, t, i + 1, b)
         /\ \A l \in 0 .. Len(t) : l <= j /\ GlobsFrom(p, t, i, j) => GlobsFrom(p, t, i, l)
         /\ j < Len(t) => (GlobsFrom(p, t, i, j) <=> GlobsFrom(p, t, i + 1, j) \/ GlobsFrom(p, t, i, j + 1))
<1>0. Len(t) \in Nat
  OBVIOUS
<1>1. \A l \in 0 .. Len(t) : GlobsFrom(p, t, i, l) <=> \E b \in 0 .. Len(t) : l <= b /\ GlobsFrom(p, t, i + 1, b)
  BY GlobsUnfolds DEF Takes
<1>2. \A l \in 0 .. Len(t) : l <= j /\ GlobsFrom(p, t, i, j) => GlobsFrom(p, t, i, l)
  BY <1>0, <1>1
<1>3. ASSUME j < Len(t)
      PROVE  GlobsFrom(p, t, i, j) <=> GlobsFrom(p, t, i + 1, j) \/ GlobsFrom(p, t, i, j + 1)
  <2>1. j + 1 \in 0 .. Len(t)
    BY <1>0, <1>3
  <2>2. \A b \in 0 .. Len(t) : j <= b <=> b = j \/ j + 1 <= b
    BY <1>0
  <2> QED BY <1>1, <2>1, <2>2
<1> QED BY <1>1, <1>2, <1>3

(* A character that is no star takes one character of the text.            *)
LEMMA GlobsChar ==
  ASSUME NEW p \in Seq(GlobChar), NEW t \in Seq(GlobChar), NEW i \in 0 .. Len(p), i < Len(p), p[i + 1] # "*",
         NEW j \in 0 .. Len(t)
  PROVE  /\ GlobsFrom(p, t, i, j) => j < Len(t) /\ p[i + 1] \in {"?", t[j + 1]} /\ GlobsFrom(p, t, i + 1, j + 1)
         /\ j < Len(t) /\ p[i + 1] \in {"?", t[j + 1]} /\ GlobsFrom(p, t, i + 1, j + 1) => GlobsFrom(p, t, i, j)
<1>0. Len(t) \in Nat /\ (j < Len(t) => j + 1 \in 0 .. Len(t))
  OBVIOUS
<1>1. \A b : Takes(p, t, i + 1, j, b) <=> b = j + 1 /\ p[i + 1] \in {"?", t[b]}
  BY DEF Takes
<1>2. GlobsFrom(p, t, i, j) <=> \E b \in 0 .. Len(t) : Takes(p, t, i + 1, j, b) /\ GlobsFrom(p, t, i + 1, b)
  BY GlobsUnfolds
<1>3. ASSUME GlobsFrom(p, t, i, j)
      PROVE  j < Len(t) /\ p[i + 1] \in {"?", t[j + 1]} /\ GlobsFrom(p, t, i + 1, j + 1)
  <2>1. PICK b \in 0 .. Len(t) : b = j + 1 /\ p[i + 1] \in {"?", t[b]} /\ GlobsFrom(p, t, i + 1, b)
    BY <1>1, <1>2, <1>3
  <2> QED BY <1>0, <2>1
<1> QED BY <1>0, <1>1, <1>2, <1>3

(* At the end of the text only stars match.                                *)
LEMMA GlobsOnlyStars ==
  ASSUME NEW p \in Seq(GlobChar), NEW t \in Seq(GlobChar), NEW i \in 0 .. Len(p)
  PROVE  GlobsFrom(p, t, i, Len(t)) <=> \A k \in i + 1 .. Len(p) : p[k] = "*"
<1>0. Len(p) \in Nat /\ Len(t) \in Nat /\ i \in Nat
  OBVIOUS
<1>1. ASSUME \A k \in i + 1 .. Len(p) : p[k] = "*" PROVE GlobsFrom(p, t, i, Len(t))
  <2> DEFINE cut == [k \in i .. Len(p) |-> Len(t)]
  <2>1. cut \in [i .. Len(p) -> 0 .. Len(t)] /\ cut[i] = Len(t) /\ cut[Len(p)] = Len(t)
    BY <1>0
  <2>2. \A k \in i + 1 .. Len(p) : cut[k - 1] = Len(t) /\ cut[k] = Len(t)
    BY <1>0
  <2> HIDE DEF cut
  <2>3. \A k \in i + 1 .. Len(p) : Takes(p, t, k, cut[k - 1], cut[k])
    BY <1>0, <1>1, <2>2 DEF Takes
  <2> QED BY <2>1, <2>3 DEF GlobsFrom
<1>2. ASSUME GlobsFrom(p, t, i, Len(t)) PROVE \A k \in i + 1 .. Len(p) : p[k] = "*"
  <2>1. PICK cut \in [i .. Len(p) -> 0 .. Len(t)] :
           /\ cut[i] = Len(t) /\ cut[Len(p)] = Len(t)
           /\ \A k \in i + 1 .. Len(p) : Takes(p, t, k, cut[k - 1], cut[k])
    BY <1>2 DEF GlobsFrom
  <2>2. ASSUME NEW k \in i + 1 .. Len(p), cut[k - 1] = Len(t) PROVE p[k] = "*" /\ cut[k] = Len(t)
    <3>1. Takes(p, t, k, Len(t), cut[k]) /\ cut[k] \in 0 .. Len(t)
      BY <1>0, <2>1, <2>2
    <3> QED BY <1>0, <3>1 DEF Takes
  <2> DEFINE Bad == {k \in i .. Len(p) : cut[k] # Len(t)}
  <2>3. Bad = {}
    <3> SUFFICES ASSUME Bad # {} PROVE FALSE
      OBVIOUS
    <3>1. PICK k \in Bad : \A l \in Bad : k <= l
      <4>1. Bad \subseteq Nat
        BY <1>0
      <4> HIDE DEF Bad
      <4> QED BY <4>1, LeastElement
    <3>2. k \in i .. Len(p) /\ cut[k] # Len(t) /\ k # i
      BY <2>1
    <3>3. k \in i + 1 .. Len(p) /\ k - 1 \in i .. Len(p) /\ ~(k <= k - 1)
      BY <1>0, <3>2
    <3>4. cut[k - 1] = Len(t)
      BY <3>1, <3>3
    <3> QED BY <2>2, <3>2, <3>3, <3>4
  <2>4. \A k \in i + 1 .. Len(p) : cut[k - 1] = Len(t)
    BY <1>0, <2>3
  <2> QED BY <2>2, <2>4
<1> QED BY <1>1, <1>2

-----------------------------------------------------------------------------
(* Lower case leaves the stars and the question marks alone.               *)
LEMMA LowerCase ==
  ASSUME NEW s \in Seq(GlobChar)
  PROVE  /\ to_lowercase(s) \in Seq(GlobChar)
         /\ to_lowercase(to_lowercase(s)) = to_lowercase(s)
         /\ \A c \in {"*", "?"} : c \in ToSet(to_lowercase(s)) <=> c \in ToSet(s)
<1> DEFINE L(c) == CASE c = "A" -> "a" [] c = "B" -> "b" [] OTHER -> c
<1>1. ASSUME NEW c \in GlobChar PROVE L(c) \in GlobChar /\ L(L(c)) = L(c) /\ \A d \in {"*", "?"} : L(c) = d <=> c = d
  <2>1. CASE c = "A"
    BY <2>1 DEF GlobChar, PatternChar, TextChar
  <2>2. CASE c = "B"
    BY <2>2 DEF GlobChar, PatternChar, TextChar
  <2>3. CASE c # "A" /\ c # "B"
    BY <2>3
  <2> QED BY <2>1, <2>2, <2>3
<1>2. \A r : to_lowercase(r) = [i \in DOMAIN r |-> L(r[i])]
  BY DEF to_lowercase
<1> HIDE DEF L
<1> DEFINE low == to_lowercase(s)
<1>3. Len(s) \in Nat /\ DOMAIN s = 1 .. Len(s) /\ \A i \in DOMAIN s : s[i] \in GlobChar
  OBVIOUS
<1>4. low = [i \in 1 .. Len(s) |-> L(s[i])]
  BY <1>2, <1>3
<1> HIDE DEF low
<1>5. low \in Seq(GlobChar) /\ DOMAIN low = 1 .. Len(s) /\ \A i \in 1 .. Len(s) : low[i] = L(s[i])
  BY <1>1, <1>3, <1>4
<1>6. to_lowercase(low) = [i \in 1 .. Len(s) |-> L(low[i])]
  BY <1>2, <1>5
<1>7. \A i \in 1 .. Len(s) : L(low[i]) = L(s[i])
  BY <1>1, <1>3, <1>5
<1>8. to_lowercase(low) = low
  BY <1>4, <1>6, <1>7
<1>9. \A c \in {"*", "?"} : c \in ToSet(low) <=> c \in ToSet(s)
  BY <1>1, <1>3, <1>5 DEF ToSet
<1> QED BY <1>5, <1>8, <1>9 DEF low

(* A pattern with wildcards                                                *)
Wild(p) == {"*", "?"} \cap ToSet(p) # {}

(* What the loop keeps on a text without stars: the match that is left is  *)
(* the one of the rest, or of the last star and what it has taken; what    *)
(* stands between the star and the place matches at one distance only.     *)
LoopOk ==
  /\ pi \in 0 .. Len(pat) /\ ti \in 0 .. Len(txt)
  /\ star_pi = NoStar => (Globs(pat, txt) <=> GlobsFrom(pat, txt, pi, ti))
  /\ star_pi # NoStar =>
       /\ star_pi \in 0 .. Len(pat) /\ star_pi < Len(pat) /\ pat[star_pi + 1] = "*" /\ star_ti \in 0 .. ti
       /\ Globs(pat, txt) <=> GlobsFrom(pat, txt, star_pi, star_ti)
       /\ \A k \in 0 .. Len(txt) : GlobsFrom(pat, txt, star_pi + 1, k) => GlobsFrom(pat, txt, pi, k + (ti - star_ti))
       /\ GlobsFrom(pat, txt, pi, ti) => GlobsFrom(pat, txt, star_pi + 1, star_ti)

(* The invariant of the matcher.                                           *)
GlobInv ==
  /\ pat \in Seq(GlobChar) /\ txt \in Seq(GlobChar)
  /\ matching = "called" => pi = 0 /\ ti = 0 /\ star_pi = NoStar
  /\ matching # "called" => to_lowercase(pat) = pat /\ to_lowercase(txt) = txt
  /\ matching = "loop" => Wild(pat)
  /\ matching = "loop" /\ "*" \notin ToSet(txt) => LoopOk
  /\ GlobIsExact

(* A call begins at the start of both strings.                             *)
LEMMA GlobInitInv == GlobInit => GlobInv
<1> SUFFICES ASSUME GlobInit PROVE GlobInv
  OBVIOUS
<1>1. pat \in Seq(GlobChar) /\ txt \in Seq(GlobChar)
  BY DEF GlobInit, GlobCalled, BoundedSeq, SeqOf, GlobChar
<1> QED BY <1>1 DEF GlobInit, GlobCalled, GlobInv, GlobIsExact

(* glob_match decides the patterns without wildcards itself, and the star  *)
(* alone.                                                                  *)
LEMMA GlobMatchInv == ASSUME GlobInv, glob_match PROVE GlobInv'
<1>1. /\ pat' = to_lowercase(pat) /\ txt' = to_lowercase(txt) /\ matching = "called"
      /\ pi' = 0 /\ ti' = 0 /\ star_pi' = NoStar
      /\ pat \in Seq(GlobChar) /\ txt \in Seq(GlobChar)
  BY DEF glob_match, GlobInv
<1>2. /\ pat' \in Seq(GlobChar) /\ to_lowercase(pat') = pat' /\ txt' \in Seq(GlobChar) /\ to_lowercase(txt') = txt'
      /\ Wild(pat') <=> Wild(pat)
  BY <1>1, LowerCase DEF Wild
<1>3. matching' = IF pat \in {<<>>, <<"*">>} THEN "yes"
                  ELSE IF Wild(pat) THEN "loop"
                  ELSE IF Occurs(to_lowercase(pat), to_lowercase(txt)) THEN "yes" ELSE "no"
  BY DEF glob_match, Wild
<1>4. matching' # "called"
  BY <1>3
<1> SUFFICES (matching' = "loop" => Wild(pat') /\ LoopOk') /\ GlobIsExact'
  BY <1>1, <1>2, <1>4 DEF GlobInv, Wild
<1>5. CASE pat = <<>>
  <2>1. matching' = "yes" /\ ~Wild(pat')
    <3>1. ToSet(pat) = {}
      BY <1>5 DEF ToSet
    <3> QED BY <1>2, <1>3, <1>5, <3>1 DEF Wild
  <2>2. pat' = <<>>
    BY <1>1, <1>5 DEF to_lowercase
  <2>3. Occurs(pat', txt')
    <3>1. 0 \in 0 .. Len(txt') /\ Len(txt') \in Nat
      BY <1>2
    <3>2. SubSeq(txt', 0 + 1, Len(txt')) = txt'
      BY <1>2, <3>1
    <3>3. IsPrefix(<<>>, txt')
      BY <1>2 DEF IsPrefix
    <3> QED BY <2>2, <3>1, <3>2, <3>3 DEF Occurs
  <2> QED BY <1>2, <2>1, <2>3 DEF GlobIsExact, Wild
<1>6. CASE pat = <<"*">>
  <2>1. matching' = "yes"
    BY <1>3, <1>6
  <2>2. Len(pat') = 1 /\ pat'[1] = "*" /\ Wild(pat')
    BY <1>1, <1>6 DEF to_lowercase, Wild, ToSet
  <2>3. Globs(pat', txt')
    <3>1. 0 \in 0 .. Len(pat') /\ 0 < Len(pat') /\ pat'[0 + 1] = "*" /\ Len(txt') \in Nat
      BY <1>2, <2>2
    <3>2. GlobsFrom(pat', txt', 1, Len(txt'))
      BY <1>2, <2>2, GlobsFromEnd
    <3>3. GlobsFrom(pat', txt', 0, 0)
      <4>1. 0 \in 0 .. Len(txt') /\ Len(txt') \in 0 .. Len(txt') /\ 0 <= Len(txt') /\ 0 + 1 = 1
        BY <3>1
      <4>2. \E b \in 0 .. Len(txt') : 0 <= b /\ GlobsFrom(pat', txt', 0 + 1, b)
        BY <3>2, <4>1
      <4> QED BY <1>2, <3>1, <4>1, <4>2, GlobsStar
    <3> QED BY <1>2, <3>3, GlobsFromStart
  <2> QED BY <1>2, <2>1, <2>2, <2>3 DEF GlobIsExact, Wild
<1>7. CASE pat \notin {<<>>, <<"*">>} /\ Wild(pat)
  <2>1. matching' = "loop"
    BY <1>3, <1>7
  <2>2. Globs(pat', txt') <=> GlobsFrom(pat', txt', 0, 0)
    BY <1>2, GlobsFromStart
  <2>3. 0 \in 0 .. Len(pat') /\ 0 \in 0 .. Len(txt')
    BY <1>2
  <2>4. LoopOk'
    BY <1>1, <2>2, <2>3 DEF LoopOk, Globs, GlobsFrom, Takes
  <2> QED BY <1>2, <1>7, <2>1, <2>4 DEF GlobIsExact
<1>8. CASE pat \notin {<<>>, <<"*">>} /\ ~Wild(pat)
  <2>1. matching' = IF Occurs(pat', txt') THEN "yes" ELSE "no"
    BY <1>1, <1>3, <1>8
  <2>2. Occurs(pat', txt') \in BOOLEAN
    BY DEF Occurs
  <2>3. (matching' = "yes") = Occurs(pat', txt')
    BY <2>1, <2>2
  <2>4. {"*", "?"} \cap ToSet(pat') = {}
    BY <1>2, <1>8 DEF Wild
  <2> QED BY <1>2, <1>8, <2>1, <2>3, <2>4 DEF GlobIsExact
<1> QED BY <1>5, <1>6, <1>7, <1>8

(* The strings stay: what is left to show of a turn of the loop.           *)
LEMMA LoopTurn ==
  ASSUME GlobInv, matching = "loop", pat' = pat, txt' = txt, matching' \in {"loop", "yes", "no"},
         "*" \notin ToSet(txt) /\ matching' = "loop" => LoopOk',
         "*" \notin ToSet(txt) /\ matching' # "loop" => ((matching' = "yes") <=> Globs(pat, txt))
  PROVE  GlobInv'
<1>1. /\ pat \in Seq(GlobChar) /\ txt \in Seq(GlobChar) 
      /\ to_lowercase(pat) = pat /\ to_lowercase(txt) = txt /\ Wild(pat)
  BY DEF GlobInv
<1>2. to_lowercase(pat') = pat' /\ to_lowercase(txt') = txt' /\ Wild(pat')
  BY <1>1
<1>3. GlobIsExact'
  <2> SUFFICES ASSUME matching' \in {"yes", "no"}, "*" \notin ToSet(txt')
               PROVE  (matching' = "yes") = (IF {"*", "?"} \cap ToSet(pat') # {}
                                             THEN Globs(to_lowercase(pat'), to_lowercase(txt'))
                                             ELSE Occurs(to_lowercase(pat'), to_lowercase(txt')))
    BY DEF GlobIsExact
  <2>1. {"*", "?"} \cap ToSet(pat') # {}
    BY <1>2 DEF Wild
  <2>2. Globs(pat', txt') \in BOOLEAN /\ ((matching' = "yes") <=> Globs(pat', txt'))
    BY DEF Globs
  <2>3. (matching' = "yes") = Globs(pat', txt')
    BY <2>2
  <2> QED BY <1>2, <2>1, <2>3
<1> QED BY <1>1, <1>2, <1>3 DEF GlobInv, Wild, to_lowercase

(* The rest cannot match: the pattern is used up, or the characters differ *)
LEMMA NothingLeft ==
  ASSUME GlobInv, matching = "loop", LoopOk, ti < Len(txt), ~SameChar, ~(pi < Len(pat) /\ AtPat = "*")
  PROVE  ~GlobsFrom(pat, txt, pi, ti)
<1>1. pat \in Seq(GlobChar) /\ txt \in Seq(GlobChar) /\ pi \in 0 .. Len(pat) /\ ti \in 0 .. Len(txt)
  BY DEF GlobInv, LoopOk
<1>2. CASE pi = Len(pat)
  BY <1>1, <1>2, GlobsFromEnd
<1>3. CASE pi < Len(pat)
  <2>1. pat[pi + 1] # "*" /\ pat[pi + 1] \notin {"?", txt[ti + 1]}
    BY <1>3 DEF SameChar, AtPat
  <2> QED BY <1>1, <1>3, <2>1, GlobsChar
<1> QED BY <1>1, <1>2, <1>3

(* A turn that takes a character of both strings.                          *)
LEMMA SameCharOk ==
  ASSUME GlobInv, matching = "loop", LoopOk, "*" \notin ToSet(txt), ti < Len(txt), SameChar,
         pi' = pi + 1, ti' = ti + 1, UNCHANGED <<pat, txt, star_pi, star_ti>>
  PROVE  LoopOk'
<1>1. pat \in Seq(GlobChar) /\ txt \in Seq(GlobChar) /\ pi \in 0 .. Len(pat) /\ ti \in 0 .. Len(txt)
  BY DEF GlobInv, LoopOk
<1>2. pi < Len(pat) /\ pat[pi + 1] \in {"?", txt[ti + 1]} /\ Len(txt) \in Nat /\ Len(pat) \in Nat
  BY <1>1 DEF SameChar, AtPat
<1>3. pat[pi + 1] # "*"
  <2>1. ti + 1 \in DOMAIN txt
    BY <1>1
  <2>2. txt[ti + 1] # "*"
    BY <2>1 DEF ToSet
  <2> QED BY <1>2, <2>2
<1> DEFINE F(i, j) == GlobsFrom(pat, txt, i, j)
<1>4. F(pi, ti) <=> F(pi + 1, ti + 1)
  BY <1>1, <1>2, <1>3, GlobsChar
<1>5. \A k \in 0 .. Len(txt) : F(pi, k) => F(pi + 1, k + 1)
  BY <1>1, <1>2, <1>3, GlobsChar
<1>6. \A i, k : F(i, k) /\ i \in 0 .. Len(pat) => k \in 0 .. Len(txt)
  BY <1>1, GlobsInside
<1>7. pi' \in 0 .. Len(pat) /\ ti' \in 0 .. Len(txt)
  BY <1>1, <1>2
<1>8. CASE star_pi = NoStar
  <2>1. Globs(pat, txt) <=> F(pi + 1, ti + 1)
    BY <1>4, <1>8 DEF LoopOk
  <2> HIDE DEF F
  <2>2. (Globs(pat, txt) <=> GlobsFrom(pat, txt, pi, ti))'
    BY <2>1 DEF F
  <2> QED BY <1>7, <1>8, <2>2 DEF LoopOk
<1>9. CASE star_pi # NoStar
  <2>1. /\ star_pi \in 0 .. Len(pat) /\ star_pi < Len(pat) /\ pat[star_pi + 1] = "*" /\ star_ti \in 0 .. ti
        /\ Globs(pat, txt) <=> F(star_pi, star_ti)
        /\ \A k \in 0 .. Len(txt) : F(star_pi + 1, k) => F(pi, k + (ti - star_ti))
        /\ F(pi, ti) => F(star_pi + 1, star_ti)
    BY <1>9 DEF LoopOk
  <2> HIDE DEF F
  <2>2. \A k \in 0 .. Len(txt) : F(star_pi + 1, k) => F(pi + 1, k + ((ti + 1) - star_ti))
    <3> TAKE k \in 0 .. Len(txt)
    <3> HAVE F(star_pi + 1, k)
    <3>1. F(pi, k + (ti - star_ti))
      BY <2>1
    <3>2. k + (ti - star_ti) \in 0 .. Len(txt)
      BY <1>1, <1>6, <3>1
    <3>3. (k + (ti - star_ti)) + 1 = k + ((ti + 1) - star_ti)
      BY <1>1, <2>1
    <3> QED BY <1>5, <3>1, <3>2, <3>3
  <2>3. F(pi + 1, ti + 1) => F(star_pi + 1, star_ti)
    BY <1>4, <2>1
  <2>4. star_ti \in 0 .. ti + 1
    BY <1>1, <2>1
  <2>5. LoopOk'
    BY <1>7, <1>9, <2>1, <2>2, <2>3, <2>4 DEF LoopOk, F
  <2> QED BY <2>5
<1> QED BY <1>8, <1>9

(* A star is met: what an earlier star could still take this one can take, *)
(* so the earlier one is never returned to.                                *)
LEMMA NewStarOk ==
  ASSUME GlobInv, matching = "loop", LoopOk, ti < Len(txt), pi < Len(pat), AtPat = "*",
         star_pi' = pi, star_ti' = ti, pi' = pi + 1, UNCHANGED <<pat, txt, ti>>
  PROVE  LoopOk'
<1>1. /\ pat \in Seq(GlobChar) /\ txt \in Seq(GlobChar) /\ pi \in 0 .. Len(pat) /\ ti \in 0 .. Len(txt)
      /\ Len(txt) \in Nat /\ Len(pat) \in Nat /\ pat[pi + 1] = "*"
  BY DEF GlobInv, LoopOk, AtPat
<1> DEFINE F(i, j) == GlobsFrom(pat, txt, i, j)
<1>2. Globs(pat, txt) <=> F(pi, ti)
  <2>1. CASE star_pi = NoStar
    BY <2>1 DEF LoopOk
  <2>2. CASE star_pi # NoStar
    <3>1. /\ star_pi \in 0 .. Len(pat) /\ star_pi < Len(pat) /\ pat[star_pi + 1] = "*" /\ star_ti \in 0 .. ti
          /\ Globs(pat, txt) <=> F(star_pi, star_ti)
          /\ \A k \in 0 .. Len(txt) : F(star_pi + 1, k) => F(pi, k + (ti - star_ti))
          /\ F(pi, ti) => F(star_pi + 1, star_ti)
      BY <2>2 DEF LoopOk
    <3>2. star_ti \in 0 .. Len(txt) /\ star_ti <= star_ti
      BY <1>1, <3>1
    <3>3. F(star_pi, star_ti) <=> \E b \in 0 .. Len(txt) : star_ti <= b /\ F(star_pi + 1, b)
      BY <1>1, <3>1, <3>2, GlobsStar
    <3>4. ASSUME NEW b \in 0 .. Len(txt), star_ti <= b, F(star_pi + 1, b) PROVE F(pi, ti)
      <4>1. F(pi, b + (ti - star_ti))
        BY <3>1, <3>4
      <4>2. b + (ti - star_ti) \in 0 .. Len(txt)
        BY <1>1, <4>1, GlobsInside
      <4>3. ti <= b + (ti - star_ti)
        BY <1>1, <3>2, <3>4
      <4> QED BY <1>1, <4>1, <4>2, <4>3, GlobsStar
    <3> HIDE DEF F
    <3> QED BY <3>1, <3>2, <3>3, <3>4
  <2> QED BY <2>1, <2>2
<1>3. \A k \in 0 .. Len(txt) : k + (ti - ti) = k
  BY <1>1
<1>4. /\ pi + 1 \in 0 .. Len(pat) /\ pi # NoStar /\ ti \in 0 .. ti
  BY <1>1 DEF NoStar
<1> HIDE DEF F
<1> QED BY <1>1, <1>2, <1>3, <1>4 DEF LoopOk, F

(* The star takes one character more: without it the rest did not match.   *)
LEMMA RetryOk ==
  ASSUME GlobInv, matching = "loop", LoopOk, ti < Len(txt), ~SameChar, ~(pi < Len(pat) /\ AtPat = "*"),
         star_pi # NoStar, Retry, UNCHANGED <<pat, txt>>
  PROVE  LoopOk'
<1>1. /\ pat \in Seq(GlobChar) /\ txt \in Seq(GlobChar) /\ pi \in 0 .. Len(pat) /\ ti \in 0 .. Len(txt)
      /\ Len(txt) \in Nat /\ Len(pat) \in Nat
  BY DEF GlobInv, LoopOk
<1> DEFINE F(i, j) == GlobsFrom(pat, txt, i, j)
<1>2. /\ star_pi \in 0 .. Len(pat) /\ star_pi < Len(pat) /\ pat[star_pi + 1] = "*" /\ star_ti \in 0 .. ti
      /\ Globs(pat, txt) <=> F(star_pi, star_ti)
      /\ \A k \in 0 .. Len(txt) : F(star_pi + 1, k) => F(pi, k + (ti - star_ti))
  BY DEF LoopOk
<1>3. ~F(pi, ti)
  BY NothingLeft
<1>4. star_ti \in 0 .. Len(txt) /\ star_ti < Len(txt) /\ star_ti + (ti - star_ti) = ti /\ star_ti + 1 \in 0 .. Len(txt)
  BY <1>1, <1>2
<1>5. ~F(star_pi + 1, star_ti)
  BY <1>2, <1>3, <1>4
<1>6. F(star_pi, star_ti) <=> F(star_pi, star_ti + 1)
  BY <1>1, <1>2, <1>4, <1>5, GlobsStar
<1>7. /\ pi' = star_pi + 1 /\ ti' = star_ti + 1 /\ star_ti' = star_ti + 1 /\ star_pi' = star_pi
  BY DEF Retry
<1>8. /\ star_pi + 1 \in 0 .. Len(pat) /\ star_ti + 1 \in 0 .. star_ti + 1
      /\ \A k \in 0 .. Len(txt) : k + ((star_ti + 1) - (star_ti + 1)) = k
  BY <1>1, <1>2, <1>4
<1> HIDE DEF F
<1> QED BY <1>1, <1>2, <1>4, <1>6, <1>7, <1>8 DEF LoopOk, F

(* A turn of the loop keeps the invariant.                                 *)
LEMMA MatchCharInv == ASSUME GlobInv, MatchChar PROVE GlobInv'
<1>1. matching = "loop" /\ ti < Len(txt) /\ pat' = pat /\ txt' = txt
  BY DEF MatchChar
<1>2. "*" \notin ToSet(txt) => LoopOk
  BY <1>1 DEF GlobInv
<1>3. CASE SameChar
  <2>1. pi' = pi + 1 /\ ti' = ti + 1 /\ UNCHANGED <<star_pi, star_ti, matching>>
    BY <1>3 DEF MatchChar
  <2>2. "*" \notin ToSet(txt) => LoopOk'
    BY <1>1, <1>2, <1>3, <2>1, SameCharOk
  <2> QED BY <1>1, <2>1, <2>2, LoopTurn
<1>4. CASE ~SameChar /\ pi < Len(pat) /\ AtPat = "*"
  <2>1. star_pi' = pi /\ star_ti' = ti /\ pi' = pi + 1 /\ UNCHANGED <<ti, matching>>
    BY <1>4 DEF MatchChar
  <2>2. "*" \notin ToSet(txt) => LoopOk'
    BY <1>1, <1>2, <1>4, <2>1, NewStarOk
  <2> QED BY <1>1, <2>1, <2>2, LoopTurn
<1>5. CASE ~SameChar /\ ~(pi < Len(pat) /\ AtPat = "*") /\ star_pi # NoStar
  <2>1. Retry /\ UNCHANGED matching
    BY <1>5 DEF MatchChar
  <2>2. "*" \notin ToSet(txt) => LoopOk'
    BY <1>1, <1>2, <1>5, <2>1, RetryOk
  <2> QED BY <1>1, <2>1, <2>2, LoopTurn
<1>6. CASE ~SameChar /\ ~(pi < Len(pat) /\ AtPat = "*") /\ star_pi = NoStar
  <2>1. matching' = "no"
    BY <1>6 DEF MatchChar
  <2>2. "*" \notin ToSet(txt) => ~Globs(pat, txt)
    BY <1>1, <1>2, <1>6, NothingLeft DEF LoopOk
  <2> QED BY <1>1, <2>1, <2>2, LoopTurn
<1> QED BY <1>3, <1>4, <1>5, <1>6

(* The text is used up: the rest matches if it is stars.                   *)
LEMMA MatchTailInv == ASSUME GlobInv, MatchTail PROVE GlobInv'
<1>1. matching = "loop" /\ ti >= Len(txt) /\ pat' = pat /\ txt' = txt
  BY DEF MatchTail
<1>2. matching' = IF \A i \in pi + 1 .. Len(pat) : pat[i] = "*" THEN "yes" ELSE "no"
  BY DEF MatchTail
<1>3. ASSUME "*" \notin ToSet(txt) PROVE Globs(pat, txt) <=> \A i \in pi + 1 .. Len(pat) : pat[i] = "*"
  <2>1. /\ pat \in Seq(GlobChar) /\ txt \in Seq(GlobChar) /\ pi \in 0 .. Len(pat) /\ ti \in 0 .. Len(txt)
        /\ Len(txt) \in Nat /\ Len(pat) \in Nat /\ ti = Len(txt) /\ LoopOk
    BY <1>1, <1>3 DEF GlobInv, LoopOk
  <2> DEFINE F(i, j) == GlobsFrom(pat, txt, i, j)
  <2>2. F(pi, ti) <=> \A i \in pi + 1 .. Len(pat) : pat[i] = "*"
    BY <2>1, GlobsOnlyStars
  <2>3. CASE star_pi = NoStar
    BY <2>1, <2>2, <2>3 DEF LoopOk
  <2>4. CASE star_pi # NoStar
    <3>1. /\ star_pi \in 0 .. Len(pat) /\ star_pi < Len(pat) /\ pat[star_pi + 1] = "*" /\ star_ti \in 0 .. ti
          /\ Globs(pat, txt) <=> F(star_pi, star_ti)
          /\ \A k \in 0 .. Len(txt) : F(star_pi + 1, k) => F(pi, k + (ti - star_ti))
          /\ F(pi, ti) => F(star_pi + 1, star_ti)
      BY <2>1, <2>4 DEF LoopOk
    <3>2. star_ti \in 0 .. Len(txt) /\ star_ti <= star_ti
      BY <2>1, <3>1
    <3>3. F(star_pi, star_ti) <=> \E b \in 0 .. Len(txt) : star_ti <= b /\ F(star_pi + 1, b)
      BY <2>1, <3>1, <3>2, GlobsStar
    <3>4. ASSUME NEW b \in 0 .. Len(txt), star_ti <= b, F(star_pi + 1, b) PROVE F(pi, ti)
      <4>1. F(pi, b + (ti - star_ti))
        BY <3>1, <3>4
      <4>2. b + (ti - star_ti) \in 0 .. Len(txt)
        BY <2>1, <4>1, GlobsInside
      <4>3. b + (ti - star_ti) = ti
        BY <2>1, <3>2, <3>4, <4>2
      <4> QED BY <4>1, <4>3
    <3> HIDE DEF F
    <3>5. F(pi, ti) <=> Globs(pat, txt)
      BY <3>1, <3>2, <3>3, <3>4
    <3> QED BY <2>2, <3>5
  <2> QED BY <2>3, <2>4
<1> QED BY <1>1, <1>2, <1>3, LoopTurn

(* Every step keeps the invariant.                                         *)
LEMMA GlobStepInv == GlobInv /\ [GlobNext]_globVars => GlobInv'
<1> SUFFICES ASSUME GlobInv, [GlobNext]_globVars PROVE GlobInv'
  OBVIOUS
<1>1. CASE UNCHANGED globVars
  <2> USE <1>1 DEF globVars
  <2>1. LoopOk' = LoopOk
    BY DEF LoopOk, Globs, GlobsFrom, Takes
  <2>2. GlobIsExact' = GlobIsExact
    BY DEF GlobIsExact
  <2> QED BY <2>1, <2>2 DEF GlobInv, Wild
<1> QED BY <1>1, GlobMatchInv, MatchCharInv, MatchTailInv DEF GlobNext

(* For every pattern and every text without stars: glob_match decides      *)
(* whether the pattern matches, although it returns to the last star only. *)
THEOREM GlobCorrect == GlobSpec => []GlobIsExact
<1>1. GlobInit => GlobInv
  BY GlobInitInv
<1>2. GlobInv /\ [GlobNext]_globVars => GlobInv'
  BY GlobStepInv
<1>3. GlobInv => GlobIsExact
  BY DEF GlobInv
<1> QED BY <1>1, <1>2, <1>3, PTL DEF GlobSpec
=============================================================================
