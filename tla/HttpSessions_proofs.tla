------------------------ MODULE HttpSessions_proofs ------------------------
(***************************************************************************)
(* Proofs about the sessions of the streamable HTTP server: no worker runs *)
(* on unseen, and "not found" is said only of a session that is gone.      *)
(* And about the checks before it: a request that is refused has changed   *)
(* nothing, with the exceptions the order of the checks makes. And about   *)
(* the streams of a session: a client that resumes misses only what the    *)
(* bounded cache had to evict.                                             *)
(***************************************************************************)
EXTENDS HttpSessions, HttpGate, HttpStreams, TLAPS, FiniteSetTheorems, SequenceTheorems, WellFoundedInduction

States == {"unused", "init", "handshake", "run", "quit"}
Live == {"init", "handshake", "run"}
Workers == [sid : Sids \cup {None}, st : States, told : BOOLEAN]

(* The map and the workers: a handle in the map is that of a worker of     *)
(* this session                                                            *)
WorkersOk ==
  /\ sessions \in [Sids -> Wid \cup {0}]
  /\ worker \in [Wid -> Workers]
  /\ \A w \in Wid : worker[w].st # "unused" <=> worker[w].sid \in Sids
  /\ \A s \in Sids : sessions[s] # 0 => worker[sessions[s]].sid = s
  /\ NoZombieWorker

Idles == [op : {"none"}, pc : Answers \cup {"idle"}, sid : {None}, w : {0}]
Inits == [op : {"init"}, pc : {"service", "initialize", "initializing", "persist"}, sid : Sids, w : Wid]
RestoringPc == {"load", "allocate", "respawn", "initialize", "initializing", "initialized"}
Uses == [op : {"use"}, pc : {"has", "restore", "wait", "serve", "asked", "404", "refused"} \cup RestoringPc,
         sid : Sids, w : Wid \cup {0}]
Deletes == [op : {"delete"}, pc : {"close", "forget"}, sid : Sids, w : {0}]
Requests == Idles \cup Inits \cup Uses \cup Deletes

Unused == {w \in Wid : worker[w].st = "unused"}
(* The requests that may still allocate a worker                           *)
Claimants == {t \in Tasks : task[t].op = "use" /\ task[t].pc \in {"has", "restore", "load", "allocate"}}
CountOk == Cardinality(Claimants) =< Cardinality(Unused)

(* A request that restores holds the entry of its session                  *)
Restoring(t) == task[t].op = "use" /\ task[t].pc \in RestoringPc
Holds(t, s) == pending[s] \in Entries /\ pending[s].by = t /\ pending[s].result = "none"
EntriesOk ==
  /\ pending \in [Sids -> Entries \cup {None}]
  /\ \A t \in Tasks : Restoring(t) => Holds(t, task[t].sid)

(* A session that is being created is not known to any client, and only    *)
(* one request creates it                                                  *)
IssuedOk ==
  /\ issued \subseteq Sids
  /\ \A t \in Tasks : task[t].op = "use" => task[t].sid \in issued
  /\ \A s \in Sids : pending[s] # None => s \in issued
  /\ \A t \in Tasks : task[t].op = "init" =>
       task[t].sid \notin issued /\ worker[task[t].w].sid = task[t].sid
  /\ \A t, u \in Tasks : task[t].op = "init" /\ task[u].op = "init" /\ task[t].sid = task[u].sid => t = u

Gone(s) == s \notin store
GoneOk ==
  /\ \A s \in Sids : pending[s] # None /\ pending[s].result = "no" => Gone(s)
  /\ NotFoundMeansGone

(* What holds of the requests, and with it the inductive invariant         *)
TaskInv == task \in [Tasks -> Requests] /\ EntriesOk /\ IssuedOk /\ GoneOk
SessInv == WorkersOk /\ TaskInv /\ CountOk

----------------------------------------------------------------------------
(* The workers.                                                            *)

(* A set of natural numbers has a least element                            *)
LEMMA LeastElement ==
  ASSUME NEW S, S \subseteq Nat, S # {}
  PROVE  \E n \in S : \A m \in S : n =< m
<1>1. PICK x \in S : \A y \in S : ~(<<y, x>> \in OpToRel(<, Nat))
  BY NatLessThanWellFounded, WFMin
<1>2. ASSUME NEW y \in S PROVE x =< y
  <2>1. x \in Nat /\ y \in Nat /\ <<y, x>> \in Nat \X Nat
    OBVIOUS
  <2>2. ~(y < x)
    BY <1>1, <2>1 DEF OpToRel
  <2> QED BY <2>1, <2>2
<1> QED BY <1>2

(* The bound on workers leaves one for whoever may allocate                *)
LEMMA NewWidUnused ==
  ASSUME Unused # {}
  PROVE  NewWid \in Wid /\ worker[NewWid].st = "unused"
<1>1. Unused \subseteq Nat
  BY SessionsAssumption DEF Unused, Wid
<1>2. PICK n \in Unused : \A m \in Unused : n =< m
  BY <1>1, LeastElement
<1>3. n \in Wid /\ worker[n].st = "unused" /\ \A v \in 1 .. n - 1 : worker[v].st # "unused"
  BY <1>2, SessionsAssumption DEF Unused, Wid
<1> QED BY <1>3 DEF NewWid

(* Workers, requests and the sets of them are finite.                      *)
LEMMA Finite ==
  /\ IsFiniteSet(Unused) /\ Cardinality(Unused) \in Nat
  /\ \A S \in SUBSET Tasks : IsFiniteSet(S) /\ Cardinality(S) \in Nat
<1>1. IsFiniteSet(Wid)
  BY SessionsAssumption, FS_Interval DEF Wid
<1>2. IsFiniteSet(Unused)
  BY <1>1, FS_Subset DEF Unused
<1>3. \A S \in SUBSET Tasks : IsFiniteSet(S)
  BY SessionsAssumption, FS_Subset
<1> QED BY <1>2, <1>3, FS_CardinalityType

(* What no step takes from a worker: its session                           *)
SidsKept == \A w \in Wid : worker[w].sid \in Sids => worker'[w].sid = worker[w].sid

(* One worker changes its state or its mark, not its session               *)
LEMMA WorkerChanges ==
  ASSUME WorkersOk, NEW w \in Wid, NEW r \in Workers, worker' = [worker EXCEPT ![w] = r],
         sessions' = sessions, r.sid = worker[w].sid,
         r.st = "unused" <=> worker[w].st = "unused",
         r.st \in Live => (worker[w].st \in Live /\ (worker[w].told => r.told)) \/ r.told
  PROVE  WorkersOk' /\ SidsKept /\ Unused' = Unused
<1>1. /\ worker \in [Wid -> Workers] /\ worker' \in [Wid -> Workers] /\ worker'[w] = r
      /\ \A v \in Wid : v # w => worker'[v] = worker[v]
  BY DEF WorkersOk
<1>2. \A v \in Wid : worker'[v].sid = worker[v].sid /\ (worker'[v].st = "unused" <=> worker[v].st = "unused")
  BY <1>1
<1>3. NoZombieWorker'
  <2> SUFFICES ASSUME NEW v \in Wid, worker'[v].st \in Live
               PROVE  sessions'[worker'[v].sid] = v \/ worker'[v].told
    BY DEF NoZombieWorker, Live
  <2>1. CASE v # w
    BY <2>1, <1>1 DEF WorkersOk, NoZombieWorker, Live
  <2>2. CASE v = w
    BY <2>2, <1>1 DEF WorkersOk, NoZombieWorker, Live
  <2> QED BY <2>1, <2>2
<1>4. \A s \in Sids : sessions'[s] # 0 => worker'[sessions'[s]].sid = s
  BY <1>2 DEF WorkersOk
<1>5. WorkersOk'
  BY <1>1, <1>2, <1>3, <1>4 DEF WorkersOk
<1> QED BY <1>2, <1>5 DEF SidsKept, Unused

(* A step that leaves the map and the workers alone.                       *)
LEMMA WorkersSame ==
  ASSUME WorkersOk, worker' = worker, sessions' = sessions
  PROVE  WorkersOk' /\ SidsKept /\ Unused' = Unused
BY DEF WorkersOk, SidsKept, Unused, NoZombieWorker

(* A worker is told to stop, and its session leaves the map.               *)
LEMMA WorkerTold ==
  ASSUME WorkersOk, NEW w \in Wid \cup {0}, worker' = Told(w), sessions' = sessions
  PROVE  WorkersOk' /\ SidsKept /\ Unused' = Unused
<1>1. CASE w = 0
  BY <1>1, WorkersSame DEF Told
<1>2. CASE w \in Wid
  <2>1. worker[w] \in Workers /\ w # 0 /\ worker \in [Wid -> Workers]
    BY <1>2, SessionsAssumption DEF WorkersOk, Wid
  <2> DEFINE r == [worker[w] EXCEPT !.told = TRUE]
  <2>2. r \in Workers /\ r.sid = worker[w].sid /\ r.st = worker[w].st
    BY <2>1 DEF Workers
  <2>3. r.told
    BY <2>1 DEF Workers
  <2>4. worker' = [worker EXCEPT ![w] = r]
    BY <2>1 DEF Told
  <2> HIDE DEF r
  <2> QED BY <1>2, <2>2, <2>3, <2>4, WorkerChanges
<1> QED BY <1>1, <1>2

(* A worker goes on to another state.                                      *)
LEMMA WorkerState ==
  ASSUME WorkersOk, NEW w \in Wid, NEW st \in States, worker' = [worker EXCEPT ![w].st = st],
         sessions' = sessions, st = "unused" <=> worker[w].st = "unused",
         st \in Live => worker[w].st \in Live
  PROVE  WorkersOk' /\ SidsKept /\ Unused' = Unused
<1>1. worker[w] \in Workers /\ worker \in [Wid -> Workers]
  BY DEF WorkersOk
<1> DEFINE r == [worker[w] EXCEPT !.st = st]
<1>2. r \in Workers /\ r.sid = worker[w].sid /\ r.st = st
  BY <1>1 DEF Workers
<1>3. r.told = worker[w].told
  BY <1>1 DEF Workers
<1>4. worker' = [worker EXCEPT ![w] = r]
  BY <1>1
<1> HIDE DEF r
<1> QED BY <1>2, <1>3, <1>4, WorkerChanges

(* create_local_session: the new worker takes the place of none            *)
LEMMA AllocateWorker ==
  ASSUME WorkersOk, NEW s \in Sids, Allocate(s), sessions[s] = 0, Unused # {}
  PROVE  /\ WorkersOk' /\ SidsKept /\ NewWid \in Unused /\ Unused' = Unused \ {NewWid}
         /\ NewWid \in Wid /\ worker'[NewWid].sid = s
<1>1. PICK w \in Wid : w = NewWid /\ worker[w].st = "unused"
  BY NewWidUnused
<1>2. w # 0 /\ worker \in [Wid -> Workers] /\ sessions \in [Sids -> Wid \cup {0}]
  BY SessionsAssumption DEF WorkersOk, Wid
<1> DEFINE r == [sid |-> s, st |-> "init", told |-> FALSE]
<1>3. r \in Workers /\ r.sid = s /\ r.st = "init"
  BY DEF Workers, States
<1>4. sessions' = [sessions EXCEPT ![s] = w] /\ worker' = [worker EXCEPT ![w] = r]
  BY <1>1 DEF Allocate
<1> HIDE DEF r
<1>5. /\ sessions' \in [Sids -> Wid \cup {0}] /\ worker' \in [Wid -> Workers]
      /\ sessions'[s] = w /\ (\A x \in Sids : x # s => sessions'[x] = sessions[x])
      /\ worker'[w] = r /\ (\A v \in Wid : v # w => worker'[v] = worker[v])
  BY <1>2, <1>3, <1>4
<1>6. worker[w].sid \notin Sids
  BY <1>1 DEF WorkersOk
<1>7. \A v \in Wid : worker'[v].st # "unused" <=> worker'[v].sid \in Sids
  BY <1>3, <1>5 DEF WorkersOk
<1>8. ASSUME NEW x \in Sids, sessions'[x] # 0 PROVE worker'[sessions'[x]].sid = x
  <2>1. CASE x = s
    BY <2>1, <1>3, <1>5
  <2>2. CASE x # s
    <3>1. sessions[x] \in Wid /\ worker[sessions[x]].sid = x /\ sessions'[x] = sessions[x]
      BY <1>2, <1>5, <1>8, <2>2 DEF WorkersOk
    <3>2. sessions[x] # w
      BY <3>1, <1>6
    <3> QED BY <3>1, <3>2, <1>5
  <2> QED BY <2>1, <2>2
<1>9. NoZombieWorker'
  <2> SUFFICES ASSUME NEW v \in Wid, worker'[v].st \in Live
               PROVE  sessions'[worker'[v].sid] = v \/ worker'[v].told
    BY DEF NoZombieWorker, Live
  <2>1. CASE v = w
    BY <2>1, <1>3, <1>5
  <2>2. CASE v # w
    <3>1. worker'[v] = worker[v] /\ worker[v].sid \in Sids
      BY <2>2, <1>5 DEF WorkersOk, Live
    <3>2. sessions[worker[v].sid] = v \/ worker[v].told
      BY <3>1 DEF WorkersOk, NoZombieWorker, Live
    <3>3. CASE worker[v].told
      BY <3>1, <3>3
    <3>4. CASE sessions[worker[v].sid] = v
      <4>1. v # 0
        BY SessionsAssumption DEF Wid
      <4>2. worker[v].sid # s
        BY <3>4, <4>1
      <4> QED BY <3>1, <3>4, <4>2, <1>5
    <3> QED BY <3>2, <3>3, <3>4
  <2> QED BY <2>1, <2>2
<1>10. WorkersOk'
  BY <1>5, <1>7, <1>8, <1>9 DEF WorkersOk
<1>11. SidsKept
  BY <1>5, <1>6 DEF SidsKept
<1>12. w \in Unused /\ Unused' = Unused \ {w}
  BY <1>1, <1>3, <1>5 DEF Unused
<1> QED BY <1>1, <1>3, <1>5, <1>10, <1>11, <1>12

(* close_session: the worker that leaves the map is told to stop           *)
LEMMA CloseWorker ==
  ASSUME WorkersOk, NEW s \in Sids, CloseSession(s)
  PROVE  WorkersOk' /\ SidsKept /\ Unused' = Unused
<1>1. /\ sessions' = [sessions EXCEPT ![s] = 0] /\ worker' = Told(sessions[s])
      /\ sessions \in [Sids -> Wid \cup {0}] /\ worker \in [Wid -> Workers]
  BY DEF CloseSession, WorkersOk
<1>2. /\ sessions' \in [Sids -> Wid \cup {0}] /\ sessions'[s] = 0
      /\ \A x \in Sids : x # s => sessions'[x] = sessions[x]
  BY <1>1
<1>3. /\ worker' \in [Wid -> Workers]
      /\ \A v \in Wid : worker'[v].sid = worker[v].sid /\ worker'[v].st = worker[v].st
      /\ \A v \in Wid : worker[v].told \/ v = sessions[s] => worker'[v].told
  <2>1. CASE sessions[s] = 0
    <3>1. \A v \in Wid : v # sessions[s]
      BY <2>1, SessionsAssumption DEF Wid
    <3> QED BY <1>1, <2>1, <3>1 DEF Told
  <2>2. CASE sessions[s] # 0
    <3>1. PICK w \in Wid : w = sessions[s]
      BY <1>1, <2>2
    <3> DEFINE r == [worker[w] EXCEPT !.told = TRUE]
    <3>2. worker[w] \in Workers
      BY <1>1
    <3>3. r \in Workers /\ r.sid = worker[w].sid /\ r.st = worker[w].st
      BY <3>2 DEF Workers
    <3>4. r.told
      BY <3>2 DEF Workers
    <3>5. worker' = [worker EXCEPT ![w] = r]
      BY <1>1, <2>2, <3>1 DEF Told
    <3> HIDE DEF r
    <3>6. /\ worker' \in [Wid -> Workers] /\ worker'[w] = r
          /\ \A v \in Wid : v # w => worker'[v] = worker[v]
      BY <1>1, <3>3, <3>5
    <3> QED BY <3>1, <3>3, <3>4, <3>6
  <2> QED BY <2>1, <2>2
<1>4. NoZombieWorker'
  <2> SUFFICES ASSUME NEW v \in Wid, worker'[v].st \in Live
               PROVE  sessions'[worker'[v].sid] = v \/ worker'[v].told
    BY DEF NoZombieWorker, Live
  <2>1. worker[v].st \in Live /\ worker[v].sid \in Sids /\ worker'[v].sid = worker[v].sid
    BY <1>3 DEF WorkersOk, Live
  <2>2. sessions[worker[v].sid] = v \/ worker[v].told
    BY <2>1 DEF WorkersOk, NoZombieWorker, Live
  <2>3. CASE worker[v].told \/ v = sessions[s]
    BY <2>3, <1>3
  <2>4. CASE sessions[worker[v].sid] = v /\ v # sessions[s]
    BY <2>1, <2>4, <1>2
  <2> QED BY <2>2, <2>3, <2>4
<1>5. \A x \in Sids : sessions'[x] # 0 => worker'[sessions'[x]].sid = x
  BY <1>1, <1>2, <1>3 DEF WorkersOk
<1>6. WorkersOk'
  <2>1. \A v \in Wid : worker'[v].st # "unused" <=> worker'[v].sid \in Sids
    BY <1>3 DEF WorkersOk
  <2> QED BY <1>2, <1>3, <1>4, <1>5, <2>1 DEF WorkersOk
<1> QED BY <1>3, <1>6 DEF SidsKept, Unused

(* A restart leaves no worker running                                      *)
LEMMA RestartWorkers ==
  ASSUME WorkersOk, Restart
  PROVE  WorkersOk' /\ SidsKept /\ Unused' = Unused
<1>1. /\ sessions' = [s \in Sids |-> 0] /\ worker \in [Wid -> Workers]
      /\ worker' = [w \in Wid |-> IF worker[w].st = "unused" THEN worker[w]
                               ELSE [sid |-> worker[w].sid, st |-> "quit", told |-> TRUE]]
  BY DEF Restart, WorkersOk
<1>2. ASSUME NEW w \in Wid
      PROVE  /\ worker'[w] \in Workers /\ worker'[w].sid = worker[w].sid
             /\ worker'[w].st = (IF worker[w].st = "unused" THEN "unused" ELSE "quit")
  <2>1. worker[w] \in Workers
    BY <1>1
  <2>2. CASE worker[w].st = "unused"
    BY <1>1, <2>1, <2>2
  <2>3. CASE worker[w].st # "unused"
    <3>1. worker'[w] = [sid |-> worker[w].sid, st |-> "quit", told |-> TRUE]
      BY <1>1, <2>3
    <3> QED BY <2>1, <2>3, <3>1 DEF Workers, States
  <2> QED BY <2>2, <2>3
<1>3. worker' \in [Wid -> Workers]
  BY <1>1, <1>2
<1>4. NoZombieWorker'
  BY <1>2 DEF NoZombieWorker
<1>5. sessions' \in [Sids -> Wid \cup {0}] /\ \A s \in Sids : sessions'[s] = 0
  BY <1>1
<1>6. \A w \in Wid : worker'[w].st # "unused" <=> worker'[w].sid \in Sids
  BY <1>2 DEF WorkersOk
<1>7. WorkersOk'
  BY <1>3, <1>4, <1>5, <1>6 DEF WorkersOk
<1> QED BY <1>2, <1>7 DEF SidsKept, Unused

----------------------------------------------------------------------------
(* The requests.  What their records look like.                            *)
UsePc == {"has", "restore", "wait", "serve", "asked", "404", "refused"} \cup RestoringPc
InitPc == {"service", "initialize", "initializing", "persist"}

(* The fields a request has in each of its kinds.                          *)
LEMMA Kinds ==
  ASSUME NEW r \in Requests
  PROVE  /\ r.op = "none" => r \in Idles /\ r.pc \in Answers \cup {"idle"}
         /\ r.op = "init" => r \in Inits /\ r.pc \in InitPc /\ r.sid \in Sids /\ r.w \in Wid
         /\ r.op = "use" => r \in Uses /\ r.pc \in UsePc /\ r.sid \in Sids /\ r.w \in Wid \cup {0}
         /\ r.op = "delete" => r \in Deletes /\ r.pc \in {"close", "forget"} /\ r.sid \in Sids
         /\ r.op \in {"none", "init", "use", "delete"}
BY DEF Requests, Idles, Inits, Uses, Deletes, UsePc, InitPc

(* Which kind of request is at a point that only one kind reaches          *)
LEMMA KindOfPc ==
  ASSUME NEW r \in Requests
  PROVE  /\ r.pc \in {"wait", "404", "refused", "has", "restore", "serve", "asked", "load", "allocate",
                      "respawn", "initialized"} => r.op = "use"
         /\ r.pc \in {"service", "persist"} => r.op = "init"
         /\ r.pc \in {"initialize", "initializing"} => r.op \in {"init", "use"}
         /\ r.pc \in Answers \cup {"idle"} => r.op = "none"
BY Kinds DEF UsePc, InitPc, RestoringPc, Answers

(* A request that was answered, and is nobody's now.                       *)
LEMMA IdleMoves ==
  ASSUME NEW pc \in Answers \cup {"idle"}
  PROVE  LET n == [Idle EXCEPT !.pc = pc] IN
           n \in Requests /\ n.op = "none" /\ n.pc = pc /\ n.pc # "404"
BY DEF Idle, Idles, Requests, Answers

(* No request yet.                                                         *)
LEMMA IdleRequest == Idle \in Requests /\ Idle.op = "none" /\ Idle.pc = "idle"
BY DEF Idle, Idles, Requests

(* A Goto is a move of one record                                          *)
LEMMA GotoIs ==
  ASSUME task \in [Tasks -> Requests], NEW t \in Tasks, NEW pc, NEW w
  PROVE  /\ Goto(t, pc) => task' = [task EXCEPT ![t] = [task[t] EXCEPT !.pc = pc]]
         /\ task' = [task EXCEPT ![t].pc = pc, ![t].w = w] =>
              task' = [task EXCEPT ![t] = [task[t] EXCEPT !.pc = pc, !.w = w]]
BY DEF Goto

Claims(r) == r.op = "use" /\ r.pc \in {"has", "restore", "load", "allocate"}

(* One request moves on, or ends                                           *)
LEMMA OneMoves ==
  ASSUME TaskInv, NEW t \in Tasks, NEW r \in Requests, task' = [task EXCEPT ![t] = r],
         pending' = pending, SidsKept, issued' = issued, store' \subseteq store,
         r.op \in {"none", "delete"} \/ (r.op = task[t].op /\ r.sid = task[t].sid),
         r.op = "init" => worker[r.w].sid = r.sid,
         r.op = "use" /\ r.pc \in RestoringPc => Restoring(t),
         r.pc = "404" => Gone(r.sid),
         Claims(r) => Claims(task[t])
  PROVE  TaskInv' /\ Claimants' \subseteq Claimants
<1>1. /\ task \in [Tasks -> Requests] /\ task' \in [Tasks -> Requests] /\ task'[t] = r
      /\ \A u \in Tasks : u # t => task'[u] = task[u]
  BY DEF TaskInv
<1>2. EntriesOk'
  <2>1. ASSUME NEW u \in Tasks, Restoring(u)' PROVE Restoring(u) /\ task'[u].sid = task[u].sid
    <3>1. CASE u = t
      BY <2>1, <3>1, <1>1 DEF Restoring
    <3>2. CASE u # t
      BY <2>1, <3>2, <1>1 DEF Restoring
    <3> QED BY <3>1, <3>2
  <2>2. ASSUME NEW u \in Tasks, Restoring(u)' PROVE Holds(u, task[u].sid)'
    <3>1. Holds(u, task[u].sid) /\ task'[u].sid = task[u].sid
      BY <2>1, <2>2 DEF TaskInv, EntriesOk
    <3> QED BY <3>1 DEF Holds
  <2> QED BY <2>2 DEF TaskInv, EntriesOk
<1>3. IssuedOk'
  <2>1. \A u \in Tasks : task'[u].op \in {"init", "use"} =>
                            task'[u].op = task[u].op /\ task'[u].sid = task[u].sid
    BY <1>1
  <2>2. \A u \in Tasks : task'[u].op = "use" => task'[u].sid \in issued'
    BY <2>1 DEF TaskInv, IssuedOk
  <2>3. ASSUME NEW u \in Tasks, task'[u].op = "init"
        PROVE  task'[u].sid \notin issued' /\ worker'[task'[u].w].sid = task'[u].sid
    <3>1. task[u].op = "init" /\ task'[u].sid = task[u].sid /\ task'[u].sid \notin issued'
      BY <2>1, <2>3 DEF TaskInv, IssuedOk
    <3>2. worker[task'[u].w].sid = task'[u].sid
      BY <2>3, <1>1, <3>1 DEF TaskInv, IssuedOk
    <3>3. task'[u].w \in Wid /\ task'[u].sid \in Sids
      <4>1. task'[u] \in Requests
        BY <1>1
      <4> QED BY <4>1, <2>3, Kinds
    <3> QED BY <3>1, <3>2, <3>3 DEF SidsKept
  <2>4. \A u, v \in Tasks : task'[u].op = "init" /\ task'[v].op = "init" /\ task'[u].sid = task'[v].sid => u = v
    BY <2>1 DEF TaskInv, IssuedOk
  <2>5. \A s \in Sids : pending'[s] # None => s \in issued'
    BY DEF TaskInv, IssuedOk
  <2> QED BY <1>1, <2>2, <2>3, <2>4, <2>5 DEF TaskInv, IssuedOk
<1>4. GoneOk'
  <2>1. ASSUME NEW s, Gone(s) PROVE Gone(s)'
    BY <2>1 DEF Gone
  <2>2. \A s \in Sids : pending'[s] # None /\ pending'[s].result = "no" => Gone(s)'
    BY <2>1 DEF TaskInv, GoneOk
  <2>3. ASSUME NEW u \in Tasks, task'[u].pc = "404"
        PROVE  task'[u].sid \notin store'
    <3>1. Gone(task'[u].sid)
      BY <2>3, <1>1 DEF TaskInv, GoneOk, NotFoundMeansGone, Gone
    <3> QED BY <3>1 DEF Gone
  <2> QED BY <2>2, <2>3 DEF GoneOk, NotFoundMeansGone
<1>5. Claimants' \subseteq Claimants
  BY <1>1 DEF Claimants, Claims
<1> QED BY <1>1, <1>2, <1>3, <1>4, <1>5 DEF TaskInv

(* A request that restores a session holds its entry.                      *)
LEMMA RestoringHolds ==
  ASSUME TaskInv, NEW t \in Tasks, Restoring(t)
  PROVE  task[t].op = "use" /\ Holds(t, task[t].sid)
BY DEF TaskInv, EntriesOk, Restoring

(* PendingRestoreGuard::drop by the request that holds the entry: whoever  *)
(* waits gets the result                                                   *)
LEMMA GuardDrops ==
  ASSUME TaskInv, NEW t \in Tasks, task[t].op = "use", Holds(t, task[t].sid), NEW result \in {"yes", "no", "failed"}, NEW mine \in Requests,
         DropGuard(t, result, mine), SidsKept, issued' = issued, store' = store,
         \/ mine.op = "none"
         \/ mine.op = "use" /\ mine.sid = task[t].sid /\ mine.pc \in {"serve", "404"},
         mine.pc = "404" => result = "no" /\ mine.sid = task[t].sid,
         result = "no" => task[t].sid \notin store
  PROVE  TaskInv' /\ Claimants' \subseteq Claimants
<1>1. PICK s \in Sids : s = task[t].sid
  <2>1. task[t] \in Requests
    BY DEF TaskInv
  <2> QED BY <2>1, Kinds
<1>2. /\ pending \in [Sids -> Entries \cup {None}] /\ pending[s] \in Entries
      /\ pending[s].by = t /\ pending[s].result = "none"
  BY <1>1 DEF TaskInv, EntriesOk, Holds
<1>3. /\ pending' \in [Sids -> Entries \cup {None}]
      /\ pending'[s] \in Entries /\ pending'[s].result = result
      /\ \A x \in Sids : x # s => pending'[x] = pending[x]
  <2> DEFINE e == [pending[s] EXCEPT !.result = result]
  <2>1. e \in Entries /\ e.result = result
    BY <1>2 DEF Entries
  <2>2. pending' = [pending EXCEPT ![s] = e]
    BY <1>1, <1>2 DEF DropGuard
  <2> HIDE DEF e
  <2> QED BY <1>2, <2>1, <2>2
<1> DEFINE next == AfterRestore(result)
<1>4. \A u \in Tasks :
        task'[u] = IF u = t THEN mine
                   ELSE IF task[u].pc = "wait" /\ task[u].sid = s THEN [task[u] EXCEPT !.pc = next]
                   ELSE task[u]
  BY <1>1 DEF DropGuard
<1>5. task'[t] = mine
  BY <1>4
<1>6. ASSUME NEW u \in Tasks, u # t, ~(task[u].pc = "wait" /\ task[u].sid = s) PROVE task'[u] = task[u]
  BY <1>4, <1>6
<1>7. ASSUME NEW u \in Tasks, u # t, task[u].pc = "wait", task[u].sid = s
      PROVE  /\ task'[u] \in Requests /\ task'[u].op = "use" /\ task'[u].pc = next /\ task'[u].sid = s
             /\ task[u].op = "use"
  <2>1. task'[u] = [task[u] EXCEPT !.pc = next]
    BY <1>4, <1>7
  <2>2. task[u] \in Requests
    BY DEF TaskInv
  <2>3. task[u].op = "use"
    BY <2>2, <1>7, KindOfPc
  <2>4. task[u] \in Uses
    BY <2>2, <2>3, Kinds
  <2>5. next \in UsePc
    BY DEF UsePc, AfterRestore
  <2> HIDE DEF next
  <2>6. LET n == [task[u] EXCEPT !.pc = next] IN
              n \in Requests /\ n.op = "use" /\ n.pc = next /\ n.sid = task[u].sid
    BY <2>4, <2>5 DEF Uses, UsePc, Requests
  <2> QED BY <1>7, <2>1, <2>3, <2>6
<1>8. next \in {"serve", "404", "refused"} /\ (next = "404" => result = "no")
  BY DEF AfterRestore
<1> HIDE DEF next
<1>9. task' \in [Tasks -> Requests]
  <2>1. \A u \in Tasks : task'[u] \in Requests
    BY <1>5, <1>6, <1>7 DEF TaskInv
  <2>2. DOMAIN task' = Tasks /\ task' = [u \in Tasks |-> task'[u]]
    BY DEF DropGuard
  <2> QED BY <2>1, <2>2
<1>10. EntriesOk'
  <2>1. ASSUME NEW u \in Tasks, Restoring(u)' PROVE Holds(u, task[u].sid)'
    <3>1. u # t
      BY <2>1, <1>5 DEF Restoring, RestoringPc
    <3>2. ~(task[u].pc = "wait" /\ task[u].sid = s)
      BY <2>1, <3>1, <1>7, <1>8 DEF Restoring, RestoringPc
    <3>3. task'[u] = task[u] /\ Restoring(u)
      BY <2>1, <3>1, <3>2, <1>6 DEF Restoring
    <3>4. Holds(u, task[u].sid) /\ task[u].sid \in Sids
      <4>1. task[u] \in Requests
        BY DEF TaskInv
      <4> QED BY <4>1, <3>3, Kinds DEF TaskInv, EntriesOk, Restoring
    <3>5. task[u].sid # s
      BY <3>1, <3>4, <1>2 DEF Holds
    <3> QED BY <3>3, <3>4, <3>5, <1>3 DEF Holds
  <2> QED BY <1>3, <2>1 DEF EntriesOk
<1>11. IssuedOk'
  <2>1. \A u \in Tasks : /\ task'[u].op = "use" => task[u].op = "use" /\ task'[u].sid = task[u].sid
                         /\ task'[u].op = "init" => task'[u] = task[u]
    <3>1. ASSUME NEW u \in Tasks
          PROVE  /\ task'[u].op = "use" => task[u].op = "use" /\ task'[u].sid = task[u].sid
                 /\ task'[u].op = "init" => task'[u] = task[u]
      <4>1. CASE u = t
        BY <4>1, <1>5
      <4>2. CASE u # t /\ task[u].pc = "wait" /\ task[u].sid = s
        BY <4>2, <1>7
      <4>3. CASE u # t /\ ~(task[u].pc = "wait" /\ task[u].sid = s)
        BY <4>3, <1>6
      <4> QED BY <4>1, <4>2, <4>3
    <3> QED BY <3>1
  <2>2. \A u \in Tasks : task'[u].op = "use" => task'[u].sid \in issued'
    BY <2>1 DEF TaskInv, IssuedOk
  <2>3. ASSUME NEW u \in Tasks, task'[u].op = "init"
        PROVE  task'[u].sid \notin issued' /\ worker'[task'[u].w].sid = task'[u].sid
    <3>1. task'[u] = task[u] /\ task[u].op = "init" /\ task[u] \in Requests
      BY <2>1, <2>3 DEF TaskInv
    <3>2. task[u].w \in Wid /\ task[u].sid \in Sids
      BY <3>1, Kinds
    <3> QED BY <3>1, <3>2 DEF TaskInv, IssuedOk, SidsKept
  <2>4. \A u, v \in Tasks : task'[u].op = "init" /\ task'[v].op = "init" /\ task'[u].sid = task'[v].sid => u = v
    BY <2>1 DEF TaskInv, IssuedOk
  <2>5. \A x \in Sids : pending'[x] # None => x \in issued'
    <3>1. pending[s] # None
      BY <1>2, SessionsAssumption
    <3> QED BY <3>1, <1>3 DEF TaskInv, IssuedOk
  <2> QED BY <1>1, <2>2, <2>3, <2>4, <2>5 DEF TaskInv, IssuedOk
<1>12. GoneOk'
  <2>1. ASSUME NEW x, Gone(x) PROVE Gone(x)'
    BY <2>1 DEF Gone
  <2>2. result = "no" => Gone(s)'
    BY <1>1 DEF Gone
  <2>3. \A x \in Sids : pending'[x] # None /\ pending'[x].result = "no" => Gone(x)'
    BY <1>3, <2>1, <2>2 DEF TaskInv, GoneOk
  <2>4. ASSUME NEW u \in Tasks, task'[u].pc = "404"
        PROVE  task'[u].sid \notin store'
    <3>1. CASE u = t
      BY <3>1, <2>4, <1>1, <1>5, <2>2 DEF Gone
    <3>2. CASE u # t /\ task[u].pc = "wait" /\ task[u].sid = s
      BY <3>2, <2>4, <1>7, <1>8, <2>2 DEF Gone
    <3>3. CASE u # t /\ ~(task[u].pc = "wait" /\ task[u].sid = s)
      <4>1. task'[u] = task[u] /\ Gone(task[u].sid)
        BY <3>3, <2>4, <1>6 DEF TaskInv, GoneOk, NotFoundMeansGone, Gone
      <4> QED BY <4>1 DEF Gone
    <3> QED BY <3>1, <3>2, <3>3
  <2> QED BY <2>3, <2>4 DEF GoneOk, NotFoundMeansGone
<1>13. Claimants' \subseteq Claimants
  <2> SUFFICES ASSUME NEW u \in Tasks, task'[u].op = "use",
                      task'[u].pc \in {"has", "restore", "load", "allocate"}
               PROVE  task'[u] = task[u]
    BY DEF Claimants
  <2>1. u # t
    BY <1>5
  <2>2. ~(task[u].pc = "wait" /\ task[u].sid = s)
    BY <2>1, <1>7, <1>8
  <2> QED BY <2>1, <2>2, <1>6
<1> QED BY <1>9, <1>10, <1>11, <1>12, <1>13 DEF TaskInv

(* Workers change, the requests do not                                     *)
LEMMA TasksSame ==
  ASSUME TaskInv, SidsKept, UNCHANGED <<task, pending, issued, store>>
  PROVE  TaskInv' /\ Claimants' \subseteq Claimants
<1>1. EntriesOk'
  BY DEF TaskInv, EntriesOk, Restoring, Holds
<1>2. GoneOk'
  BY DEF TaskInv, GoneOk, NotFoundMeansGone, Gone
<1>3. ASSUME NEW t \in Tasks, task[t].op = "init" PROVE worker'[task[t].w].sid = task[t].sid
  <2>1. task[t] \in Requests
    BY DEF TaskInv
  <2>2. task[t].w \in Wid /\ task[t].sid \in Sids
    BY <1>3, <2>1, Kinds
  <2> QED BY <1>3, <2>2 DEF TaskInv, IssuedOk, SidsKept
<1>4. IssuedOk'
  BY <1>3 DEF TaskInv, IssuedOk
<1> QED BY <1>1, <1>2, <1>4 DEF TaskInv, Claimants

(* A step after which no more requests may need a worker.                  *)
LEMMA Kept ==
  ASSUME SessInv, WorkersOk', Unused' = Unused, TaskInv', Claimants' \subseteq Claimants
  PROVE  SessInv'
<1>1. Cardinality(Claimants') =< Cardinality(Claimants)
  <2>1. IsFiniteSet(Claimants)
    BY Finite DEF Claimants
  <2> QED BY <2>1, FS_Subset
<1>2. /\ Cardinality(Claimants) \in Nat /\ Cardinality(Unused) \in Nat /\ Cardinality(Claimants') \in Nat
  <2>1. Claimants \in SUBSET Tasks /\ Claimants' \in SUBSET Tasks
    BY DEF Claimants
  <2> QED BY <2>1, Finite
<1>3. CountOk'
  BY <1>1, <1>2 DEF SessInv, CountOk
<1> QED BY <1>3 DEF SessInv

(* An answer ends a request, whatever it was                               *)
LEMMA AnswerMoves ==
  ASSUME TaskInv, NEW t \in Tasks, NEW code \in Answers, Answer(t, code),
         pending' = pending, SidsKept, issued' = issued, store' \subseteq store
  PROVE  TaskInv' /\ Claimants' \subseteq Claimants
<1>1. PICK r \in Requests : r = [Idle EXCEPT !.pc = code] /\ r.op = "none" /\ r.pc # "404"
  BY IdleMoves
<1>2. task' = [task EXCEPT ![t] = r]
  BY <1>1 DEF Answer
<1> QED BY <1>1, <1>2, OneMoves DEF Claims

(* A request that uses a session goes on                                   *)
LEMMA UseGoes ==
  ASSUME TaskInv, NEW t \in Tasks, task[t].op = "use", NEW pc \in UsePc, NEW w \in Wid \cup {0},
         Goto(t, pc) \/ task' = [task EXCEPT ![t].pc = pc, ![t].w = w],
         pending' = pending, SidsKept, issued' = issued, store' \subseteq store,
         pc \in RestoringPc => Restoring(t),
         pc = "404" => Gone(task[t].sid),
         pc \in {"has", "restore", "load", "allocate"} => Claims(task[t])
  PROVE  TaskInv' /\ Claimants' \subseteq Claimants
<1>1. task \in [Tasks -> Requests] /\ task[t] \in Requests
  BY DEF TaskInv
<1>2. task[t] \in Uses
  BY <1>1, Kinds
<1>3. PICK r \in Requests : /\ task' = [task EXCEPT ![t] = r]
                            /\ r.op = "use" /\ r.pc = pc /\ r.sid = task[t].sid
  <2>1. CASE Goto(t, pc)
    <3> DEFINE n == [task[t] EXCEPT !.pc = pc]
    <3>1. task' = [task EXCEPT ![t] = n]
      BY <2>1, <1>1, GotoIs
    <3>2. n \in Requests /\ n.op = "use" /\ n.pc = pc /\ n.sid = task[t].sid /\ n.w = task[t].w
      BY <1>2 DEF Uses, UsePc, Requests
    <3> HIDE DEF n
    <3> QED BY <1>2, <3>1, <3>2
  <2>2. CASE task' = [task EXCEPT ![t].pc = pc, ![t].w = w]
    <3> DEFINE n == [task[t] EXCEPT !.pc = pc, !.w = w]
    <3>1. task' = [task EXCEPT ![t] = n]
      BY <2>2, <1>1, GotoIs
    <3>2. n \in Requests /\ n.op = "use" /\ n.pc = pc /\ n.sid = task[t].sid /\ n.w = w
      BY <1>2 DEF Uses, UsePc, Requests
    <3> HIDE DEF n
    <3> QED BY <2>2, <3>1, <3>2
  <2> QED BY <2>1, <2>2
<1> QED BY <1>3, OneMoves DEF Claims

(* A request that creates a session goes on                                *)
LEMMA InitGoes ==
  ASSUME TaskInv, NEW t \in Tasks, task[t].op = "init", NEW pc \in InitPc, NEW w \in Wid,
         \/ Goto(t, pc)
         \/ task' = [task EXCEPT ![t].pc = pc, ![t].w = w] /\ worker[w].sid = task[t].sid,
         pending' = pending, SidsKept, issued' = issued, store' \subseteq store
  PROVE  TaskInv' /\ Claimants' \subseteq Claimants
<1>1. task \in [Tasks -> Requests] /\ task[t] \in Requests
  BY DEF TaskInv
<1>2. task[t] \in Inits /\ worker[task[t].w].sid = task[t].sid
  BY <1>1, Kinds DEF TaskInv, IssuedOk
<1>3. PICK r \in Requests : /\ task' = [task EXCEPT ![t] = r]
                            /\ r.op = "init" /\ r.pc = pc /\ r.sid = task[t].sid
                            /\ worker[r.w].sid = r.sid
  <2>1. CASE Goto(t, pc)
    <3> DEFINE n == [task[t] EXCEPT !.pc = pc]
    <3>1. task' = [task EXCEPT ![t] = n]
      BY <2>1, <1>1, GotoIs
    <3>2. n \in Requests /\ n.op = "init" /\ n.pc = pc /\ n.sid = task[t].sid /\ n.w = task[t].w
      BY <1>2 DEF Inits, InitPc, Requests
    <3> HIDE DEF n
    <3> QED BY <1>2, <3>1, <3>2
  <2>2. CASE task' = [task EXCEPT ![t].pc = pc, ![t].w = w] /\ worker[w].sid = task[t].sid
    <3> DEFINE n == [task[t] EXCEPT !.pc = pc, !.w = w]
    <3>1. task' = [task EXCEPT ![t] = n]
      BY <2>2, <1>1, GotoIs
    <3>2. n \in Requests /\ n.op = "init" /\ n.pc = pc /\ n.sid = task[t].sid /\ n.w = w
      BY <1>2 DEF Inits, InitPc, Requests
    <3> HIDE DEF n
    <3> QED BY <2>2, <3>1, <3>2
  <2> QED BY <2>1, <2>2
<1>4. pc # "404"
  BY DEF InitPc
<1> QED BY <1>3, <1>4, OneMoves DEF Claims

----------------------------------------------------------------------------
(* The steps that do more than move one request.                           *)

(* A worker may be had whenever the bound allows a new request             *)
LEMMA SpareWorker ==
  ASSUME Spare
  PROVE  /\ Unused # {} /\ Cardinality(Claimants) < Cardinality(Unused)
         /\ Cardinality(Claimants) \in Nat /\ Cardinality(Unused) \in Nat
<1> DEFINE users == {t \in Tasks : task[t].op = "use"}
<1>1. Cardinality(Unused) > Cardinality(users)
  BY DEF Spare, Unused
<1>2. Claimants \in SUBSET users /\ users \in SUBSET Tasks /\ Claimants \in SUBSET Tasks
  BY DEF Claimants
<1>3. IsFiniteSet(users) /\ Cardinality(users) \in Nat /\ Cardinality(Claimants) \in Nat /\ Cardinality(Unused) \in Nat
  BY <1>2, Finite
<1>4. Cardinality(Claimants) =< Cardinality(users)
  BY <1>2, <1>3, FS_Subset
<1>5. Unused # {}
  BY <1>1, <1>3, FS_EmptySet
<1> QED BY <1>1, <1>3, <1>4, <1>5

(* An initialize request takes a session id nobody had.                    *)
LEMMA StartInitStep ==
  ASSUME SessInv, NEW t \in Tasks, StartInit(t)
  PROVE  SessInv'
<1>0. PICK s \in Sids \ issued :
        /\ sessions[s] = 0 /\ \A w \in Wid : worker[w].sid # s
        /\ Allocate(s)
        /\ task' = [task EXCEPT ![t] = [op |-> "init", pc |-> "service", sid |-> s, w |-> NewWid]]
  BY DEF StartInit
<1>1. /\ Spare /\ UNCHANGED <<pending, issued, store>> /\ task[t].pc = "idle"
      /\ WorkersOk /\ TaskInv /\ task \in [Tasks -> Requests]
  BY DEF StartInit, SessInv, TaskInv
<1>2. /\ WorkersOk' /\ SidsKept /\ NewWid \in Unused /\ Unused' = Unused \ {NewWid}
      /\ NewWid \in Wid /\ worker'[NewWid].sid = s
  BY <1>0, <1>1, SpareWorker, AllocateWorker
<1> DEFINE r == [op |-> "init", pc |-> "service", sid |-> s, w |-> NewWid]
<1>3. r \in Requests /\ r.op = "init" /\ r.pc = "service" /\ r.sid = s /\ r.w = NewWid
  BY <1>2 DEF Requests, Inits
<1>4. task' = [task EXCEPT ![t] = r]
  BY <1>0
<1> HIDE DEF r
<1>5. /\ task' \in [Tasks -> Requests] /\ task'[t] = r
      /\ \A u \in Tasks : u # t => task'[u] = task[u]
  BY <1>1, <1>3, <1>4
<1>6. EntriesOk'
  <2>1. ASSUME NEW u \in Tasks, Restoring(u)' PROVE u # t /\ Restoring(u) /\ task'[u] = task[u]
    BY <2>1, <1>3, <1>5 DEF Restoring
  <2> QED BY <1>1, <2>1 DEF TaskInv, EntriesOk, Holds
<1>7. GoneOk'
  <2>1. \A u \in Tasks : task'[u].pc = "404" => task'[u] = task[u]
    BY <1>3, <1>5
  <2> QED BY <1>1, <2>1 DEF TaskInv, GoneOk, NotFoundMeansGone, Gone
<1>8. IssuedOk'
  <2>1. ASSUME NEW u \in Tasks, task[u].op = "init"
        PROVE  task[u].sid # s /\ worker'[task[u].w].sid = task[u].sid
    <3>1. task[u] \in Requests
      BY <1>1
    <3>2. task[u].w \in Wid /\ task[u].sid \in Sids /\ worker[task[u].w].sid = task[u].sid
      BY <2>1, <3>1, <1>1, Kinds DEF TaskInv, IssuedOk
    <3> QED BY <1>0, <1>2, <3>2 DEF SidsKept
  <2>2. \A u \in Tasks : task'[u].op = "use" => task'[u].sid \in issued'
    BY <1>1, <1>3, <1>5 DEF TaskInv, IssuedOk
  <2>3. \A u \in Tasks : task'[u].op = "init" =>
          task'[u].sid \notin issued' /\ worker'[task'[u].w].sid = task'[u].sid
    BY <1>0, <1>1, <1>2, <1>3, <1>5, <2>1 DEF TaskInv, IssuedOk
  <2>4. \A u, v \in Tasks : task'[u].op = "init" /\ task'[v].op = "init" /\ task'[u].sid = task'[v].sid => u = v
    BY <1>1, <1>3, <1>5, <2>1 DEF TaskInv, IssuedOk
  <2>5. \A x \in Sids : pending'[x] # None => x \in issued'
    BY <1>1 DEF TaskInv, IssuedOk
  <2> QED BY <1>1, <2>2, <2>3, <2>4, <2>5 DEF TaskInv, IssuedOk
<1>9. CountOk'
  <2>1. Claimants' \in SUBSET Claimants
    BY <1>3, <1>5 DEF Claimants
  <2>2. Claimants \in SUBSET Tasks /\ Claimants' \in SUBSET Tasks
    BY DEF Claimants
  <2>3. Cardinality(Claimants') =< Cardinality(Claimants) /\ Cardinality(Claimants') \in Nat
    BY <2>1, <2>2, Finite, FS_Subset
  <2>4. Cardinality(Unused \ {NewWid}) = Cardinality(Unused) - 1
    BY <1>2, Finite, FS_RemoveElement
  <2> QED BY <1>1, <1>2, <2>3, <2>4, SpareWorker DEF CountOk
<1> QED BY <1>2, <1>5, <1>6, <1>7, <1>8, <1>9 DEF SessInv, TaskInv

(* A request names a session.                                              *)
LEMMA StartUseStep ==
  ASSUME SessInv, NEW t \in Tasks, NEW s \in issued, StartUse(t, s)
  PROVE  SessInv'
<1>1. /\ Spare /\ UNCHANGED <<pending, issued, store, worker, sessions>>
      /\ task' = [task EXCEPT ![t] = [op |-> "use", pc |-> "has", sid |-> s, w |-> 0]]
      /\ WorkersOk /\ TaskInv /\ task \in [Tasks -> Requests]
  BY DEF StartUse, SessInv, TaskInv
<1>2. WorkersOk' /\ SidsKept /\ Unused' = Unused
  BY <1>1, WorkersSame
<1> DEFINE r == [op |-> "use", pc |-> "has", sid |-> s, w |-> 0]
<1>3. r \in Requests /\ r.op = "use" /\ r.pc = "has" /\ r.sid = s
  BY <1>1 DEF Requests, Uses, TaskInv, IssuedOk
<1>4. task' = [task EXCEPT ![t] = r]
  BY <1>1
<1> HIDE DEF r
<1>5. /\ task' \in [Tasks -> Requests] /\ task'[t] = r
      /\ \A u \in Tasks : u # t => task'[u] = task[u]
  BY <1>1, <1>3, <1>4
<1>6. EntriesOk'
  <2>1. ASSUME NEW u \in Tasks, Restoring(u)' PROVE u # t /\ Restoring(u) /\ task'[u] = task[u]
    BY <2>1, <1>3, <1>5 DEF Restoring, RestoringPc
  <2> QED BY <1>1, <2>1 DEF TaskInv, EntriesOk, Holds
<1>7. GoneOk'
  <2>1. \A u \in Tasks : task'[u].pc = "404" => task'[u] = task[u]
    BY <1>3, <1>5
  <2> QED BY <1>1, <2>1 DEF TaskInv, GoneOk, NotFoundMeansGone, Gone
<1>8. IssuedOk'
  <2>1. \A u \in Tasks : task'[u].op = "init" => task'[u] = task[u]
    BY <1>3, <1>5
  <2>2. \A u \in Tasks : task'[u].op = "use" => task'[u].sid \in issued'
    BY <1>1, <1>3, <1>5 DEF TaskInv, IssuedOk
  <2> QED BY <1>1, <2>1, <2>2 DEF TaskInv, IssuedOk
<1>9. CountOk'
  <2>1. Claimants' \in SUBSET (Claimants \cup {t})
    BY <1>5 DEF Claimants
  <2>2. Claimants \in SUBSET Tasks /\ Claimants' \in SUBSET Tasks
    BY DEF Claimants
  <2>3. IsFiniteSet(Claimants \cup {t}) /\ Cardinality(Claimants \cup {t}) =< Cardinality(Claimants) + 1
    BY <2>2, Finite, FS_AddElement
  <2>4. Cardinality(Claimants') =< Cardinality(Claimants \cup {t}) /\ Cardinality(Claimants') \in Nat
        /\ Cardinality(Claimants \cup {t}) \in Nat
    BY <2>1, <2>2, <2>3, Finite, FS_Subset, FS_CardinalityType
  <2> QED BY <1>1, <1>2, <2>3, <2>4, SpareWorker DEF CountOk
<1> QED BY <1>2, <1>5, <1>6, <1>7, <1>8, <1>9 DEF SessInv, TaskInv

(* A new session is stored before any client knows it: nobody was told     *)
(* that it is not there                                                    *)
LEMMA PersistStep ==
  ASSUME SessInv, NEW t \in Tasks, Persist(t)
  PROVE  SessInv'
<1>1. /\ task[t].op = "init" /\ issued' = issued \cup {task[t].sid} /\ Answer(t, "200")
      /\ UNCHANGED <<sessions, worker, pending>> /\ store' \subseteq store \cup {task[t].sid}
      /\ WorkersOk /\ TaskInv /\ task \in [Tasks -> Requests] /\ task[t] \in Requests
  BY DEF Persist, At, SessInv, TaskInv
<1>2. PICK s \in Sids : s = task[t].sid /\ s \notin issued
  BY <1>1, Kinds DEF TaskInv, IssuedOk
<1>3. WorkersOk' /\ Unused' = Unused
  BY <1>1, WorkersSame
<1>4. PICK r \in Requests : r = [Idle EXCEPT !.pc = "200"] /\ r.op = "none" /\ r.pc # "404"
  BY IdleMoves DEF Answers
<1>5. /\ task' \in [Tasks -> Requests] /\ task'[t] = r
      /\ \A u \in Tasks : u # t => task'[u] = task[u]
  BY <1>1, <1>4 DEF Answer
<1>6. EntriesOk'
  <2>1. ASSUME NEW u \in Tasks, Restoring(u)' PROVE u # t /\ Restoring(u) /\ task'[u] = task[u]
    BY <2>1, <1>4, <1>5 DEF Restoring
  <2> QED BY <1>1, <2>1 DEF TaskInv, EntriesOk, Holds
<1>7. GoneOk'
  <2>2. ASSUME NEW x \in Sids, pending'[x] # None, pending'[x].result = "no" PROVE Gone(x)'
    <3>1. x \in issued /\ Gone(x)
      BY <1>1, <2>2 DEF TaskInv, GoneOk, IssuedOk
    <3> QED BY <3>1, <1>1, <1>2 DEF Gone
  <2>3. ASSUME NEW u \in Tasks, task'[u].pc = "404"
        PROVE  task'[u].sid \notin store'
    <3>1. task'[u] = task[u] /\ task[u] \in Requests
      BY <2>3, <1>1, <1>4, <1>5
    <3>2. task[u].op = "use"
      BY <2>3, <3>1, KindOfPc
    <3>3. task[u].sid \in issued /\ Gone(task[u].sid)
      BY <2>3, <3>1, <3>2, <1>1 DEF TaskInv, IssuedOk, GoneOk, NotFoundMeansGone, Gone
    <3>4. Gone(task[u].sid)'
      BY <3>1, <3>3, <1>1, <1>2 DEF Gone
    <3> QED BY <3>4 DEF Gone
  <2> QED BY <2>2, <2>3 DEF GoneOk, NotFoundMeansGone
<1>8. IssuedOk'
  <2>1. issued' \subseteq Sids
    BY <1>1, <1>2 DEF TaskInv, IssuedOk
  <2>2. \A u \in Tasks : task'[u].op = "use" => task'[u].sid \in issued'
    BY <1>1, <1>4, <1>5 DEF TaskInv, IssuedOk
  <2>3. ASSUME NEW u \in Tasks, task'[u].op = "init"
        PROVE  task'[u].sid \notin issued' /\ worker'[task'[u].w].sid = task'[u].sid
    <3>1. u # t /\ task'[u] = task[u]
      BY <2>3, <1>4, <1>5
    <3>2. task[u].sid # s
      BY <2>3, <3>1, <1>1, <1>2 DEF TaskInv, IssuedOk
    <3> QED BY <2>3, <3>1, <3>2, <1>1, <1>2 DEF TaskInv, IssuedOk
  <2>4. \A u, v \in Tasks : task'[u].op = "init" /\ task'[v].op = "init" /\ task'[u].sid = task'[v].sid => u = v
    <3>1. \A u \in Tasks : task'[u].op = "init" => task'[u] = task[u]
      BY <1>4, <1>5
    <3>2. \A u, v \in Tasks : task[u].op = "init" /\ task[v].op = "init" /\ task[u].sid = task[v].sid => u = v
      BY <1>1 DEF TaskInv, IssuedOk
    <3> QED BY <3>1, <3>2
  <2>5. \A x \in Sids : pending'[x] # None => x \in issued'
    BY <1>1 DEF TaskInv, IssuedOk
  <2> QED BY <2>1, <2>2, <2>3, <2>4, <2>5 DEF IssuedOk
<1>9. Claimants' \subseteq Claimants
  BY <1>4, <1>5 DEF Claimants
<1> QED BY <1>3, <1>5, <1>6, <1>7, <1>8, <1>9, Kept DEF TaskInv

(* try_restore_from_store: the first request takes the entry               *)
LEMMA EnterStep ==
  ASSUME SessInv, NEW t \in Tasks, EnterRestore(t)
  PROVE  SessInv'
<1>1. /\ task[t].op = "use" /\ task[t].pc = "restore"
      /\ UNCHANGED <<sessions, worker, store, issued>>
      /\ WorkersOk /\ TaskInv /\ task \in [Tasks -> Requests] /\ task[t] \in Requests
  BY DEF EnterRestore, At, SessInv, TaskInv
<1>2. WorkersOk' /\ SidsKept /\ Unused' = Unused
  BY <1>1, WorkersSame
<1>3. PICK s \in Sids : s = task[t].sid /\ s \in issued
  BY <1>1, Kinds DEF TaskInv, IssuedOk
<1>4. pending \in [Sids -> Entries \cup {None}]
  BY <1>1 DEF TaskInv, EntriesOk
<1>5. CASE pending[s] = None
  <2> DEFINE e == [by |-> t, result |-> "none"]
  <2>1. e \in Entries /\ e.by = t /\ e.result = "none"
    BY DEF Entries
  <2>2. pending' = [pending EXCEPT ![s] = e] /\ Goto(t, "load")
    BY <1>3, <1>5 DEF EnterRestore
  <2> HIDE DEF e
  <2>3. /\ pending' \in [Sids -> Entries \cup {None}] /\ pending'[s] = e
        /\ \A x \in Sids : x # s => pending'[x] = pending[x]
    BY <1>4, <2>1, <2>2
  <2> DEFINE r == [task[t] EXCEPT !.pc = "load"]
  <2>4. r \in Requests /\ r.op = "use" /\ r.pc = "load" /\ r.sid = s
    <3>1. task[t] \in Uses
      BY <1>1, Kinds
    <3> QED BY <1>3, <3>1 DEF Uses, Requests, RestoringPc
  <2>5. task' = [task EXCEPT ![t] = r]
    BY <1>1, <2>2, GotoIs
  <2> HIDE DEF r
  <2>6. /\ task' \in [Tasks -> Requests] /\ task'[t] = r
        /\ \A u \in Tasks : u # t => task'[u] = task[u]
    BY <1>1, <2>4, <2>5
  <2>7. EntriesOk'
    <3>1. ASSUME NEW u \in Tasks, Restoring(u)' PROVE Holds(u, task[u].sid)'
      <4>1. CASE u = t
        BY <4>1, <2>1, <2>3, <2>4, <2>6 DEF Holds
      <4>2. CASE u # t
        <5>1. task'[u] = task[u] /\ Restoring(u) /\ Holds(u, task[u].sid)
          BY <3>1, <4>2, <2>6, <1>1 DEF Restoring, TaskInv, EntriesOk
        <5>2. task[u].sid # s
          BY <5>1, <1>5, SessionsAssumption DEF Holds
        <5>3. task[u].sid \in Sids
          <6>1. task[u] \in Requests
            BY <1>1
          <6> QED BY <5>1, <6>1, Kinds DEF Restoring
        <5> QED BY <5>1, <5>2, <5>3, <2>3 DEF Holds
      <4> QED BY <4>1, <4>2
    <3> QED BY <2>3, <3>1 DEF EntriesOk
  <2>8. IssuedOk'
    <3>1. \A u \in Tasks : /\ task'[u].op = task[u].op /\ task'[u].sid = task[u].sid
                           /\ task'[u].op = "init" => task'[u] = task[u]
      BY <1>1, <1>3, <2>4, <2>6
    <3>2. \A x \in Sids : pending'[x] # None => x \in issued'
      BY <1>1, <1>3, <2>3 DEF TaskInv, IssuedOk
    <3>3. \A u \in Tasks : task'[u].op = "init" =>
            task'[u].sid \notin issued' /\ worker'[task'[u].w].sid = task'[u].sid
      BY <1>1, <3>1 DEF TaskInv, IssuedOk
    <3>4. \A u, v \in Tasks : task'[u].op = "init" /\ task'[v].op = "init" /\ task'[u].sid = task'[v].sid => u = v
      BY <1>1, <3>1 DEF TaskInv, IssuedOk
    <3>5. issued' \subseteq Sids /\ \A u \in Tasks : task'[u].op = "use" => task'[u].sid \in issued'
      BY <1>1, <3>1 DEF TaskInv, IssuedOk
    <3> QED BY <3>2, <3>3, <3>4, <3>5 DEF IssuedOk
  <2>9. GoneOk'
    <3>1. \A x \in Sids : pending'[x] # None /\ pending'[x].result = "no" => Gone(x)'
      BY <1>1, <2>1, <2>3 DEF TaskInv, GoneOk, Gone
    <3>2. \A u \in Tasks : task'[u].pc = "404" => task'[u] = task[u]
      BY <2>4, <2>6
    <3> QED BY <1>1, <3>1, <3>2 DEF TaskInv, GoneOk, NotFoundMeansGone
  <2>10. Claimants' \subseteq Claimants
    BY <1>1, <2>6 DEF Claimants
  <2> QED BY <1>2, <2>6, <2>7, <2>8, <2>9, <2>10, Kept DEF TaskInv
<1>6. CASE pending[s] # None
  <2>1. pending[s] \in Entries
    BY <1>4, <1>6
  <2>2. PICK pc \in {"wait", "serve", "404", "refused"} :
          pending' = pending /\ Goto(t, pc) /\ (pc = "404" => pending[s].result = "no")
    <3>1. pending[s].result \in {"none", "yes", "no", "failed"}
      BY <2>1 DEF Entries
    <3>2. pending' = pending /\ Goto(t, IF pending[s].result = "none" THEN "wait"
                                       ELSE AfterRestore(pending[s].result))
      BY <1>3, <1>6 DEF EnterRestore
    <3> QED BY <3>1, <3>2 DEF AfterRestore
  <2>3. pc \in UsePc /\ pc \notin RestoringPc /\ pc \notin {"has", "restore", "load", "allocate"}
    BY DEF UsePc, RestoringPc
  <2>4. pc = "404" => Gone(task[t].sid)
    BY <1>1, <1>3, <1>6, <2>2 DEF TaskInv, GoneOk
  <2>5. TaskInv' /\ Claimants' \subseteq Claimants
    BY <1>1, <1>2, <2>2, <2>3, <2>4, UseGoes
  <2> QED BY <1>2, <2>5, Kept
<1> QED BY <1>5, <1>6

(* The entry of a dropped guard goes                                       *)
LEMMA RemoveStep ==
  ASSUME SessInv, NEW s \in Sids, RemovePending(s)
  PROVE  SessInv'
<1>1. /\ pending[s] # None /\ pending[s].result # "none" /\ pending' = [pending EXCEPT ![s] = None]
      /\ UNCHANGED <<sessions, worker, store, task, issued>>
      /\ WorkersOk /\ TaskInv /\ pending \in [Sids -> Entries \cup {None}]
  BY DEF RemovePending, SessInv, TaskInv, EntriesOk
<1>2. WorkersOk' /\ SidsKept /\ Unused' = Unused
  BY <1>1, WorkersSame
<1>3. /\ pending' \in [Sids -> Entries \cup {None}] /\ pending'[s] = None
      /\ \A x \in Sids : x # s => pending'[x] = pending[x]
  BY <1>1
<1>4. EntriesOk'
  <2>1. ASSUME NEW u \in Tasks, Restoring(u)' PROVE Holds(u, task[u].sid)'
    <3>1. Restoring(u) /\ Holds(u, task[u].sid) /\ task[u] \in Requests
      BY <2>1, <1>1 DEF Restoring, TaskInv, EntriesOk
    <3>2. task[u].sid # s /\ task[u].sid \in Sids
      BY <3>1, <1>1, Kinds DEF Holds, Restoring
    <3> QED BY <3>1, <3>2, <1>1, <1>3 DEF Holds
  <2> QED BY <1>3, <2>1 DEF EntriesOk
<1>5. IssuedOk'
  BY <1>1, <1>3 DEF TaskInv, IssuedOk
<1>6. GoneOk'
  BY <1>1, <1>3 DEF TaskInv, GoneOk, NotFoundMeansGone, Gone
<1>7. task' \in [Tasks -> Requests] /\ Claimants' \subseteq Claimants
  BY <1>1 DEF TaskInv, Claimants
<1> QED BY <1>2, <1>4, <1>5, <1>6, <1>7, Kept DEF TaskInv

(* restore_session: the worker that was kept for this request              *)
LEMMA RestoreStep ==
  ASSUME SessInv, NEW t \in Tasks, RestoreSession(t)
  PROVE  SessInv'
<1>1. /\ task[t].op = "use" /\ task[t].pc = "allocate" /\ UNCHANGED <<store, issued>>
      /\ WorkersOk /\ TaskInv /\ task \in [Tasks -> Requests] /\ task[t] \in Requests
      /\ CountOk /\ Restoring(t)
  BY DEF RestoreSession, At, SessInv, TaskInv, Restoring, RestoringPc
<1>2. PICK s \in Sids : s = task[t].sid
  BY <1>1, Kinds
<1>3. CASE sessions[s] = 0
  <2>0. /\ Allocate(s) /\ UNCHANGED pending
        /\ task' = [task EXCEPT ![t].pc = "respawn", ![t].w = NewWid]
    BY <1>2, <1>3, SessionsAssumption DEF RestoreSession
  <2>1. t \in Claimants /\ Claimants \in SUBSET Tasks
    BY <1>1 DEF Claimants
  <2>2. IsFiniteSet(Claimants) /\ Cardinality(Claimants) \in Nat /\ Cardinality(Unused) \in Nat
    BY <2>1, Finite
  <2>3. Cardinality(Claimants) # 0
    BY <2>1, <2>2, FS_EmptySet
  <2>4. Unused # {}
    BY <1>1, <2>2, <2>3, FS_EmptySet DEF CountOk
  <2>5. /\ WorkersOk' /\ SidsKept /\ NewWid \in Unused /\ Unused' = Unused \ {NewWid}
        /\ NewWid \in Wid /\ worker'[NewWid].sid = s
    BY <1>1, <1>3, <2>0, <2>4, AllocateWorker
  <2>6. TaskInv'
    <3>1. "respawn" \in UsePc /\ "respawn" \notin {"has", "restore", "load", "allocate"}
      BY DEF UsePc, RestoringPc
    <3> QED BY <1>1, <2>0, <2>5, <3>1, UseGoes
  <2>7. Claimants' \in SUBSET (Claimants \ {t})
    <3>1. \A u \in Tasks : u # t => task'[u] = task[u]
      BY <1>1, <2>0
    <3>2. task'[t].pc = "respawn"
      <4>1. task' = [task EXCEPT ![t] = [task[t] EXCEPT !.pc = "respawn", !.w = NewWid]]
        BY <1>1, <2>0, GotoIs
      <4>2. task'[t] = [task[t] EXCEPT !.pc = "respawn", !.w = NewWid]
        BY <1>1, <4>1
      <4>3. task[t] \in Uses
        BY <1>1, Kinds
      <4> QED BY <4>2, <4>3 DEF Uses
    <3> QED BY <3>1, <3>2 DEF Claimants
  <2>8. /\ Cardinality(Claimants \ {t}) = Cardinality(Claimants) - 1 /\ IsFiniteSet(Claimants \ {t})
        /\ Cardinality(Unused \ {NewWid}) = Cardinality(Unused) - 1
    BY <2>1, <2>2, <2>5, Finite, FS_RemoveElement
  <2>9. Cardinality(Claimants') =< Cardinality(Claimants \ {t}) /\ Cardinality(Claimants') \in Nat
    BY <2>7, <2>8, FS_Subset, FS_CardinalityType
  <2>10. CountOk'
    BY <1>1, <2>2, <2>5, <2>8, <2>9 DEF CountOk
  <2> QED BY <2>5, <2>6, <2>10 DEF SessInv
<1>4. CASE sessions[s] # 0
  <2>1. /\ DropGuard(t, "failed", [Idle EXCEPT !.pc = "AlreadyPresent"])
        /\ UNCHANGED <<sessions, worker>>
    BY <1>2, <1>4 DEF RestoreSession
  <2>2. WorkersOk' /\ SidsKept /\ Unused' = Unused
    BY <1>1, <2>1, WorkersSame
  <2>3. PICK r \in Requests : /\ r = [Idle EXCEPT !.pc = "AlreadyPresent"]
                              /\ r.op = "none" /\ r.pc # "404"
    BY IdleMoves DEF Answers
  <2>4. TaskInv' /\ Claimants' \subseteq Claimants
    BY <1>1, <1>2, <2>1, <2>2, <2>3, GuardDrops, RestoringHolds
  <2> QED BY <2>2, <2>4, Kept
<1> QED BY <1>3, <1>4

(* A request that restores fails: its guard is dropped                     *)
LEMMA RestoreFails ==
  ASSUME TaskInv, NEW t \in Tasks, Restoring(t), DropGuard(t, "failed", [Idle EXCEPT !.pc = "500"]),
         SidsKept, issued' = issued, store' = store
  PROVE  TaskInv' /\ Claimants' \subseteq Claimants
<1>1. PICK r \in Requests : r = [Idle EXCEPT !.pc = "500"] /\ r.op = "none" /\ r.pc # "404"
  BY IdleMoves DEF Answers
<1> QED BY <1>1, GuardDrops, RestoringHolds

(* initialize_session of either kind of request                            *)
LEMMA InitializeStep ==
  ASSUME SessInv, NEW t \in Tasks, Initialize(t)
  PROVE  SessInv'
<1>1. /\ task[t].pc = "initialize" /\ UNCHANGED <<sessions, store, issued>>
      /\ WorkersOk /\ TaskInv /\ task \in [Tasks -> Requests] /\ task[t] \in Requests
  BY DEF Initialize, SessInv, TaskInv
<1>2. task[t].op \in {"init", "use"} /\ task[t].sid \in Sids
  BY <1>1, Kinds, KindOfPc
<1>3. PICK w \in Wid \cup {0} : w = sessions[task[t].sid] /\ (w # 0 => worker[w].sid = task[t].sid)
  BY <1>1, <1>2 DEF WorkersOk
<1>4. task[t].op = "use" => Restoring(t)
  BY <1>1 DEF Restoring, RestoringPc
<1>5. CASE StateOf(w) = "init"
  <2>1. /\ worker' = [worker EXCEPT ![w].st = "handshake"] /\ UNCHANGED pending
        /\ task' = [task EXCEPT ![t].pc = "initializing", ![t].w = w]
    BY <1>3, <1>5 DEF Initialize
  <2>2. w \in Wid /\ worker[w].st = "init" /\ worker[w].sid = task[t].sid
    BY <1>3, <1>5, SessionsAssumption DEF StateOf, Wid
  <2>3. WorkersOk' /\ SidsKept /\ Unused' = Unused
    BY <1>1, <2>1, <2>2, WorkerState DEF States, Live
  <2>4. TaskInv' /\ Claimants' \subseteq Claimants
    <3>1. CASE task[t].op = "init"
      <4>1. "initializing" \in InitPc
        BY DEF InitPc
      <4> QED BY <3>1, <4>1, <1>1, <2>1, <2>2, <2>3, InitGoes
    <3>2. CASE task[t].op = "use"
      <4>1. "initializing" \in UsePc /\ "initializing" \notin {"has", "restore", "load", "allocate"}
        BY DEF UsePc, RestoringPc
      <4> QED BY <3>2, <4>1, <1>1, <1>4, <2>1, <2>2, <2>3, UseGoes
    <3> QED BY <1>2, <3>1, <3>2
  <2> QED BY <2>3, <2>4, Kept
<1>6. CASE StateOf(w) # "init"
  <2>1. /\ worker' = worker
        /\ IF task[t].op = "init" THEN Answer(t, "500") /\ UNCHANGED pending
           ELSE DropGuard(t, "failed", [Idle EXCEPT !.pc = "500"])
    BY <1>3, <1>6 DEF Initialize
  <2>2. WorkersOk' /\ SidsKept /\ Unused' = Unused
    BY <1>1, <2>1, WorkersSame
  <2>3. TaskInv' /\ Claimants' \subseteq Claimants
    <3>1. CASE task[t].op = "init"
      <4>1. "500" \in Answers
        BY DEF Answers
      <4> QED BY <3>1, <4>1, <1>1, <2>1, <2>2, AnswerMoves
    <3>2. CASE task[t].op = "use"
      BY <3>2, <1>1, <1>4, <2>1, <2>2, RestoreFails
    <3> QED BY <1>2, <3>1, <3>2
  <2> QED BY <2>2, <2>3, Kept
<1> QED BY <1>5, <1>6

(* The worker answers the handshake, of a new or of a restored session.    *)
LEMMA InitializedStep ==
  ASSUME SessInv, NEW t \in Tasks, Initialized(t)
  PROVE  SessInv'
<1>1. /\ task[t].pc = "initializing" /\ UNCHANGED <<sessions, worker, store, issued>>
      /\ WorkersOk /\ TaskInv /\ task[t] \in Requests
  BY DEF Initialized, SessInv, TaskInv
<1>2. task[t].op \in {"init", "use"} /\ (task[t].op = "use" => Restoring(t))
  BY <1>1, KindOfPc DEF Restoring, RestoringPc
<1>3. WorkersOk' /\ SidsKept /\ Unused' = Unused
  BY <1>1, WorkersSame
<1>4. TaskInv' /\ Claimants' \subseteq Claimants
  <2>1. CASE Goto(t, IF task[t].op = "init" THEN "persist" ELSE "initialized") /\ UNCHANGED pending
    <3>1. CASE task[t].op = "init"
      <4>1. Goto(t, "persist") /\ "persist" \in InitPc /\ task[t].w \in Wid
        BY <1>1, <2>1, <3>1, Kinds DEF InitPc
      <4> QED BY <1>1, <1>3, <2>1, <3>1, <4>1, InitGoes
    <3>2. CASE task[t].op = "use"
      <4>1. /\ Goto(t, "initialized") /\ "initialized" \in UsePc
            /\ "initialized" \notin {"has", "restore", "load", "allocate"}
        BY <2>1, <3>2 DEF UsePc, RestoringPc
      <4> QED BY <1>1, <1>2, <1>3, <2>1, <3>2, <4>1, UseGoes
    <3> QED BY <1>2, <3>1, <3>2
  <2>2. CASE IF task[t].op = "init" THEN Answer(t, "500") /\ UNCHANGED pending
             ELSE DropGuard(t, "failed", [Idle EXCEPT !.pc = "500"])
    <3>1. CASE task[t].op = "init"
      <4>1. "500" \in Answers
        BY DEF Answers
      <4> QED BY <3>1, <4>1, <1>1, <1>3, <2>2, AnswerMoves
    <3>2. CASE task[t].op = "use"
      BY <3>2, <1>1, <1>2, <1>3, <2>2, RestoreFails
    <3> QED BY <1>2, <3>1, <3>2
  <2> QED BY <2>1, <2>2 DEF Initialized
<1> QED BY <1>3, <1>4, Kept

----------------------------------------------------------------------------
(* Every step keeps the invariant.                                         *)

(* The steps of a request that creates or deletes a session, or that has   *)
(* its answer                                                              *)
LEMMA PlainSteps ==
  ASSUME SessInv, NEW t \in Tasks,
         \/ RefuseInit(t) \/ SpawnInit(t) \/ Recycle(t) \/ Close(t) \/ Forget(t)
         \/ \E s \in issued \ ended : StartDelete(t, s)
  PROVE  SessInv'
<1>1. WorkersOk /\ TaskInv /\ task \in [Tasks -> Requests] /\ task[t] \in Requests
  BY DEF SessInv, TaskInv
<1>2. CASE RefuseInit(t)
  <2>1. /\ task[t].op = "init" /\ worker' = Told(task[t].w)
        /\ UNCHANGED <<sessions, store, pending, issued>>
        /\ \E code \in {"422", "500"} : Answer(t, code)
    BY <1>2 DEF RefuseInit, At
  <2>2. WorkersOk' /\ SidsKept /\ Unused' = Unused
    BY <1>1, <2>1, Kinds, WorkerTold
  <2>3. TaskInv' /\ Claimants' \subseteq Claimants
    BY <1>1, <2>1, <2>2, AnswerMoves DEF Answers
  <2> QED BY <2>2, <2>3, Kept
<1>3. CASE SpawnInit(t)
  <2>1. /\ task[t].op = "init" /\ Goto(t, "initialize")
        /\ UNCHANGED <<sessions, worker, store, pending, issued>>
    BY <1>3 DEF SpawnInit, At
  <2>2. WorkersOk' /\ SidsKept /\ Unused' = Unused
    BY <1>1, <2>1, WorkersSame
  <2>3. "initialize" \in InitPc /\ task[t].w \in Wid
    BY <1>1, <2>1, Kinds DEF InitPc
  <2>4. TaskInv' /\ Claimants' \subseteq Claimants
    BY <1>1, <2>1, <2>2, <2>3, InitGoes
  <2> QED BY <2>2, <2>4, Kept
<1>4. CASE Recycle(t)
  <2>1. /\ task' = [task EXCEPT ![t] = Idle]
        /\ UNCHANGED <<sessions, worker, store, pending, issued>>
    BY <1>4 DEF Recycle
  <2>2. WorkersOk' /\ SidsKept /\ Unused' = Unused
    BY <1>1, <2>1, WorkersSame
  <2>3. TaskInv' /\ Claimants' \subseteq Claimants
    BY <1>1, <2>1, <2>2, IdleRequest, OneMoves DEF Claims
  <2> QED BY <2>2, <2>3, Kept
<1>5. CASE Close(t)
  <2>1. /\ task[t].op = "delete" /\ task[t].pc = "close" /\ CloseSession(task[t].sid)
        /\ Goto(t, "forget") /\ UNCHANGED <<store, pending, issued>>
    BY <1>5 DEF Close, At
  <2>2. task[t] \in Deletes /\ task[t].sid \in Sids
    BY <1>1, <2>1, Kinds
  <2>3. WorkersOk' /\ SidsKept /\ Unused' = Unused
    BY <1>1, <2>1, <2>2, CloseWorker
  <2> DEFINE r == [task[t] EXCEPT !.pc = "forget"]
  <2>4. r \in Requests /\ r.op = "delete" /\ r.pc = "forget"
    BY <2>2 DEF Deletes, Requests
  <2>5. task' = [task EXCEPT ![t] = r]
    BY <1>1, <2>1, GotoIs
  <2> HIDE DEF r
  <2>6. TaskInv' /\ Claimants' \subseteq Claimants
    BY <1>1, <2>1, <2>3, <2>4, <2>5, OneMoves DEF Claims
  <2> QED BY <2>3, <2>6, Kept
<1>6. CASE Forget(t)
  <2>1. /\ store' \subseteq store /\ Answer(t, "202")
        /\ UNCHANGED <<sessions, worker, pending, issued>>
    BY <1>6 DEF Forget
  <2>2. WorkersOk' /\ SidsKept /\ Unused' = Unused
    BY <1>1, <2>1, WorkersSame
  <2>3. "202" \in Answers
    BY DEF Answers
  <2>4. TaskInv' /\ Claimants' \subseteq Claimants
    BY <1>1, <2>1, <2>2, <2>3, AnswerMoves
  <2> QED BY <2>2, <2>4, Kept
<1>7. ASSUME NEW s \in issued \ ended, StartDelete(t, s) PROVE SessInv'
  <2> DEFINE r == [op |-> "delete", pc |-> "close", sid |-> s, w |-> 0]
  <2>1. task' = [task EXCEPT ![t] = r] /\ UNCHANGED <<sessions, worker, store, pending, issued>>
    BY <1>7 DEF StartDelete
  <2>2. WorkersOk' /\ SidsKept /\ Unused' = Unused
    BY <1>1, <2>1, WorkersSame
  <2>3. r \in Requests /\ r.op = "delete" /\ r.pc = "close"
    BY <1>1 DEF TaskInv, IssuedOk, Deletes, Requests
  <2> HIDE DEF r
  <2>4. TaskInv' /\ Claimants' \subseteq Claimants
    BY <1>1, <2>1, <2>2, <2>3, OneMoves DEF Claims
  <2> QED BY <2>2, <2>4, Kept
<1> QED BY <1>2, <1>3, <1>4, <1>5, <1>6, <1>7

(* The steps of a request that uses a session                              *)
LEMMA UseSteps ==
  ASSUME SessInv, NEW t \in Tasks,
         \/ HasSession(t) \/ Load(t) \/ SpawnRestored(t) \/ FinishRestore(t)
         \/ Serve(t) \/ Served(t) \/ NotFound(t)
  PROVE  SessInv'
<1>1. WorkersOk /\ TaskInv /\ task \in [Tasks -> Requests] /\ task[t] \in Requests
  BY DEF SessInv, TaskInv
<1>2. task[t].op = "use" /\ task[t].sid \in Sids /\ task[t].w \in Wid \cup {0}
  <2>1. task[t].op = "use"
    BY DEF HasSession, Load, SpawnRestored, FinishRestore, Serve, Served, NotFound, At
  <2> QED BY <1>1, <2>1, Kinds
<1>3. {"restore", "serve", "asked", "404", "allocate", "initialize", "respawn"} \subseteq UsePc
  BY DEF UsePc, RestoringPc
<1>4. ASSUME UNCHANGED <<sessions, worker>> PROVE WorkersOk' /\ SidsKept /\ Unused' = Unused
  BY <1>1, <1>4, WorkersSame
<1>5. CASE HasSession(t)
  <2>1. PICK pc \in {"serve", "restore"} : Goto(t, pc)
    BY <1>5 DEF HasSession
  <2>2. Claims(task[t]) /\ UNCHANGED <<sessions, worker, store, pending, issued>>
    BY <1>5 DEF HasSession, At, Claims
  <2>3. pc \notin RestoringPc /\ pc # "404"
    BY DEF RestoringPc
  <2>4. TaskInv' /\ Claimants' \subseteq Claimants
    BY <1>1, <1>2, <1>3, <1>4, <2>1, <2>2, <2>3, UseGoes
  <2> QED BY <1>4, <2>2, <2>4, Kept
<1>6. CASE Load(t)
  <2>1. Claims(task[t]) /\ Restoring(t) /\ UNCHANGED <<sessions, worker, store, issued>>
    BY <1>6 DEF Load, At, Claims, Restoring, RestoringPc
  <2>2. CASE Goto(t, "allocate") /\ UNCHANGED pending
    <3>1. TaskInv' /\ Claimants' \subseteq Claimants
      BY <1>1, <1>2, <1>3, <1>4, <2>1, <2>2, UseGoes
    <3> QED BY <1>4, <2>1, <3>1, Kept
  <2>3. CASE task[t].sid \notin store /\ DropGuard(t, "no", [task[t] EXCEPT !.pc = "404"])
    <3>1. PICK r \in Requests : /\ r = [task[t] EXCEPT !.pc = "404"]
                                /\ r.op = "use" /\ r.pc = "404" /\ r.sid = task[t].sid
      <4>1. task[t] \in Uses
        BY <1>1, <1>2, Kinds
      <4> DEFINE n == [task[t] EXCEPT !.pc = "404"]
      <4>2. n \in Requests /\ n.op = "use" /\ n.pc = "404" /\ n.sid = task[t].sid
        BY <4>1 DEF Uses, Requests
      <4> QED BY <4>2
    <3>2. TaskInv' /\ Claimants' \subseteq Claimants
      BY <1>1, <1>4, <2>1, <2>3, <3>1, GuardDrops, RestoringHolds
    <3> QED BY <1>4, <2>1, <3>2, Kept
  <2>4. CASE DropGuard(t, "failed", [Idle EXCEPT !.pc = "500"])
    <3>1. TaskInv' /\ Claimants' \subseteq Claimants
      BY <1>1, <1>4, <2>1, <2>4, RestoreFails
    <3> QED BY <1>4, <2>1, <3>1, Kept
  <2> QED BY <1>6, <2>2, <2>3, <2>4 DEF Load
<1>7. CASE SpawnRestored(t)
  <2>1. Restoring(t) /\ UNCHANGED <<sessions, store, issued>>
    BY <1>7 DEF SpawnRestored, At, Restoring, RestoringPc
  <2>2. CASE Goto(t, "initialize") /\ UNCHANGED <<worker, pending>>
    <3>1. TaskInv' /\ Claimants' \subseteq Claimants
      BY <1>1, <1>2, <1>3, <1>4, <2>1, <2>2, UseGoes
    <3> QED BY <1>4, <2>1, <2>2, <3>1, Kept
  <2>3. CASE /\ worker' = Told(task[t].w) /\ DropGuard(t, "failed", [Idle EXCEPT !.pc = "500"])
    <3>1. WorkersOk' /\ SidsKept /\ Unused' = Unused
      BY <1>1, <1>2, <2>1, <2>3, WorkerTold
    <3>2. TaskInv' /\ Claimants' \subseteq Claimants
      BY <1>1, <2>1, <2>3, <3>1, RestoreFails
    <3> QED BY <3>1, <3>2, Kept
  <2> QED BY <1>7, <2>2, <2>3 DEF SpawnRestored
<1>8. CASE FinishRestore(t)
  <2>1. Restoring(t) /\ UNCHANGED <<sessions, worker, store, issued>>
    BY <1>8 DEF FinishRestore, At, Restoring, RestoringPc
  <2>2. CASE DropGuard(t, "yes", [task[t] EXCEPT !.pc = "serve"])
    <3>1. PICK r \in Requests : /\ r = [task[t] EXCEPT !.pc = "serve"]
                                /\ r.op = "use" /\ r.pc = "serve" /\ r.sid = task[t].sid
      <4>1. task[t] \in Uses
        BY <1>1, <1>2, Kinds
      <4> DEFINE n == [task[t] EXCEPT !.pc = "serve"]
      <4>2. n \in Requests /\ n.op = "use" /\ n.pc = "serve" /\ n.sid = task[t].sid
        BY <4>1 DEF Uses, Requests
      <4> QED BY <4>2
    <3>2. TaskInv' /\ Claimants' \subseteq Claimants
      BY <1>1, <1>4, <2>1, <2>2, <3>1, GuardDrops, RestoringHolds
    <3> QED BY <1>4, <2>1, <3>2, Kept
  <2>3. CASE DropGuard(t, "failed", [Idle EXCEPT !.pc = "500"])
    <3>1. TaskInv' /\ Claimants' \subseteq Claimants
      BY <1>1, <1>4, <2>1, <2>3, RestoreFails
    <3> QED BY <1>4, <2>1, <3>1, Kept
  <2> QED BY <1>8, <2>2, <2>3 DEF FinishRestore
<1>9. CASE Serve(t)
  <2>0. UNCHANGED <<sessions, store, pending, issued>>
    BY <1>9 DEF Serve
  <2>1. PICK w \in Wid \cup {0} : w = sessions[task[t].sid]
    BY <1>1, <1>2 DEF WorkersOk
  <2>2. CASE StateOf(w) # "quit"
    <3>1. /\ task' = [task EXCEPT ![t].pc = "asked", ![t].w = w] /\ w \in Wid
          /\ worker' = [worker EXCEPT ![w].st = IF @ = "init" THEN "quit" ELSE @]
      BY <1>9, <2>1, <2>2 DEF Serve, StateOf
    <3>2. worker[w].st \in States
      BY <1>1, <3>1 DEF WorkersOk, Workers
    <3>3. PICK st \in States : st = IF worker[w].st = "init" THEN "quit" ELSE worker[w].st
      BY <3>2 DEF States
    <3>4. worker' = [worker EXCEPT ![w].st = st]
      BY <1>1, <3>1, <3>3 DEF WorkersOk
    <3>5. WorkersOk' /\ SidsKept /\ Unused' = Unused
      BY <1>1, <2>0, <3>1, <3>3, <3>4, WorkerState DEF Live
    <3>6. "asked" \notin RestoringPc
      BY DEF RestoringPc
    <3>7. TaskInv' /\ Claimants' \subseteq Claimants
      BY <1>1, <1>2, <1>3, <2>0, <3>1, <3>5, <3>6, UseGoes
    <3> QED BY <3>5, <3>7, Kept
  <2>3. CASE StateOf(w) = "quit"
    <3>1. Answer(t, "500") /\ worker' = worker
      BY <1>9, <2>1, <2>3 DEF Serve
    <3>2. "500" \in Answers
      BY DEF Answers
    <3>3. TaskInv' /\ Claimants' \subseteq Claimants
      BY <1>1, <1>4, <2>0, <3>1, <3>2, AnswerMoves
    <3> QED BY <1>4, <2>0, <3>1, <3>3, Kept
  <2> QED BY <2>2, <2>3
<1>10. CASE Served(t) \/ NotFound(t)
  <2>1. UNCHANGED <<sessions, worker, store, pending, issued>>
    BY <1>10 DEF Served, NotFound
  <2>2. \E code \in Answers : Answer(t, code)
    BY <1>10 DEF Served, NotFound, Answers
  <2>3. TaskInv' /\ Claimants' \subseteq Claimants
    BY <1>1, <1>4, <2>1, <2>2, AnswerMoves
  <2> QED BY <1>4, <2>1, <2>3, Kept
<1> QED BY <1>5, <1>6, <1>7, <1>8, <1>9, <1>10

(* The client goes away: a request that restores drops its guard           *)
LEMMA AbandonStep ==
  ASSUME SessInv, NEW t \in Tasks, Abandon(t)
  PROVE  SessInv'
<1>1. /\ WorkersOk /\ TaskInv /\ task \in [Tasks -> Requests] /\ task[t] \in Requests
      /\ task[t].op # "none" /\ UNCHANGED <<sessions, store, issued>>
      /\ worker' = IF task[t].pc \in {"service", "respawn"} THEN Told(task[t].w) ELSE worker
  BY DEF Abandon, SessInv, TaskInv
<1>2. WorkersOk' /\ SidsKept /\ Unused' = Unused
  <2>1. CASE task[t].pc \in {"service", "respawn"}
    <3>1. task[t].w \in Wid \cup {0}
      BY <1>1, <2>1, Kinds, KindOfPc
    <3> QED BY <1>1, <2>1, <3>1, WorkerTold
  <2>2. CASE task[t].pc \notin {"service", "respawn"}
    BY <1>1, <2>2, WorkersSame
  <2> QED BY <2>1, <2>2
<1>3. CASE /\ task[t].op = "use" /\ pending[task[t].sid] # None
           /\ pending[task[t].sid].by = t /\ pending[task[t].sid].result = "none"
  <2>1. DropGuard(t, "failed", Idle)
    BY <1>3 DEF Abandon
  <2>2. task[t].sid \in Sids
    BY <1>1, <1>3, Kinds
  <2>3. Holds(t, task[t].sid)
    BY <1>1, <1>3, <2>2 DEF TaskInv, EntriesOk, Holds
  <2>4. TaskInv' /\ Claimants' \subseteq Claimants
    BY <1>1, <1>2, <1>3, <2>1, <2>3, IdleRequest, GuardDrops
  <2> QED BY <1>2, <2>4, Kept
<1>4. CASE ~(/\ task[t].op = "use" /\ pending[task[t].sid] # None
             /\ pending[task[t].sid].by = t /\ pending[task[t].sid].result = "none")
  <2>1. task' = [task EXCEPT ![t] = Idle] /\ UNCHANGED pending
    BY <1>4 DEF Abandon
  <2>2. TaskInv' /\ Claimants' \subseteq Claimants
    BY <1>1, <1>2, <2>1, IdleRequest, OneMoves DEF Claims
  <2> QED BY <1>2, <2>2, Kept
<1> QED BY <1>3, <1>4

(* A new process knows no request                                          *)
LEMMA RestartStep ==
  ASSUME SessInv, Restart
  PROVE  SessInv'
<1>1. /\ WorkersOk /\ TaskInv /\ pending' = [s \in Sids |-> None] /\ task' = [t \in Tasks |-> Idle]
      /\ UNCHANGED <<store, issued>>
  BY DEF Restart, SessInv
<1>2. WorkersOk' /\ Unused' = Unused
  BY <1>1, RestartWorkers
<1>3. /\ task' \in [Tasks -> Requests]
      /\ \A t \in Tasks : task'[t].op = "none" /\ task'[t].pc = "idle"
  BY <1>1, IdleRequest
<1>4. pending' \in [Sids -> Entries \cup {None}] /\ \A s \in Sids : pending'[s] = None
  BY <1>1
<1>5. EntriesOk'
  BY <1>3, <1>4 DEF EntriesOk, Restoring
<1>6. IssuedOk'
  BY <1>1, <1>3, <1>4 DEF TaskInv, IssuedOk
<1>7. GoneOk'
  BY <1>3, <1>4 DEF GoneOk, NotFoundMeansGone
<1>8. Claimants' \subseteq Claimants
  BY <1>3 DEF Claimants
<1> QED BY <1>2, <1>3, <1>5, <1>6, <1>7, <1>8, Kept DEF TaskInv

(* Workers and their services                                              *)
LEMMA WorkerSteps ==
  ASSUME SessInv, NEW w \in Wid, Handshake(w) \/ WorkerQuits(w) \/ ServiceEnds(w)
  PROVE  SessInv'
<1>1. /\ WorkersOk /\ TaskInv /\ UNCHANGED <<task, pending, issued, store>>
  BY DEF SessInv, Handshake, WorkerQuits, ServiceEnds
<1>2. WorkersOk' /\ SidsKept /\ Unused' = Unused
  <2>1. CASE Handshake(w) \/ WorkerQuits(w)
    <3>1. /\ sessions' = sessions /\ worker[w].st \in Live
          /\ \E st \in {"run", "quit"} : worker' = [worker EXCEPT ![w].st = st]
      BY <2>1 DEF Handshake, WorkerQuits, Live
    <3> QED BY <1>1, <3>1, WorkerState DEF States, Live
  <2>2. CASE ServiceEnds(w)
    <3>1. worker[w].sid \in Sids /\ CloseSession(worker[w].sid)
      BY <1>1, <2>2 DEF ServiceEnds, WorkersOk
    <3> QED BY <1>1, <3>1, CloseWorker
  <2> QED BY <2>1, <2>2
<1>3. TaskInv' /\ Claimants' \subseteq Claimants
  BY <1>1, <1>2, TasksSame
<1> QED BY <1>2, <1>3, Kept

(* Every step of the server, its workers and the clients keeps the         *)
(* invariant.                                                              *)
LEMMA SessStep ==
  ASSUME SessInv, [Next]_vars
  PROVE  SessInv'
<1>1. ASSUME NEW t \in Tasks, RefuseInit(t) \/ RequestStep(t) PROVE SessInv'
  BY <1>1, PlainSteps, UseSteps, InitializeStep, InitializedStep, PersistStep, EnterStep, RestoreStep
     DEF RequestStep
<1>2. ASSUME NEW w \in Wid, Handshake(w) \/ WorkerQuits(w) \/ ServiceEnds(w) PROVE SessInv'
  BY <1>2, WorkerSteps
<1>3. ASSUME NEW s \in Sids, RemovePending(s) PROVE SessInv'
  BY <1>3, RemoveStep
<1>4. ASSUME NEW t \in Tasks, StartInit(t) PROVE SessInv'
  BY <1>4, StartInitStep
<1>5. ASSUME NEW t \in Tasks, Recycle(t) \/ \E s \in issued \ ended : StartDelete(t, s) PROVE SessInv'
  BY <1>5, PlainSteps
<1>6. ASSUME NEW t \in Tasks, Abandon(t) PROVE SessInv'
  BY <1>6, AbandonStep
<1>7. ASSUME NEW t \in Tasks, NEW s \in issued, StartUse(t, s) PROVE SessInv'
  BY <1>7, StartUseStep
<1>8. CASE Restart
  BY <1>8, RestartStep
<1>9. CASE UNCHANGED vars
  <2>1. UNCHANGED <<sessions, worker, task, pending, issued, store>>
    BY <1>9 DEF vars
  <2>2. WorkersOk' /\ SidsKept /\ Unused' = Unused
    BY <2>1, WorkersSame DEF SessInv
  <2>3. TaskInv' /\ Claimants' \subseteq Claimants
    BY <2>1, <2>2, TasksSame DEF SessInv
  <2> QED BY <2>2, <2>3, Kept
<1> QED BY <1>1, <1>2, <1>3, <1>4, <1>5, <1>6, <1>7, <1>8, <1>9 DEF Next, ServerStep

(* No session yet.                                                         *)
LEMMA SessInit == Init => SessInv
<1> SUFFICES ASSUME Init PROVE SessInv
  OBVIOUS
<1>1. /\ sessions = [s \in Sids |-> 0] /\ store = {} /\ pending = [s \in Sids |-> None]
      /\ worker = [w \in Wid |-> [sid |-> None, st |-> "unused", told |-> FALSE]]
      /\ task = [t \in Tasks |-> Idle] /\ issued = {}
  BY DEF Init
<1>2. WorkersOk
  <2>1. [sid |-> None, st |-> "unused", told |-> FALSE] \in Workers
    BY DEF Workers, States
  <2>2. worker \in [Wid -> Workers] /\ \A w \in Wid : worker[w].st = "unused" /\ worker[w].sid \notin Sids
    BY <1>1, <2>1, SessionsAssumption
  <2>3. sessions \in [Sids -> Wid \cup {0}] /\ \A s \in Sids : sessions[s] = 0
    BY <1>1
  <2>4. NoZombieWorker
    BY <2>2 DEF NoZombieWorker
  <2> QED BY <2>2, <2>3, <2>4 DEF WorkersOk
<1>3. task \in [Tasks -> Requests] /\ \A t \in Tasks : task[t].op = "none" /\ task[t].pc = "idle"
  BY <1>1, IdleRequest
<1>4. pending \in [Sids -> Entries \cup {None}] /\ \A s \in Sids : pending[s] = None
  BY <1>1
<1>5. EntriesOk
  BY <1>3, <1>4 DEF EntriesOk, Restoring
<1>6. IssuedOk
  BY <1>1, <1>3, <1>4 DEF IssuedOk
<1>7. GoneOk
  BY <1>3, <1>4 DEF GoneOk, NotFoundMeansGone
<1>8. CountOk
  <2>1. Claimants = {}
    BY <1>3 DEF Claimants
  <2> QED BY <2>1, Finite, FS_EmptySet DEF CountOk
<1> QED BY <1>2, <1>3, <1>5, <1>6, <1>7, <1>8 DEF SessInv, TaskInv

(* The invariant holds throughout.                                         *)
LEMMA SessInvariant == Spec => []SessInv
<1>1. SessInv /\ [Next]_vars => SessInv'
  BY SessStep
<1> QED BY SessInit, <1>1, PTL DEF Spec

(* A worker of LocalSessionManager runs only while the map names it or     *)
(* after it was told to stop, for any number of requests, sessions,        *)
(* restores, abandoned requests and restarts of the server.                *)
THEOREM WorkersCorrect == Spec => []NoZombieWorker
<1>1. SessInv => NoZombieWorker
  BY DEF SessInv, WorkersOk
<1> QED BY SessInvariant, <1>1, PTL

(* try_restore_from_store makes handle_post and handle_get answer "not     *)
(* found" for a session that the store holds only after a restore of it    *)
(* that the request waited for has failed, however the requests for it     *)
(* interleave with deletions, abandoned requests and restarts.             *)
THEOREM NotFoundCorrect == Spec => []NotFoundMeansGone
<1>1. SessInv => NotFoundMeansGone
  BY DEF SessInv, TaskInv, GoneOk
<1> QED BY SessInvariant, <1>1, PTL

----------------------------------------------------------------------------
(* The checks of a request (HttpGate).  What was read of it.               *)
Headers == {"method", "host", "origin", "version", "session", "message"}
Said == {"unread", "absent", "garbled", "unknown", "init", "other", "here", "stored",
         "POST", "GET", "DELETE", "PUT", "initialize", "request", "notification"}
Read == [Headers -> Said \cup HostHeader \cup OriginHeader]

(* The inductive invariant of RefusalsLeaveNothing: what has been done     *)
(* when a check is next                                                    *)
Untouched == {"host", "origin", "method", "get", "post", "post session", "stateless", "delete"}
GateInv ==
  /\ request \in Read
  /\ check \in Untouched \cup {"lookup", "version", "serve", "new session", "answered"}
  /\ check # "answered" => answer = "none"
  /\ check \in Untouched \cup {"lookup"} => effects = <<>>
  /\ check \in {"version", "serve"} => \/ effects = <<>>
                                       \/ effects = <<"restore">> /\ request["session"] = "stored"
  /\ check = "new session" => effects = <<"create session">> /\ request["session"] = "absent"
  /\ RefusalsLeaveNothing

(* Calls that serve a request without a session, and end one               *)
Calls == {"own service", "close"}

(* A header gets its value and the others keep theirs.                     *)
LEMMA Reading ==
  ASSUME request \in Read, NEW h \in Headers, NEW v \in Said \cup HostHeader \cup OriginHeader,
         ReadsHeader(h, v)
  PROVE  /\ request' \in Read /\ request'[h] = v
         /\ \A k \in Headers \ {h} : request'[k] = request[k]
BY DEF ReadsHeader, Read

(* The first call.                                                         *)
LEMMA Single == ASSUME NEW x PROVE Append(<<>>, x) = <<x>>
OBVIOUS

(* RefusalsLeaveNothing of a request that has no answer.                   *)
LEMMA NoAnswerYet == ASSUME answer' = "none" PROVE RefusalsLeaveNothing'
BY DEF RefusalsLeaveNothing, Refused

(* RefusalsLeaveNothing of a request for which nothing was done.           *)
LEMMA NothingDone == ASSUME effects' = <<>> PROVE RefusalsLeaveNothing'
<1>1. Len(effects') = 0
  OBVIOUS
<1> QED BY <1>1 DEF RefusalsLeaveNothing

(* RefusalsLeaveNothing of a request that is served.                       *)
LEMMA OneThingDone ==
  ASSUME answer' \in {"200", "202", "500"},
         \/ Len(effects') = 1
         \/ Len(effects') = 2 /\ request'["session"] \in {"absent", "stored"}
  PROVE  RefusalsLeaveNothing'
<1>1. ~Refused'
  BY DEF Refused
<1>2. Len(effects') <= IF request'.session \in {"absent", "stored"} THEN 2 ELSE 1
  <2>1. CASE Len(effects') = 1
    BY <2>1
  <2>2. CASE Len(effects') = 2 /\ request'["session"] \in {"absent", "stored"}
    BY <2>2
  <2> QED BY <2>1, <2>2
<1> QED BY <1>1, <1>2 DEF RefusalsLeaveNothing

(* A check that is passed and a refusal, where nothing has been done.      *)
LEMMA CleanStep ==
  ASSUME GateInv, check \in Untouched \cup {"lookup"}, request' \in Read,
         \/ \E s : Refuse(s)
         \/ \E n \in Untouched \cup {"lookup", "version", "serve"} : Pass(n)
         \/ \E c \in Calls : \E s \in {"200", "202", "500"} : Serves(c, s)
  PROVE  GateInv'
<1>1. effects = <<>> /\ answer = "none"
  BY DEF GateInv, Untouched
<1>2. ASSUME NEW s, Refuse(s) PROVE GateInv'
  <2>1. check' = "answered" /\ effects' = <<>>
    BY <1>1, <1>2 DEF Refuse
  <2> QED BY <2>1, NothingDone DEF GateInv, Read, Untouched
<1>3. ASSUME NEW n \in Untouched \cup {"lookup", "version", "serve"}, Pass(n) PROVE GateInv'
  <2>1. check' = n /\ effects' = <<>> /\ answer' = "none"
    BY <1>1, <1>3 DEF Pass
  <2> QED BY <2>1, NothingDone DEF GateInv, Read, Untouched
<1>4. ASSUME NEW c \in Calls, NEW s \in {"200", "202", "500"}, Serves(c, s) PROVE GateInv'
  <2>1. check' = "answered" /\ effects' = Append(<<>>, c) /\ answer' = s
    BY <1>1, <1>4 DEF Serves
  <2>2. Len(effects') = 1
    BY <2>1
  <2> QED BY <2>1, <2>2, OneThingDone DEF GateInv, Read, Untouched
<1> QED BY <1>2, <1>3, <1>4

(* The checks before the first call that changes something.                *)
LEMMA FirstChecks ==
  ASSUME GateInv, ParseHost \/ ValidateOrigin \/ Dispatch \/ GetHeaders \/ PostHeaders
  PROVE  GateInv'
<1>1. request \in Read
  BY DEF GateInv, Read
<1>2. ASSUME NEW h \in Headers, NEW v \in Said \cup HostHeader \cup OriginHeader, ReadsHeader(h, v)
      PROVE  request' \in Read
  BY <1>1, <1>2, Reading
<1>3. CASE ParseHost
  <2>1. check = "host" /\ request' \in Read
    BY <1>2, <1>3 DEF ParseHost, Headers, Said
  <2>2. (\E s : Refuse(s)) \/ Pass("origin")
    BY <1>3 DEF ParseHost
  <2> QED BY <2>1, <2>2, CleanStep DEF Untouched
<1>4. CASE ValidateOrigin
  <2>1. check = "origin" /\ request' \in Read
    BY <1>1, <1>2, <1>4 DEF ValidateOrigin, Headers, Said
  <2>2. (\E s : Refuse(s)) \/ Pass("method")
    BY <1>4 DEF ValidateOrigin
  <2> QED BY <2>1, <2>2, CleanStep DEF Untouched
<1>5. CASE Dispatch
  <2>1. check = "method" /\ request' \in Read
    BY <1>2, <1>5 DEF Dispatch, Headers, Said
  <2>2. (\E s : Refuse(s)) \/ Pass("post") \/ Pass("get") \/ Pass("delete")
    BY <1>5 DEF Dispatch
  <2> QED BY <2>1, <2>2, CleanStep DEF Untouched
<1>6. CASE GetHeaders
  <2>1. check = "get" /\ request' \in Read
    BY <1>1, <1>2, <1>6 DEF GetHeaders, Headers, Said, KnownAs
  <2>2. (\E s : Refuse(s)) \/ Pass("lookup")
    BY <1>6 DEF GetHeaders
  <2> QED BY <2>1, <2>2, CleanStep DEF Untouched
<1>7. CASE PostHeaders
  <2>1. check = "post" /\ request' \in Read
    BY <1>1, <1>2, <1>7 DEF PostHeaders, Headers, Said
  <2>2. (\E s : Refuse(s)) \/ Pass("post session") \/ Pass("stateless")
    BY <1>7 DEF PostHeaders
  <2> QED BY <2>1, <2>2, CleanStep DEF Untouched
<1> QED BY <1>3, <1>4, <1>5, <1>6, <1>7

(* DELETE, and a server without sessions: one call, after every check.     *)
LEMMA OneCall ==
  ASSUME GateInv, Delete \/ Stateless
  PROVE  GateInv'
<1>1. request \in Read
  BY DEF GateInv, Read
<1>2. CASE Delete
  <2>1. check = "delete" /\ request' \in Read
    <3>1. ASSUME ReadsHeader("session", "absent") PROVE request' \in Read
      BY <1>1, <3>1, Reading DEF Headers, Said
    <3>2. ASSUME NEW s \in KnownAs, NEW v \in Versions,
                 request' = [request EXCEPT !.session = s, !.version = v]
          PROVE  request' \in Read
      BY <1>1, <3>2 DEF KnownAs, Versions, Read, Headers, Said
    <3> QED BY <1>2, <3>1, <3>2 DEF Delete
  <2>2. (\E s : Refuse(s)) \/ Serves("close", "202")
    BY <1>2 DEF Delete
  <2> QED BY <2>1, <2>2, CleanStep DEF Untouched, Calls
<1>3. CASE Stateless
  <2>1. check = "stateless" /\ request' \in Read
    BY <1>1, <1>3, Reading DEF Stateless, Headers, Said, Versions
  <2>2. (\E s : Refuse(s)) \/ \E s \in {"200", "202", "500"} : Serves("own service", s)
    BY <1>3 DEF Stateless
  <2> QED BY <2>1, <2>2, CleanStep DEF Untouched, Calls
<1> QED BY <1>2, <1>3

(* A session found, restored, or made for the request.                     *)
LEMMA SessionFound ==
  ASSUME GateInv, Lookup \/ PostSession
  PROVE  GateInv'
<1>1. request \in Read
  BY DEF GateInv, Read
<1>2. CASE Lookup
  <2>1. check = "lookup" /\ request' = request /\ effects = <<>> /\ answer = "none"
    BY <1>2 DEF Lookup, GateInv, Untouched
  <2>2. CASE (\E s : Refuse(s)) \/ Pass("version")
    BY <1>1, <2>1, <2>2, CleanStep
  <2>3. CASE request.session = "stored" /\ Does("restore", "version")
    <3>1. check' = "version" /\ effects' = <<"restore">> /\ answer' = "none"
      BY <2>1, <2>3 DEF Does
    <3>2. request'["session"] = "stored"
      BY <2>1, <2>3
    <3> QED BY <1>1, <2>1, <3>1, <3>2, NoAnswerYet DEF GateInv, Read, Untouched
  <2> QED BY <1>2, <2>2, <2>3 DEF Lookup
<1>3. CASE PostSession
  <2>1. check = "post session" /\ effects = <<>> /\ answer = "none"
    BY <1>3 DEF PostSession, GateInv, Untouched
  <2>2. CASE ReadsHeader("session", "absent") /\ Does("create session", "new session")
    <3>3. check' = "new session" /\ effects' = Append(<<>>, "create session") /\ answer' = "none"
      BY <2>1, <2>2 DEF Does
    <3>1. check' = "new session" /\ effects' = <<"create session">> /\ answer' = "none"
      BY <3>3, Single, Zenon
    <3>2. request' \in Read /\ request'["session"] = "absent"
      BY <1>1, <2>2, Reading DEF Headers, Said
    <3> QED BY <3>1, <3>2, NoAnswerYet DEF GateInv, Read, Untouched
  <2>3. ASSUME NEW s \in KnownAs, ReadsHeader("session", s), Pass("lookup") PROVE GateInv'
    <3>1. request' \in Read
      BY <1>1, <2>3, Reading DEF KnownAs, Headers, Said
    <3> QED BY <2>1, <2>3, <3>1, CleanStep DEF Untouched
  <2> QED BY <1>3, <2>2, <2>3 DEF PostSession
<1> QED BY <1>2, <1>3

(* The version is checked once the session is there, so that a refusal     *)
(* after a restore is one of an unknown version.                           *)
LEMMA VersionChecked ==
  ASSUME GateInv, CheckVersion
  PROVE  GateInv'
<1>1. request \in Read /\ check = "version" /\ answer = "none"
  BY DEF GateInv, Read, CheckVersion
<1>2. PICK v \in Versions : /\ ReadsHeader("version", v)
                            /\ IF KnownVersion(v) THEN Pass("serve") ELSE Refuse("400")
  BY DEF CheckVersion
<1>3. /\ request' \in Read /\ request'["version"] = v
      /\ request'["session"] = request["session"]
  BY <1>1, <1>2, Reading DEF Versions, Headers, Said
<1>4. effects' = effects
  BY <1>2 DEF Pass, Refuse
<1>5. \/ effects' = <<>>
      \/ effects' = <<"restore">> /\ request'["session"] = "stored"
  BY <1>1, <1>3, <1>4 DEF GateInv
<1>6. CASE KnownVersion(v)
  <2>1. check' = "serve" /\ answer' = "none"
    BY <1>1, <1>2, <1>6 DEF Pass
  <2> QED BY <1>3, <1>5, <2>1, NoAnswerYet DEF GateInv, Read, Untouched
<1>7. CASE ~KnownVersion(v)
  <2>1. check' = "answered" /\ answer' = "400"
    BY <1>2, <1>7 DEF Refuse
  <2>2. RefusalsLeaveNothing'
    <3>1. CASE effects' = <<>>
      BY <3>1, NothingDone
    <3>2. CASE effects' = <<"restore">> /\ request'["session"] = "stored"
      <4>1. request'.session = "stored" /\ request'.version = v
        BY <3>2, <1>3
      <4>2. Refused'
        BY <2>1 DEF Refused
      <4>3. ~KnownVersion(request'.version)
        BY <4>1, <1>7
      <4> QED BY <3>2, <4>1, <4>2, <4>3 DEF RefusalsLeaveNothing
    <3> QED BY <1>5, <3>1, <3>2
  <2> QED BY <1>3, <2>1, <2>2 DEF GateInv, Read, Untouched
<1> QED BY <1>6, <1>7

(* The call that serves a request that names a session: one thing, after   *)
(* the restore if there was one.                                           *)
LEMMA SessionServed ==
  ASSUME GateInv, ServeSession
  PROVE  GateInv'
<1>1. request \in Read /\ check = "serve" /\ answer = "none" /\ request' = request
  BY DEF GateInv, Read, ServeSession
<1>2. effects = <<>> \/ (effects = <<"restore">> /\ request'["session"] = "stored")
  BY <1>1 DEF GateInv
<1>3. CASE Refuse("500")
  <2>1. check' = "answered" /\ answer' = "500" /\ effects' = effects
    BY <1>3 DEF Refuse
  <2>2. RefusalsLeaveNothing'
    <3>1. CASE effects = <<>>
      BY <2>1, <3>1, NothingDone
    <3>2. CASE effects = <<"restore">> /\ request'["session"] = "stored"
      <4>1. Len(effects') = 1
        BY <2>1, <3>2
      <4> QED BY <2>1, <4>1, OneThingDone
    <3> QED BY <1>2, <3>1, <3>2
  <2> QED BY <1>1, <2>1, <2>2 DEF GateInv, Read, Untouched
<1>4. ASSUME NEW c, NEW s \in {"200", "202"}, Serves(c, s) PROVE GateInv'
  <2>1. check' = "answered" /\ answer' = s /\ effects' = Append(effects, c)
    BY <1>4 DEF Serves
  <2>2. Len(effects') = 1 \/ (Len(effects') = 2 /\ request'["session"] \in {"absent", "stored"})
    <3>1. CASE effects = <<>>
      BY <2>1, <3>1
    <3>2. CASE effects = <<"restore">> /\ request'["session"] = "stored"
      BY <2>1, <3>2
    <3> QED BY <1>2, <3>1, <3>2
  <2> QED BY <1>1, <2>1, <2>2, OneThingDone DEF GateInv, Read, Untouched
<1> QED BY <1>3, <1>4 DEF ServeSession

(* A POST without a session id: its session stays when it is refused.      *)
LEMMA SessionMade ==
  ASSUME GateInv, PostWithoutSession
  PROVE  GateInv'
<1>1. /\ request \in Read /\ answer = "none" /\ request["session"] = "absent"
      /\ effects = <<"create session">>
  BY DEF GateInv, Read, PostWithoutSession
<1>2. request' \in Read /\ request'["session"] = "absent"
  <2>1. CASE request' = request
    BY <1>1, <2>1
  <2>2. ASSUME NEW v \in Versions, ReadsHeader("version", v)
        PROVE  request' \in Read /\ request'["session"] = "absent"
    BY <1>1, <2>2, Reading DEF Versions, Headers, Said
  <2> QED BY <2>1, <2>2 DEF PostWithoutSession
<1>3. ASSUME NEW s, Refuse(s) PROVE GateInv'
  <2>1. check' = "answered" /\ effects' = <<"create session">>
    BY <1>1, <1>3, Zenon DEF Refuse
  <2>2. request'.session = "absent"
    BY <1>2
  <2>4. Len(effects') <= IF request'.session \in {"absent", "stored"} THEN 2 ELSE 1
    <3>1. PICK e : effects' = <<e>>
      BY <2>1, Zenon
    <3>2. Len(effects') = 1
      BY <3>1
    <3> QED BY <2>2, <3>2
  <2>3. RefusalsLeaveNothing'
    BY <2>1, <2>2, <2>4, Zenon DEF RefusalsLeaveNothing
  <2> QED BY <1>2, <2>1, <2>3 DEF GateInv, Read, Untouched
<1>4. ASSUME Serves("initialize", "200") PROVE GateInv'
  <2>1. check' = "answered" /\ answer' = "200" /\ effects' = Append(<<"create session">>, "initialize")
    BY <1>1, <1>4, Zenon DEF Serves
  <2>2. Len(effects') = 2
    <3>1. PICK e, f : effects' = Append(<<e>>, f)
      BY <2>1, Zenon
    <3> QED BY <3>1
  <2> QED BY <1>2, <2>1, <2>2, OneThingDone DEF GateInv, Read, Untouched
<1> QED BY <1>3, <1>4 DEF PostWithoutSession

(* A request that StreamableHttpService refuses has changed nothing but    *)
(* for the session a POST without an id made and the one it restored       *)
(* before the version was read, whatever hosts and origins are allowed and *)
(* whatever the request holds.                                             *)
THEOREM RefusalsCorrect == GateSpec => []RefusalsLeaveNothing
<1>1. GateInit => GateInv
  <2> SUFFICES ASSUME GateInit PROVE GateInv
    OBVIOUS
  <2>1. request = Unread /\ check = "host" /\ answer = "none" /\ effects = <<>>
    BY DEF GateInit, GateCalled
  <2>2. request \in Read
    BY <2>1 DEF Unread, Read, Headers, Said
  <2>3. RefusalsLeaveNothing
    BY <2>1 DEF RefusalsLeaveNothing, Refused
  <2> QED BY <2>1, <2>2, <2>3 DEF GateInv, Untouched
<1>2. GateInv /\ [GateNext]_gateVars => GateInv'
  <2> SUFFICES ASSUME GateInv, [GateNext]_gateVars PROVE GateInv'
    OBVIOUS
  <2>1. CASE UNCHANGED gateVars
    BY <2>1 DEF gateVars, GateInv, RefusalsLeaveNothing, Refused
  <2>2. CASE GateNext
    BY <2>2, FirstChecks, OneCall, SessionFound, VersionChecked, SessionServed, SessionMade DEF GateNext
  <2> QED BY <2>1, <2>2
<1>3. GateInv => RefusalsLeaveNothing
  BY DEF GateInv
<1> QED BY <1>1, <1>2, <1>3, PTL DEF GateSpec

-----------------------------------------------------------------------------
(* The event streams of a session.                                         *)

(* The messages of streams, the entries of the router, the events of the   *)
(* worker's channel and the channels of connections.                       *)
StreamMessage == [i : Nat, t : {"response", "progress", "cancelled", "server", "priming"}, r : Reqs \cup {NoId}]
RouterEntry == [keys : SUBSET ({"id", "token"} \X (Reqs \cup {NoId})), cache : Seq(StreamMessage),
                tx : 0 .. MaxConns, done : BOOLEAN]
(* The events of the channel, the state of a connection, and what the      *)
(* clients of a request and of the standalone stream keep.                 *)
SessionEvent == [t : {"establish", "message", "cancel", "resume", "closeSse", "closeReq"},
                 r : Reqs \cup {NoId}, h : Int, i : Int, c : 0 .. MaxConns]
Channel == [st : {"unused", "asked", "up", "closed"}, q : Seq(StreamMessage), prime : BOOLEAN]
PostState == [st : {"new", "establishing", "established", "streaming", "answered",
                    "ended", "lost", "resuming", "gone"},
              h : Int, c : 0 .. MaxConns, seen : Int]
GetState == [st : {"start", "connecting", "retrying", "connected", "waiting", "off"},
             c : 0 .. MaxConns, last : Int]

(* What the router of the requests and the send the worker waits for look  *)
(* like.                                                                   *)
RouterOK(rt) == DOMAIN rt \subseteq Nat /\ rt \in [DOMAIN rt -> RouterEntry]
OutboxOK(ob) == ob # <<>> => \E c \in Conn, ev \in StreamMessage : ob = <<[c |-> c, ev |-> ev]>>

(* The types of the variables.                                             *)
StreamsTypeOK ==
  /\ RouterOK(router)
  /\ common \in [cache : Seq(StreamMessage), tx : 0 .. MaxConns]
  /\ nextId \in Nat
  /\ OutboxOK(outbox)
  /\ events \in Seq(SessionEvent)
  /\ chan \in [Conn -> Channel]
  /\ post \in [Reqs -> PostState]
  /\ get \in GetState
  /\ got \in Int

-----------------------------------------------------------------------------
(* The index of the next event of a cache is a natural number.             *)
LEMMA NextIndexType ==
  ASSUME NEW cache \in Seq(StreamMessage), NEW start \in Nat
  PROVE  NextIndex(cache, start) \in Nat
<1>1. cache # <<>> => cache[Len(cache)] \in StreamMessage
  OBVIOUS
<1>2. cache # <<>> => cache[Len(cache)].i \in Nat
  BY <1>1 DEF StreamMessage
<1> QED BY <1>2 DEF NextIndex, Last

(* A cache with an event added is a cache.                                 *)
LEMMA CacheAddType ==
  ASSUME NEW cache \in Seq(StreamMessage), NEW ev \in StreamMessage
  PROVE  CacheAdd(cache, ev) \in Seq(StreamMessage)
<1>1. Len(cache) >= Capacity => cache # <<>>
  BY StreamsAssumption
<1>2. cache # <<>> => Tail(cache) \in Seq(StreamMessage)
  OBVIOUS
<1> QED BY <1>1, <1>2 DEF CacheAdd

(* How much of a cache a replay leaves out.                                *)
LEMMA SyncSkipType ==
  ASSUME NEW cache \in Seq(StreamMessage), NEW index \in Int
  PROVE  SyncSkip(cache, index) \in Nat
<1>1. cache # <<>> => cache[1] \in StreamMessage
  OBVIOUS
<1>2. cache # <<>> => cache[1].i \in Nat
  BY <1>1 DEF StreamMessage
<1> QED BY <1>2 DEF SyncSkip

(* What is replayed to a connection is a sequence of events.               *)
LEMMA ReplayType ==
  ASSUME NEW cache \in Seq(StreamMessage), NEW index \in Int
  PROVE  Replay(cache, index) \in Seq(StreamMessage)
<1> DEFINE n == SyncSkip(cache, index)
<1>1. n \in Nat /\ Len(cache) \in Nat
  BY SyncSkipType
<1> HIDE DEF n
<1>2. \A i \in n + 1 .. Len(cache) : cache[i] \in StreamMessage
  BY <1>1
<1>3. n + 1 \in Int /\ Len(cache) \in Int
  BY <1>1
<1>4. SubSeq(cache, n + 1, Len(cache)) \in Seq(StreamMessage)
  BY <1>2, <1>3, SubSeqProperties
<1> QED BY <1>4 DEF Replay, n

(* A new event of a stream.                                                *)
LEMMA EvType ==
  ASSUME NEW i \in Nat, NEW t \in {"response", "progress", "cancelled", "server", "priming"}, NEW r \in Reqs \cup {NoId}
  PROVE  Ev(i, t, r) \in StreamMessage /\ Ev(i, t, r).i = i
BY DEF Ev, StreamMessage

(* What the worker sets out to send.                                       *)
LEMMA ToSendType ==
  ASSUME NEW c \in 0 .. MaxConns, NEW ev \in StreamMessage
  PROVE  /\ OutboxOK(ToSend(c, ev))
         /\ c = NoConn => ToSend(c, ev) = <<>>
         /\ c # NoConn => ToSend(c, ev) # <<>> /\ ToSend(c, ev)[1].c = c /\ ToSend(c, ev)[1].ev = ev
<1>1. c # NoConn => c \in Conn
  BY DEF NoConn, Conn
<1>2. <<[c |-> c, ev |-> ev]>> # <<>> /\ <<[c |-> c, ev |-> ev]>>[1].c = c /\ <<[c |-> c, ev |-> ev]>>[1].ev = ev
  OBVIOUS
<1> QED BY <1>1, <1>2 DEF ToSend, OutboxOK

(* An entry of the router that is changed or taken out.                    *)
LEMMA RouterChanges ==
  ASSUME NEW rt, RouterOK(rt)
  PROVE  /\ \A S : RouterOK(Without(rt, S))
         /\ \A h \in Nat, e \in RouterEntry : RouterOK(With(rt, h, e))
         /\ \A h, e : e \in RouterEntry => RouterOK([rt EXCEPT ![h] = e])
<1>1. \A S : RouterOK(Without(rt, S))
  BY DEF RouterOK, Without
<1>2. \A h \in Nat, e \in RouterEntry : RouterOK(With(rt, h, e))
  BY DEF RouterOK, With
<1>3. \A h, e : e \in RouterEntry => RouterOK([rt EXCEPT ![h] = e])
  BY DEF RouterOK
<1> QED BY <1>1, <1>2, <1>3

(* An entry of the router with its cache, its connection or its keys       *)
(* changed is an entry.                                                    *)
LEMMA EntryChanges ==
  ASSUME NEW e \in RouterEntry
  PROVE  /\ \A ev \in StreamMessage : [e EXCEPT !.cache = CacheAdd(@, ev)] \in RouterEntry
         /\ \A ev \in StreamMessage, c \in 0 .. MaxConns :
              [e EXCEPT !.cache = CacheAdd(@, ev), !.tx = c] \in RouterEntry
         /\ \A c \in 0 .. MaxConns : [e EXCEPT !.tx = c] \in RouterEntry
         /\ \A k \in SUBSET ({"id", "token"} \X (Reqs \cup {NoId})) : [e EXCEPT !.keys = @ \cup k] \in RouterEntry
         /\ [e EXCEPT !.keys = {}, !.done = TRUE, !.tx = NoConn] \in RouterEntry
<1>1. e.cache \in Seq(StreamMessage) /\ e.keys \in SUBSET ({"id", "token"} \X (Reqs \cup {NoId}))
  BY DEF RouterEntry
<1>2. \A ev \in StreamMessage : CacheAdd(e.cache, ev) \in Seq(StreamMessage)
  BY <1>1, CacheAddType
<1>3. NoConn \in 0 .. MaxConns
  BY StreamsAssumption DEF NoConn
<1>4. \A ev \in StreamMessage : [e EXCEPT !.cache = CacheAdd(@, ev)] \in RouterEntry
  BY <1>2 DEF RouterEntry
<1>5. \A ev \in StreamMessage, c \in 0 .. MaxConns : [e EXCEPT !.cache = CacheAdd(@, ev), !.tx = c] \in RouterEntry
  BY <1>2 DEF RouterEntry
<1>6. \A c \in 0 .. MaxConns : [e EXCEPT !.tx = c] \in RouterEntry
  BY DEF RouterEntry
<1>7. \A k \in SUBSET ({"id", "token"} \X (Reqs \cup {NoId})) : [e EXCEPT !.keys = @ \cup k] \in RouterEntry
  <2> TAKE k \in SUBSET ({"id", "token"} \X (Reqs \cup {NoId}))
  <2>1. e.keys \cup k \in SUBSET ({"id", "token"} \X (Reqs \cup {NoId}))
    BY <1>1
  <2> QED BY <2>1 DEF RouterEntry
<1>8. [e EXCEPT !.keys = {}, !.done = TRUE, !.tx = NoConn] \in RouterEntry
  BY <1>3 DEF RouterEntry
<1> QED BY <1>4, <1>5, <1>6, <1>7, <1>8

(* The channel without its first event, which has its type.                *)
LEMMA EventTaken ==
  ASSUME StreamsTypeOK, NEW t, NextEvent(t)
  PROVE  /\ events' \in Seq(SessionEvent) /\ Head(events) \in SessionEvent /\ Head(events).t = t
         /\ Head(events) = events[1] /\ 1 \in 1 .. Len(events) /\ outbox = <<>>
         /\ Len(events') = Len(events) - 1
         /\ \A k \in 1 .. Len(events') : events'[k] = events[k + 1] /\ k + 1 \in 1 .. Len(events)
<1>1. events \in Seq(SessionEvent) /\ events # <<>> /\ events' = Tail(events) /\ Head(events).t = t /\ outbox = <<>>
  BY DEF NextEvent, StreamsTypeOK, AtSelect
<1>2. Len(events) \in Nat /\ Len(events) >= 1
  BY <1>1
<1>3. /\ events' \in Seq(SessionEvent) /\ Head(events) \in SessionEvent /\ Head(events) = events[1]
      /\ Len(events') = Len(events) - 1 /\ \A k \in 1 .. Len(events') : events'[k] = events[k + 1]
  BY <1>1
<1>4. \A k \in 1 .. Len(events') : k + 1 \in 1 .. Len(events)
  BY <1>2, <1>3
<1> QED BY <1>1, <1>2, <1>3, <1>4

(* The channel with an event more.                                         *)
LEMMA EventSent ==
  ASSUME StreamsTypeOK, NEW e \in SessionEvent, Emit(e)
  PROVE  /\ events' \in Seq(SessionEvent) /\ Len(events) \in Nat /\ Len(events') = Len(events) + 1
         /\ events'[Len(events) + 1] = e /\ \A k \in 1 .. Len(events) : events'[k] = events[k]
BY AppendProperties DEF StreamsTypeOK, Emit

(* The channel of one connection is opened, closed, marked, filled or      *)
(* emptied.                                                                *)
LEMMA ChanChanges ==
  ASSUME NEW ch \in [Conn -> Channel], NEW c
  PROVE  /\ [ch EXCEPT ![c] = Closed] \in [Conn -> Channel]
         /\ \A q \in Seq(StreamMessage), b \in BOOLEAN :
              [ch EXCEPT ![c] = [st |-> "up", q |-> q, prime |-> b]] \in [Conn -> Channel]
         /\ [ch EXCEPT ![c].st = "asked"] \in [Conn -> Channel]
         /\ \A b \in BOOLEAN : [ch EXCEPT ![c].prime = b] \in [Conn -> Channel]
         /\ \A q \in Seq(StreamMessage) : [ch EXCEPT ![c].q = q] \in [Conn -> Channel]
<1>1. Closed \in Channel
  <2>1. <<>> \in Seq(StreamMessage)
    OBVIOUS
  <2> QED BY <2>1 DEF Closed, Channel
<1>2. \A q \in Seq(StreamMessage), b \in BOOLEAN : [st |-> "up", q |-> q, prime |-> b] \in Channel
  BY DEF Channel
<1>3. [ch EXCEPT ![c].st = "asked"] \in [Conn -> Channel]
  BY DEF Channel
<1>4. \A b \in BOOLEAN : [ch EXCEPT ![c].prime = b] \in [Conn -> Channel]
  BY DEF Channel
<1>5. \A q \in Seq(StreamMessage) : [ch EXCEPT ![c].q = q] \in [Conn -> Channel]
  BY DEF Channel
<1> QED BY <1>1, <1>2, <1>3, <1>4, <1>5

(* One channel is replaced.                                                *)
LEMMA ChanSet ==
  ASSUME NEW ch \in [Conn -> Channel], NEW c, NEW v \in Channel
  PROVE  [ch EXCEPT ![c] = v] \in [Conn -> Channel]
OBVIOUS

(* A new channel, and one that is closed.                                  *)
LEMMA NewChannels ==
  /\ Closed \in Channel
  /\ \A q \in Seq(StreamMessage), b \in BOOLEAN : [st |-> "up", q |-> q, prime |-> b] \in Channel
<1>1. <<>> \in Seq(StreamMessage)
  OBVIOUS
<1>2. \A q \in Seq(StreamMessage), b \in BOOLEAN : [st |-> "up", q |-> q, prime |-> b] \in Channel
  BY DEF Channel
<1> QED BY <1>1, <1>2 DEF Closed, Channel

(* A connection that is opened with what is replayed on it.                *)
LEMMA OpenedType ==
  ASSUME StreamsTypeOK, NEW c, NEW q \in Seq(StreamMessage)
  PROVE  Opened(c, q) \in [Conn -> Channel] /\ [chan EXCEPT ![c] = Closed] \in [Conn -> Channel]
<1>1. chan \in [Conn -> Channel]
  BY DEF StreamsTypeOK
<1>2. [st |-> "up", q |-> q, prime |-> FALSE] \in Channel
  BY NewChannels
<1> QED BY <1>1, <1>2, ChanSet, NewChannels DEF Opened

(* The initial state has its types.                                        *)
LEMMA StreamsInitType == StreamsInit => StreamsTypeOK
<1> SUFFICES ASSUME StreamsInit PROVE StreamsTypeOK
  OBVIOUS
<1>1. NoConn \in 0 .. MaxConns /\ NoId \in Int
  BY StreamsAssumption DEF NoConn, NoId
<1>2. <<>> \in Seq(StreamMessage) /\ <<>> \in Seq(SessionEvent)
  OBVIOUS
<1>3. RouterOK(router)
  BY DEF StreamsInit, RouterOK
<1>4. chan \in [Conn -> Channel]
  BY <1>2 DEF StreamsInit, Channel
<1>5. post \in [Reqs -> PostState] /\ get \in GetState
  BY <1>1 DEF StreamsInit, PostState, GetState
<1> QED BY <1>1, <1>2, <1>3, <1>4, <1>5 DEF StreamsInit, StreamsTypeOK, OutboxOK

(* A message on the standalone stream                                      *)
LEMMA SendCommonType ==
  ASSUME StreamsTypeOK, NEW t \in {"response", "progress", "cancelled", "server", "priming"}, NEW r \in Reqs \cup {NoId},
         SendCommon(t, r)
  PROVE  common' \in [cache : Seq(StreamMessage), tx : 0 .. MaxConns] /\ OutboxOK(outbox')
<1>1. common.cache \in Seq(StreamMessage) /\ common.tx \in 0 .. MaxConns
  BY DEF StreamsTypeOK
<1> DEFINE ev == Ev(NextIndex(common.cache, 0), t, r)
<1>2. ev \in StreamMessage
  BY <1>1, NextIndexType, EvType
<1>3. CacheAdd(common.cache, ev) \in Seq(StreamMessage)
  BY <1>1, <1>2, CacheAddType
<1>4. common' = [common EXCEPT !.cache = CacheAdd(@, ev)] /\ outbox' = ToSend(common.tx, ev)
  BY DEF SendCommon
<1>5. OutboxOK(outbox')
  BY <1>1, <1>2, <1>4, ToSendType
<1> HIDE DEF ev
<1> QED BY <1>1, <1>3, <1>4, <1>5 DEF StreamsTypeOK

(* An entry of the router, and the event its stream would send next.       *)
LEMMA RouteIndex ==
  ASSUME StreamsTypeOK, NEW h \in DOMAIN router,
         NEW t \in {"response", "progress", "cancelled", "server", "priming"}, NEW r \in Reqs \cup {NoId}
  PROVE  /\ router[h] \in RouterEntry /\ router[h].tx \in 0 .. MaxConns
         /\ Ev(NextIndex(router[h].cache, IF Priming THEN 1 ELSE 0), t, r) \in StreamMessage
<1>1. router[h] \in RouterEntry
  BY DEF StreamsTypeOK, RouterOK
<1>2. router[h].cache \in Seq(StreamMessage) /\ router[h].tx \in 0 .. MaxConns
  BY <1>1 DEF RouterEntry
<1>3. (IF Priming THEN 1 ELSE 0) \in Nat
  OBVIOUS
<1>4. NextIndex(router[h].cache, IF Priming THEN 1 ELSE 0) \in Nat
  BY <1>2, <1>3, NextIndexType
<1> QED BY <1>1, <1>2, <1>4, EvType

(* From here one lemma per action: it keeps the types. First the worker:   *)
(* it answers a request.                                                   *)
LEMMA RespondType ==
  ASSUME StreamsTypeOK, NEW r \in Reqs, Respond(r)
  PROVE  StreamsTypeOK'
<1> DEFINE key == <<"id", r>>
           h == resources[key]
<1>1. CASE /\ h \in DOMAIN router
           /\ LET ev == Ev(NextIndex(router[h].cache, IF Priming THEN 1 ELSE 0), "response", r)
              IN outbox' = ToSend(router[h].tx, ev)
           /\ router' = Without(router, {h})
           /\ UNCHANGED common
  <2>1. OutboxOK(outbox')
    BY <1>1, RouteIndex, ToSendType
  <2>2. RouterOK(router')
    BY <1>1, RouterChanges DEF StreamsTypeOK
  <2> QED BY <1>1, <2>1, <2>2 DEF StreamsTypeOK, Respond, client
<1>2. CASE UNCHANGED <<router, common, outbox>>
  BY <1>2 DEF StreamsTypeOK, Respond, client
<1>3. CASE SendCommon("response", r) /\ UNCHANGED router
  <2>1. common' \in [cache : Seq(StreamMessage), tx : 0 .. MaxConns] /\ OutboxOK(outbox')
    BY <1>3, SendCommonType
  <2> QED BY <1>3, <2>1 DEF StreamsTypeOK, Respond, client
<1> QED BY <1>1, <1>2, <1>3 DEF Respond

(* A notification goes to the stream of the request it is about.           *)
LEMMA NotifyType ==
  ASSUME StreamsTypeOK, NEW r \in Reqs, NEW t \in {"progress", "cancelled"}, Notify(r, t)
  PROVE  StreamsTypeOK'
<1> DEFINE key == IF t = "progress" THEN <<"token", r>> ELSE <<"id", r>>
           h == resources[key]
<1>1. CASE h \in DOMAIN router /\ SendRequestWise(h, t, r) /\ UNCHANGED common
  <2> DEFINE ev == Ev(NextIndex(router[h].cache, IF Priming THEN 1 ELSE 0), t, r)
  <2>1. router[h] \in RouterEntry /\ router[h].tx \in 0 .. MaxConns /\ ev \in StreamMessage
    BY <1>1, RouteIndex
  <2>2. router' = [router EXCEPT ![h].cache = CacheAdd(@, ev)] /\ outbox' = ToSend(router[h].tx, ev)
    BY <1>1 DEF SendRequestWise
  <2> HIDE DEF ev, h
  <2>3. router' = [router EXCEPT ![h] = [router[h] EXCEPT !.cache = CacheAdd(@, ev)]]
    BY <2>2
  <2>4. RouterOK(router')
    BY <2>1, <2>3, EntryChanges, RouterChanges DEF StreamsTypeOK
  <2>5. OutboxOK(outbox')
    BY <2>1, <2>2, ToSendType
  <2> QED BY <1>1, <2>4, <2>5 DEF StreamsTypeOK, Notify
<1>2. CASE UNCHANGED <<router, common, outbox>>
  BY <1>2 DEF StreamsTypeOK, Notify
<1>3. CASE SendCommon(t, r) /\ UNCHANGED router
  <2>1. common' \in [cache : Seq(StreamMessage), tx : 0 .. MaxConns] /\ OutboxOK(outbox')
    BY <1>3, SendCommonType
  <2> QED BY <1>3, <2>1 DEF StreamsTypeOK, Notify
<1> QED BY <1>1, <1>2, <1>3 DEF Notify

(* A message the server starts goes to the standalone stream.              *)
LEMMA ServerInitiatedType ==
  ASSUME StreamsTypeOK, ServerInitiated
  PROVE  StreamsTypeOK'
<1>1. SendCommon("server", NoId)
  BY DEF ServerInitiated
<1>2. common' \in [cache : Seq(StreamMessage), tx : 0 .. MaxConns] /\ OutboxOK(outbox')
  BY <1>1, SendCommonType
<1> QED BY <1>2 DEF StreamsTypeOK, ServerInitiated, client

(* The send completes.                                                     *)
LEMMA FlushType ==
  ASSUME StreamsTypeOK, Flush
  PROVE  StreamsTypeOK'
<1>1. PICK c \in Conn, ev \in StreamMessage : outbox = <<[c |-> c, ev |-> ev]>>
  BY DEF Flush, StreamsTypeOK, OutboxOK
<1>2. outbox[1].c = c /\ outbox[1].ev = ev
  BY <1>1
<1>3. chan[c].q \in Seq(StreamMessage)
  BY DEF StreamsTypeOK, Channel
<1> DEFINE q == Append(chan[c].q, ev)
<1>4. chan' = [chan EXCEPT ![c].q = q] \/ UNCHANGED chan
  BY <1>2 DEF Flush
<1>5. q \in Seq(StreamMessage)
  BY <1>3
<1> HIDE DEF q
<1>6. chan' \in [Conn -> Channel]
  <2>1. chan \in [Conn -> Channel]
    BY DEF StreamsTypeOK
  <2> QED BY <1>4, <1>5, <2>1 DEF Channel
<1> QED BY <1>6 DEF StreamsTypeOK, Flush, client, OutboxOK

(* A new connection is one that was never opened.                          *)
LEMMA FreshConn ==
  ASSUME Fresh # {}
  PROVE  NewConn \in Fresh /\ NewConn \in Conn /\ NewConn # NoConn /\ NewConn \in 0 .. MaxConns
<1>1. Fresh \subseteq Nat
  BY StreamsAssumption DEF Fresh, Conn
<1>2. \E c \in Fresh : \A d \in Fresh : c <= d
  BY <1>1, LeastElement
<1>3. NewConn \in Fresh
  BY <1>2 DEF NewConn
<1> QED BY <1>3, StreamsAssumption DEF Fresh, Conn, NoConn

(* A channel for a request is made.                                        *)
LEMMA EstablishType ==
  ASSUME StreamsTypeOK, EstablishRequestWiseChannel
  PROVE  StreamsTypeOK'
<1> DEFINE r == Head(events).r
           c == NewConn
           entry == [keys |-> {}, cache |-> <<>>, tx |-> c, done |-> FALSE]
<1>1. NextEvent("establish") /\ Fresh # {}
  BY DEF EstablishRequestWiseChannel
<1>2. events' \in Seq(SessionEvent)
  BY <1>1, EventTaken
<1>3. c \in 0 .. MaxConns
  BY <1>1, FreshConn
<1>4. /\ router' = With(router, nextId, entry)
      /\ chan' = Opened(c, <<>>) \/ chan' = [chan EXCEPT ![c] = Closed]
      /\ \/ post' = [post EXCEPT ![r] = [@ EXCEPT !.st = "established", !.h = nextId, !.c = c]]
         \/ post' = post
      /\ nextId' = nextId + 1
  BY DEF EstablishRequestWiseChannel
<1> HIDE DEF c, r
<1>5. entry \in RouterEntry
  <2>1. <<>> \in Seq(StreamMessage) /\ {} \in SUBSET ({"id", "token"} \X (Reqs \cup {NoId}))
    OBVIOUS
  <2> QED BY <1>3, <2>1 DEF RouterEntry
<1> HIDE DEF entry
<1>6. RouterOK(router')
  BY <1>4, <1>5, RouterChanges DEF StreamsTypeOK
<1>7. chan' \in [Conn -> Channel]
  <2>1. <<>> \in Seq(StreamMessage)
    OBVIOUS
  <2>2. Opened(c, <<>>) \in [Conn -> Channel] /\ [chan EXCEPT ![c] = Closed] \in [Conn -> Channel]
    BY <2>1, OpenedType
  <2> QED BY <1>4, <2>2
<1>8. post' \in [Reqs -> PostState]
  <2>1. post \in [Reqs -> PostState] /\ nextId \in Int
    BY DEF StreamsTypeOK
  <2> QED BY <1>3, <1>4, <2>1 DEF PostState
<1> QED BY <1>2, <1>4, <1>6, <1>7, <1>8 DEF StreamsTypeOK, EstablishRequestWiseChannel

(* A message of a client arrives.                                          *)
LEMMA ClientMessageType ==
  ASSUME StreamsTypeOK, ClientMessage
  PROVE  StreamsTypeOK'
<1> DEFINE h == Head(events).h
           keys == {"id", "token"} \X {Head(events).r}
<1>1. events' \in Seq(SessionEvent) /\ Head(events) \in SessionEvent
  BY EventTaken DEF ClientMessage
<1>2. keys \in SUBSET ({"id", "token"} \X (Reqs \cup {NoId}))
  BY <1>1 DEF SessionEvent
<1>3. \/ router' = router
      \/ h \in DOMAIN router /\ router' = [router EXCEPT ![h] = [router[h] EXCEPT !.keys = @ \cup keys]]
  BY DEF ClientMessage
<1> HIDE DEF h, keys
<1>4. RouterOK(router')
  <2>1. h \in DOMAIN router => [router[h] EXCEPT !.keys = @ \cup keys] \in RouterEntry
    BY <1>2, EntryChanges DEF StreamsTypeOK, RouterOK
  <2>2. h \in DOMAIN router => RouterOK([router EXCEPT ![h] = [router[h] EXCEPT !.keys = @ \cup keys]])
    BY <2>1, RouterChanges DEF StreamsTypeOK
  <2> QED BY <1>3, <2>2 DEF StreamsTypeOK
<1> QED BY <1>1, <1>4 DEF StreamsTypeOK, ClientMessage, client

(* A request is cancelled.                                                 *)
LEMMA CancelRequestType ==
  ASSUME StreamsTypeOK, CancelRequest
  PROVE  StreamsTypeOK'
<1> DEFINE h == resources[<<"id", Head(events).r>>]
<1>1. events' \in Seq(SessionEvent)
  BY EventTaken DEF CancelRequest
<1>2. \/ router' = router
      \/ h \in DOMAIN router
         /\ router' = [router EXCEPT ![h] = [router[h] EXCEPT !.keys = {}, !.done = TRUE, !.tx = NoConn]]
  BY DEF CancelRequest, Unregistered
<1> HIDE DEF h
<1>3. RouterOK(router')
  <2>1. h \in DOMAIN router => [router[h] EXCEPT !.keys = {}, !.done = TRUE, !.tx = NoConn] \in RouterEntry
    BY EntryChanges DEF StreamsTypeOK, RouterOK
  <2> QED BY <1>2, <2>1, RouterChanges DEF StreamsTypeOK
<1> QED BY <1>1, <1>3 DEF StreamsTypeOK, CancelRequest, client

(* A completed stream has expired.                                         *)
LEMMA EvictType ==
  ASSUME StreamsTypeOK, NEW h, Evict(h)
  PROVE  StreamsTypeOK'
<1>1. RouterOK(router')
  BY RouterChanges DEF StreamsTypeOK, Evict
<1> QED BY <1>1 DEF StreamsTypeOK, Evict, client

(* The stream of a request is resumed.                                     *)
LEMMA ResumeRequestWiseType ==
  ASSUME StreamsTypeOK, ResumeRequestWise
  PROVE  StreamsTypeOK'
<1> DEFINE e == Head(events)
           known == e.h \in DOMAIN router
           fails == ~known \/ SyncFails(router[e.h].cache, e.i)
<1>1. events' \in Seq(SessionEvent) /\ e \in SessionEvent
  BY EventTaken DEF ResumeRequestWise
<1>2. e.c \in 0 .. MaxConns /\ e.i \in Int /\ NoConn \in 0 .. MaxConns
  BY <1>1, StreamsAssumption DEF SessionEvent, NoConn
<1>3. \/ router' = router
      \/ known /\ \E c \in {NoConn, e.c} : router' = [router EXCEPT ![e.h] = [router[e.h] EXCEPT !.tx = c]]
  BY DEF ResumeRequestWise
<1>4. \/ chan' = [chan EXCEPT ![e.c] = Closed]
      \/ known /\ chan' = Opened(e.c, Replay(router[e.h].cache, e.i))
  BY DEF ResumeRequestWise
<1>5. post' = post \/ \E st \in {"gone", "streaming"} : post' = [post EXCEPT ![e.r].st = st]
  BY DEF ResumeRequestWise
<1> HIDE DEF e, fails
<1>6. known => router[e.h] \in RouterEntry /\ router[e.h].cache \in Seq(StreamMessage)
  BY DEF StreamsTypeOK, RouterOK, RouterEntry
<1>7. RouterOK(router')
  <2>1. \A c \in {NoConn, e.c} : known => [router[e.h] EXCEPT !.tx = c] \in RouterEntry
    BY <1>2, <1>6, EntryChanges
  <2> QED BY <1>3, <2>1, RouterChanges DEF StreamsTypeOK
<1>8. chan' \in [Conn -> Channel]
  <2>1. known => Replay(router[e.h].cache, e.i) \in Seq(StreamMessage)
    BY <1>2, <1>6, ReplayType
  <2>2. <<>> \in Seq(StreamMessage)
    OBVIOUS
  <2>3. /\ known => Opened(e.c, Replay(router[e.h].cache, e.i)) \in [Conn -> Channel]
        /\ [chan EXCEPT ![e.c] = Closed] \in [Conn -> Channel]
    BY <2>1, <2>2, OpenedType
  <2> QED BY <1>4, <2>3
<1>9. post' \in [Reqs -> PostState]
  <2>1. post \in [Reqs -> PostState]
    BY DEF StreamsTypeOK
  <2> QED BY <1>5, <2>1 DEF PostState
<1> QED BY <1>1, <1>7, <1>8, <1>9 DEF StreamsTypeOK, ResumeRequestWise

(* The standalone stream is resumed.                                       *)
LEMMA ResumeOrShadowCommonType ==
  ASSUME StreamsTypeOK, ResumeOrShadowCommon
  PROVE  StreamsTypeOK'
<1> DEFINE e == Head(events)
           index == IF e.i = NoId THEN 0 ELSE e.i
           q == IF IsClosed(common.tx) THEN Replay(common.cache, index) ELSE <<>>
           prime == Priming /\ e.i = NoId
<1>1. events' \in Seq(SessionEvent) /\ e \in SessionEvent
  BY EventTaken DEF ResumeOrShadowCommon
<1>2. e.c \in 0 .. MaxConns /\ index \in Int /\ NoConn \in 0 .. MaxConns /\ common.cache \in Seq(StreamMessage)
  BY <1>1, StreamsAssumption DEF SessionEvent, NoConn, StreamsTypeOK
<1>3. common' = common \/ \E c \in {NoConn, e.c} : common' = [common EXCEPT !.tx = c]
  BY DEF ResumeOrShadowCommon
<1>4. \/ chan' = [chan EXCEPT ![e.c] = Closed]
      \/ chan' = [Opened(e.c, q) EXCEPT ![e.c].prime = prime]
  BY DEF ResumeOrShadowCommon
<1>5. get' = get \/ get' = [get EXCEPT !.st = "connected"]
  BY DEF ResumeOrShadowCommon
<1>6. q \in Seq(StreamMessage)
  <2> HIDE DEF index, e
  <2>1. Replay(common.cache, index) \in Seq(StreamMessage) /\ <<>> \in Seq(StreamMessage)
    BY <1>2, ReplayType
  <2> QED BY <2>1
<1>7. prime \in BOOLEAN
  BY StreamsAssumption
<1> HIDE DEF e, index, q, prime
<1>8. chan' \in [Conn -> Channel]
  <2>1. Opened(e.c, q) \in [Conn -> Channel]
    BY <1>6, ChanChanges DEF StreamsTypeOK, Opened
  <2>2. chan \in [Conn -> Channel] /\ <<>> \in Seq(StreamMessage)
    BY DEF StreamsTypeOK
  <2>3. [chan EXCEPT ![e.c] = Closed] \in [Conn -> Channel]
    BY <2>2 DEF Closed, Channel
  <2>4. [Opened(e.c, q) EXCEPT ![e.c].prime = prime] \in [Conn -> Channel]
    BY <1>7, <2>1 DEF Channel
  <2> QED BY <1>4, <2>3, <2>4
<1>9. common' \in [cache : Seq(StreamMessage), tx : 0 .. MaxConns]
  BY <1>2, <1>3 DEF StreamsTypeOK
<1>10. get' \in GetState
  BY <1>5 DEF StreamsTypeOK, GetState
<1> QED BY <1>1, <1>8, <1>9, <1>10 DEF StreamsTypeOK, ResumeOrShadowCommon

(* A stream is closed so that its client reconnects.                       *)
LEMMA CloseSseStreamType ==
  ASSUME StreamsTypeOK, CloseSseStream
  PROVE  StreamsTypeOK'
<1> DEFINE h == Head(events).h
<1>1. events' \in Seq(SessionEvent)
  BY EventTaken DEF CloseSseStream
<1>2. NoConn \in 0 .. MaxConns /\ NoId \in Reqs \cup {NoId}
  BY StreamsAssumption DEF NoConn
<1>3. CASE /\ h \in DOMAIN router
           /\ LET ev == Ev(NextIndex(router[h].cache, IF Priming THEN 1 ELSE 0), "priming", NoId) IN
              /\ outbox' = ToSend(router[h].tx, ev)
              /\ router' = [router EXCEPT ![h].cache = CacheAdd(@, ev), ![h].tx = NoConn]
           /\ UNCHANGED common
  <2> DEFINE ev == Ev(NextIndex(router[h].cache, IF Priming THEN 1 ELSE 0), "priming", NoId)
  <2>1. router[h] \in RouterEntry /\ router[h].tx \in 0 .. MaxConns /\ ev \in StreamMessage
    BY <1>2, <1>3, RouteIndex
  <2>2. /\ router' = [router EXCEPT ![h] = [router[h] EXCEPT !.cache = CacheAdd(router[h].cache, ev), !.tx = NoConn]]
        /\ outbox' = ToSend(router[h].tx, ev)
    BY <1>3
  <2> HIDE DEF ev, h
  <2>3. RouterOK(router')
    BY <1>2, <2>1, <2>2, EntryChanges, RouterChanges DEF StreamsTypeOK
  <2>4. OutboxOK(outbox')
    BY <2>1, <2>2, ToSendType
  <2> QED BY <1>1, <1>3, <2>3, <2>4 DEF StreamsTypeOK, CloseSseStream, client
<1>4. CASE UNCHANGED <<router, common, outbox>>
  BY <1>1, <1>4 DEF StreamsTypeOK, CloseSseStream, client
<1>5. CASE /\ LET ev == Ev(NextIndex(common.cache, 0), "priming", NoId) IN
              /\ outbox' = ToSend(common.tx, ev)
              /\ common' = [cache |-> CacheAdd(common.cache, ev), tx |-> NoConn]
           /\ UNCHANGED router
  <2> DEFINE ev == Ev(NextIndex(common.cache, 0), "priming", NoId)
  <2>1. common.cache \in Seq(StreamMessage) /\ common.tx \in 0 .. MaxConns
    BY DEF StreamsTypeOK
  <2>2. ev \in StreamMessage
    BY <2>1, NextIndexType, EvType
  <2> HIDE DEF ev
  <2>3. common' \in [cache : Seq(StreamMessage), tx : 0 .. MaxConns]
    BY <1>2, <1>5, <2>1, <2>2, CacheAddType DEF ev
  <2>4. OutboxOK(outbox')
    BY <1>5, <2>1, <2>2, ToSendType DEF ev
  <2> QED BY <1>1, <1>5, <2>3, <2>4 DEF StreamsTypeOK, CloseSseStream, client
<1> QED BY <1>3, <1>4, <1>5 DEF CloseSseStream

(* The stream of a request is closed.                                      *)
LEMMA CloseRequestWiseType ==
  ASSUME StreamsTypeOK, CloseRequestWiseChannel
  PROVE  StreamsTypeOK'
<1>1. events' \in Seq(SessionEvent)
  BY EventTaken DEF CloseRequestWiseChannel
<1>2. RouterOK(router')
  BY RouterChanges DEF StreamsTypeOK, CloseRequestWiseChannel
<1> QED BY <1>1, <1>2 DEF StreamsTypeOK, CloseRequestWiseChannel, client

(* The worker quits.                                                       *)
LEMMA QuitType ==
  ASSUME StreamsTypeOK, Quit
  PROVE  StreamsTypeOK'
<1>1. <<>> \in Seq(SessionEvent)
  OBVIOUS
<1> QED BY <1>1 DEF StreamsTypeOK, Quit

(* What Event makes is an event with these fields.                         *)
LEMMA EventType ==
  ASSUME NEW t \in {"establish", "message", "cancel", "resume", "closeSse", "closeReq"}, NEW r \in Reqs \cup {NoId},
         NEW h \in Int, NEW i \in Int, NEW c \in 0 .. MaxConns
  PROVE  /\ Event(t, r, h, i, c) \in SessionEvent
         /\ Event(t, r, h, i, c).t = t /\ Event(t, r, h, i, c).h = h /\ Event(t, r, h, i, c).i = i
         /\ Event(t, r, h, i, c).c = c
BY DEF Event, SessionEvent

(* The values that stand for no connection and no identifier.              *)
LEMMA Nothing == NoConn \in 0 .. MaxConns /\ NoId \in Int /\ NoConn \notin Conn /\ NoId = -1 /\ NoConn = 0
BY StreamsAssumption DEF NoConn, NoId, Conn

(* The clients: a request is posted.                                       *)
LEMMA PostRequestType ==
  ASSUME StreamsTypeOK, NEW r \in Reqs, PostRequest(r)
  PROVE  StreamsTypeOK'
<1>1. Event("establish", r, NoId, NoId, NoConn) \in SessionEvent
  BY Nothing, EventType
<1>2. events' \in Seq(SessionEvent)
  BY <1>1, EventSent DEF PostRequest
<1>3. post' \in [Reqs -> PostState]
  BY DEF PostRequest, StreamsTypeOK, PostState
<1> QED BY <1>2, <1>3 DEF StreamsTypeOK, PostRequest, workerVars

(* Its message is pushed once its stream is established.                   *)
LEMMA PushMessageType ==
  ASSUME StreamsTypeOK, NEW r \in Reqs, PushMessage(r)
  PROVE  StreamsTypeOK'
<1>1. post[r] \in PostState /\ post[r].h \in Int
  BY DEF StreamsTypeOK, PostState
<1>2. Event("message", r, post[r].h, NoId, NoConn) \in SessionEvent
  BY <1>1, Nothing, EventType
<1>3. events' \in Seq(SessionEvent)
  BY <1>2, EventSent DEF PushMessage
<1>4. post' \in [Reqs -> PostState]
  BY DEF PushMessage, StreamsTypeOK, PostState
<1>5. chan' \in [Conn -> Channel]
  <2>1. chan \in [Conn -> Channel] /\ Priming \in BOOLEAN
    BY StreamsAssumption DEF StreamsTypeOK
  <2>2. PICK c : chan' = [chan EXCEPT ![c].prime = Priming]
    BY DEF PushMessage
  <2> QED BY <2>1, <2>2 DEF Channel
<1> QED BY <1>3, <1>4, <1>5 DEF StreamsTypeOK, PushMessage, workerVars

(* The channels with one of them closed.                                   *)
LEMMA ChanClosed ==
  ASSUME StreamsTypeOK, NEW c
  PROVE  [chan EXCEPT ![c] = Closed] \in [Conn -> Channel]
BY ChanSet, NewChannels DEF StreamsTypeOK

(* The client goes before the stream is established.                       *)
LEMMA AbandonPostType ==
  ASSUME StreamsTypeOK, NEW r \in Reqs, AbandonPost(r)
  PROVE  StreamsTypeOK'
<1>1. post' \in [Reqs -> PostState]
  BY DEF AbandonPost, StreamsTypeOK, PostState
<1>2. chan' = chan \/ chan' = [chan EXCEPT ![post[r].c] = Closed]
  BY DEF AbandonPost
<1>3. chan' \in [Conn -> Channel]
  BY <1>2, ChanClosed DEF StreamsTypeOK
<1> QED BY <1>1, <1>3 DEF StreamsTypeOK, AbandonPost, workerVars

(* The client asks to cancel a request.                                    *)
LEMMA CancelByClientType ==
  ASSUME StreamsTypeOK, NEW r \in Reqs, CancelByClient(r)
  PROVE  StreamsTypeOK'
<1>1. Event("cancel", r, NoId, NoId, NoConn) \in SessionEvent
  BY Nothing, EventType
<1>2. events' \in Seq(SessionEvent)
  BY <1>1, EventSent DEF CancelByClient
<1> QED BY <1>2 DEF StreamsTypeOK, CancelByClient, workerVars

(* The application asks to close a stream.                                 *)
LEMMA AskCloseType ==
  ASSUME StreamsTypeOK, NEW t \in {"closeSse", "closeReq"}, NEW h \in HttpId \cup {NoId}, AskClose(t, h)
  PROVE  StreamsTypeOK'
<1>1. h \in Int
  BY Nothing, StreamsAssumption DEF HttpId
<1>2. Event(t, NoId, h, NoId, NoConn) \in SessionEvent
  BY <1>1, Nothing, EventType
<1>3. events' \in Seq(SessionEvent)
  BY <1>2, EventSent DEF AskClose
<1> QED BY <1>3 DEF StreamsTypeOK, AskClose, workerVars

(* What a client reads from its connection.                                *)
LEMMA ReadType ==
  ASSUME StreamsTypeOK, NEW c \in 0 .. MaxConns, c # NoConn
  PROVE  /\ c \in Conn /\ chan[c] \in Channel /\ chan[c].q \in Seq(StreamMessage)
         /\ chan[c].q # <<>> => /\ Head(chan[c].q) \in StreamMessage /\ Head(chan[c].q).i \in Nat
                                /\ Tail(chan[c].q) \in Seq(StreamMessage)
<1>1. c \in Conn
  BY StreamsAssumption, Nothing DEF Conn
<1>2. chan[c] \in Channel /\ chan[c].q \in Seq(StreamMessage)
  BY <1>1 DEF StreamsTypeOK, Channel
<1>3. \A q \in Seq(StreamMessage) : q # <<>> => Head(q) \in StreamMessage /\ Tail(q) \in Seq(StreamMessage)
  OBVIOUS
<1> QED BY <1>1, <1>2, <1>3 DEF StreamMessage

(* The client of a request reads an event.                                 *)
LEMMA PostEventType ==
  ASSUME StreamsTypeOK, NEW r \in Reqs, PostEvent(r)
  PROVE  StreamsTypeOK'
<1> DEFINE c == post[r].c
           ev == Head(chan[c].q)
<1>1. post \in [Reqs -> PostState] /\ chan \in [Conn -> Channel] /\ c \in 0 .. MaxConns /\ c # NoConn
  BY DEF StreamsTypeOK, PostState, PostEvent
<1>2. CASE chan' = [chan EXCEPT ![c].prime = FALSE] /\ post' = [post EXCEPT ![r].seen = 0]
  <2>1. chan' \in [Conn -> Channel]
    BY <1>1, <1>2 DEF Channel
  <2>2. post' \in [Reqs -> PostState]
    BY <1>1, <1>2 DEF PostState
  <2> QED BY <2>1, <2>2 DEF StreamsTypeOK, PostEvent, workerVars
<1>3. CASE /\ chan[c].q # <<>>
           /\ LET last == ev.t = "response" IN
              /\ post' = [post EXCEPT ![r].seen = ev.i, ![r].st = IF last THEN "answered" ELSE @]
              /\ chan' = IF last THEN [chan EXCEPT ![c] = Closed] ELSE [chan EXCEPT ![c].q = Tail(@)]
  <2>1. ev.i \in Int /\ Tail(chan[c].q) \in Seq(StreamMessage) /\ chan[c] \in Channel
    BY <1>1, <1>3, ReadType
  <2>2. PICK st \in {"answered", post[r].st} : post' = [post EXCEPT ![r].seen = ev.i, ![r].st = st]
    BY <1>3
  <2>3. chan' = [chan EXCEPT ![c] = Closed] \/ chan' = [chan EXCEPT ![c].q = Tail(chan[c].q)]
    BY <1>3
  <2> HIDE DEF ev, c
  <2>4. post' \in [Reqs -> PostState]
    BY <1>1, <2>1, <2>2 DEF PostState
  <2>5. chan' \in [Conn -> Channel]
    <3>1. CASE chan' = [chan EXCEPT ![c].q = Tail(chan[c].q)]
      BY <1>1, <2>1, <3>1 DEF Channel
    <3> QED BY <2>3, <3>1, ChanClosed
  <2> QED BY <2>4, <2>5 DEF StreamsTypeOK, PostEvent, workerVars
<1> QED BY <1>2, <1>3 DEF PostEvent

(* The stream of a request ends.                                           *)
LEMMA PostEndsType ==
  ASSUME StreamsTypeOK, NEW r \in Reqs, PostEnds(r)
  PROVE  StreamsTypeOK'
<1>1. post' \in [Reqs -> PostState]
  BY DEF PostEnds, StreamsTypeOK, PostState
<1>2. chan' \in [Conn -> Channel]
  BY ChanClosed DEF PostEnds
<1> QED BY <1>1, <1>2 DEF StreamsTypeOK, PostEnds, workerVars

(* The connection of a request is lost.                                    *)
LEMMA PostLostType ==
  ASSUME StreamsTypeOK, NEW r \in Reqs, PostLost(r)
  PROVE  StreamsTypeOK'
<1>1. post' \in [Reqs -> PostState]
  BY DEF PostLost, StreamsTypeOK, PostState
<1> QED BY <1>1 DEF StreamsTypeOK, PostLost, workerVars

(* The channels with a connection more that was asked for.                 *)
LEMMA AskedType ==
  ASSUME StreamsTypeOK, NEW c, chan' = [chan EXCEPT ![c].st = "asked"]
  PROVE  chan' \in [Conn -> Channel]
BY DEF StreamsTypeOK, Channel

(* The client of a request reconnects.                                     *)
LEMMA ResumePostType ==
  ASSUME StreamsTypeOK, NEW r \in Reqs, ResumePost(r)
  PROVE  StreamsTypeOK'
<1>1. post[r].h \in Int /\ post[r].seen \in Int /\ NewConn \in 0 .. MaxConns
  BY FreshConn DEF ResumePost, StreamsTypeOK, PostState
<1>2. Event("resume", r, post[r].h, post[r].seen, NewConn) \in SessionEvent
  BY <1>1, EventType
<1>3. events' \in Seq(SessionEvent)
  BY <1>2, EventSent DEF ResumePost
<1>4. post' \in [Reqs -> PostState]
  BY <1>1 DEF ResumePost, StreamsTypeOK, PostState
<1>5. chan' \in [Conn -> Channel]
  BY AskedType DEF ResumePost
<1> QED BY <1>3, <1>4, <1>5 DEF StreamsTypeOK, ResumePost, workerVars

(* The client of the standalone stream connects or reconnects.             *)
LEMMA GetConnectType ==
  ASSUME StreamsTypeOK, GetConnect
  PROVE  StreamsTypeOK'
<1>1. get.last \in Int /\ NewConn \in 0 .. MaxConns
  BY FreshConn DEF GetConnect, StreamsTypeOK, GetState
<1>2. Event("resume", NoId, NoId, get.last, NewConn) \in SessionEvent
  BY <1>1, Nothing, EventType
<1>3. events' \in Seq(SessionEvent)
  BY <1>2, EventSent DEF GetConnect
<1>4. get' \in GetState
  BY <1>1 DEF GetConnect, StreamsTypeOK, GetState
<1>5. chan' \in [Conn -> Channel]
  BY AskedType DEF GetConnect
<1> QED BY <1>3, <1>4, <1>5 DEF StreamsTypeOK, GetConnect, workerVars

(* Its connection is refused or lost.                                      *)
LEMMA GetFailsOrLostType ==
  ASSUME StreamsTypeOK, GetFails \/ GetLost
  PROVE  StreamsTypeOK'
<1>1. get' \in GetState
  BY DEF GetFails, GetLost, StreamsTypeOK, GetState
<1> QED BY <1>1 DEF StreamsTypeOK, GetFails, GetLost, workerVars

(* Its stream ends.                                                        *)
LEMMA GetEndsType ==
  ASSUME StreamsTypeOK, GetEnds
  PROVE  StreamsTypeOK'
<1>1. get' \in GetState
  BY DEF GetEnds, StreamsTypeOK, GetState
<1>2. chan' \in [Conn -> Channel]
  BY ChanClosed DEF GetEnds
<1> QED BY <1>1, <1>2 DEF StreamsTypeOK, GetEnds, workerVars

(* A connection vanishes and the worker finds out.                         *)
LEMMA VanishOrNoticeType ==
  ASSUME StreamsTypeOK, NEW c \in Conn, Vanish(c) \/ Notice(c)
  PROVE  StreamsTypeOK'
<1>1. c \in 0 .. MaxConns /\ c # NoConn
  BY StreamsAssumption, Nothing DEF Conn
<1>2. CASE Notice(c)
  <2>1. chan' \in [Conn -> Channel]
    BY <1>2, ChanClosed DEF Notice
  <2> QED BY <1>2, <2>1 DEF StreamsTypeOK, Notice, workerVars, client
<1>3. CASE Vanish(c)
  <2>1. Tail(chan[c].q) \in Seq(StreamMessage) /\ chan \in [Conn -> Channel]
    BY <1>1, <1>3, ReadType DEF Vanish, StreamsTypeOK
  <2>2. chan' = [chan EXCEPT ![c].q = Tail(chan[c].q)]
    BY <1>3 DEF Vanish
  <2>3. chan' \in [Conn -> Channel]
    BY <2>1, <2>2 DEF Channel
  <2> QED BY <1>3, <2>3 DEF StreamsTypeOK, Vanish, workerVars, client
<1> QED BY <1>2, <1>3

(* The client of the standalone stream reads an event.                     *)
LEMMA GetEventType ==
  ASSUME StreamsTypeOK, get.c # NoConn, GetEvent
  PROVE  StreamsTypeOK'
<1> DEFINE c == get.c
<1>1. get \in GetState /\ chan \in [Conn -> Channel] /\ c \in 0 .. MaxConns
  BY DEF StreamsTypeOK, GetState
<1>2. CASE chan' = [chan EXCEPT ![c].prime = FALSE] /\ get' = [get EXCEPT !.last = 0] /\ UNCHANGED got
  <2>1. chan' \in [Conn -> Channel]
    BY <1>1, <1>2 DEF Channel
  <2>2. get' \in GetState
    BY <1>1, <1>2 DEF GetState
  <2> QED BY <1>2, <2>1, <2>2 DEF StreamsTypeOK, GetEvent, workerVars
<1>3. CASE /\ chan[c].q # <<>> /\ chan' = [chan EXCEPT ![c].q = Tail(chan[c].q)]
           /\ get' = [get EXCEPT !.last = Head(chan[c].q).i] /\ got' = Head(chan[c].q).i
  <2>1. Head(chan[c].q).i \in Int /\ Tail(chan[c].q) \in Seq(StreamMessage)
    BY <1>1, <1>3, ReadType
  <2>2. chan' \in [Conn -> Channel]
    BY <1>1, <1>3, <2>1 DEF Channel
  <2>3. get' \in GetState
    BY <1>1, <1>3, <2>1 DEF GetState
  <2> QED BY <1>3, <2>1, <2>2, <2>3 DEF StreamsTypeOK, GetEvent, workerVars
<1> QED BY <1>2, <1>3 DEF GetEvent

(* The connections the streams of requests write to, those that requests   *)
(* read from, and those the events in the channel ask to resume on.        *)
RouterConns == {router[h].tx : h \in DOMAIN router}
PostConns == {post[r].c : r \in Reqs}
EventConns(es) == {es[k].c : k \in 1 .. Len(es)}

(* A connection that was never opened is nowhere in use.                   *)
NotYetUsed == \A c \in Fresh : c \notin {common.tx, get.c} \cup RouterConns \cup PostConns \cup EventConns(events)

(* The connection of the standalone stream serves no request.              *)
Alone == get.c # NoConn => get.c \notin RouterConns \cup PostConns

(* The event that asks to resume on the client's connection, of which      *)
(* there is at most one: the client waits for it with the last event id it *)
(* saw, and nobody writes to the connection yet.                           *)
PendingOf(es, g, tx) ==
  g.c # NoConn =>
    /\ \A k \in 1 .. Len(es) : es[k].c = g.c =>
         /\ es[k].t = "resume" /\ es[k].h = NoId /\ g.st # "connected" /\ tx # g.c
         /\ g.st \in {"connecting", "retrying"} => es[k].i = g.last
    /\ \A j, k \in 1 .. Len(es) : es[j].c = g.c /\ es[k].c = g.c => j = k

(* A sequence of events with consecutive indices.                          *)
Runs(s) == \A k \in 1 .. Len(s) : s[k].i = s[1].i + k - 1

(* What is on its way over a connection: its channel, then the send the    *)
(* worker waits to complete.                                               *)
Sending(ob, c) == ob # <<>> /\ ob[1].c = c
Supply(ob, c, q) == IF Sending(ob, c) THEN Append(q, ob[1].ev) ELSE q

(* What is on its way continues what was delivered, or begins at or before *)
(* the oldest event of the cache; if the worker writes to it (mine) it     *)
(* ends with the newest event.                                             *)
Continues(s, cache, mine, gt) ==
  /\ Runs(s)
  /\ s # <<>> => /\ s[1].i <= gt + 1 \/ (cache # <<>> /\ s[1].i <= cache[1].i)
                 /\ s[Len(s)].i <= NextIndex(cache, 0) - 1
                 /\ mine => s[Len(s)].i = NextIndex(cache, 0) - 1
  /\ s = <<>> /\ mine => gt = NextIndex(cache, 0) - 1

(* The connection of the standalone stream while the client reads from it: *)
(* a priming event comes before every other, and the worker writes only to *)
(* a connection that is up.                                                *)
Connected(cm, ob, g, gt, ch) ==
  /\ Continues(Supply(ob, g.c, ch.q), cm.cache, cm.tx = g.c, gt)
  /\ ch.prime => gt = NoId
  /\ cm.tx = g.c \/ Sending(ob, g.c) => ch.st = "up"

(* The standalone stream: what the client saw last is what was delivered   *)
(* to it, or the priming event, and what is on its way continues it.       *)
Standing(cm, ob, g, gt, ch) ==
  /\ Runs(cm.cache)
  /\ gt >= NoId /\ gt <= NextIndex(cm.cache, 0) - 1
  /\ g.last = gt \/ (gt = NoId /\ g.last = 0)
  /\ g.st \in {"connecting", "retrying", "connected"} => g.c # NoConn
  /\ g.st = "connected" => Connected(cm, ob, g, gt, ch)

(* The inductive invariant. The property is about the client alone; it     *)
(* holds because no second writer ever has the connection of the           *)
(* standalone stream, and because a resume that is on its way still        *)
(* carries the last event the client saw.                                  *)
StreamsInv ==
  /\ StreamsTypeOK
  /\ NotYetUsed
  /\ Alone
  /\ PendingOf(events, get, common.tx)
  /\ Standing(common, outbox, get, got, chan[get.c])

-----------------------------------------------------------------------------
(* The events of a sequence have natural numbers as indices.               *)
LEMMA MessageIndex ==
  ASSUME NEW s \in Seq(StreamMessage)
  PROVE  \A k \in 1 .. Len(s) : s[k].i \in Nat
<1>1. \A k \in 1 .. Len(s) : s[k] \in StreamMessage
  OBVIOUS
<1> QED BY <1>1 DEF StreamMessage

(* The last index of a run, and the next one, from its first and its       *)
(* length.                                                                 *)
LEMMA RunEnds ==
  ASSUME NEW s \in Seq(StreamMessage), Runs(s)
  PROVE  /\ s = <<>> => NextIndex(s, 0) = 0
         /\ s # <<>> => /\ Len(s) \in Nat /\ Len(s) > 0 /\ s[1].i \in Nat /\ s[Len(s)].i = s[1].i + Len(s) - 1
                        /\ NextIndex(s, 0) = s[1].i + Len(s)
<1>1. s # <<>> => Len(s) \in Nat /\ Len(s) > 0 /\ 1 \in 1 .. Len(s) /\ Len(s) \in 1 .. Len(s)
  BY EmptySeq
<1>2. s # <<>> => s[1].i \in Nat /\ s[Len(s)].i = s[1].i + Len(s) - 1
  BY <1>1, MessageIndex DEF Runs
<1> QED BY <1>1, <1>2 DEF NextIndex, Last

(* A run with the event of the next index added is a run.                  *)
LEMMA RunAppend ==
  ASSUME NEW s \in Seq(StreamMessage), Runs(s), NEW ev \in StreamMessage, s # <<>> => ev.i = s[1].i + Len(s)
  PROVE  /\ Runs(Append(s, ev)) /\ Append(s, ev) \in Seq(StreamMessage) /\ Append(s, ev) # <<>>
         /\ Append(s, ev)[Len(Append(s, ev))] = ev
         /\ Append(s, ev)[1] = IF s = <<>> THEN ev ELSE s[1]
<1> DEFINE a == Append(s, ev)
<1>1. /\ a \in Seq(StreamMessage) /\ Len(s) \in Nat /\ Len(a) = Len(s) + 1 /\ a[Len(s) + 1] = ev
      /\ \A k \in 1 .. Len(s) : a[k] = s[k]
  BY AppendProperties
<1>2. ev.i \in Nat
  BY DEF StreamMessage
<1> HIDE DEF a
<1>3. s = <<>> => Len(s) = 0 /\ a[1] = ev
  BY <1>1
<1>4. s # <<>> => Len(s) > 0 /\ a[1] = s[1] /\ s[1].i \in Nat
  BY <1>1, RunEnds
<1>5. ASSUME NEW k \in 1 .. Len(a) PROVE a[k].i = a[1].i + k - 1
  <2>1. CASE k = Len(s) + 1
    BY <1>1, <1>2, <1>3, <1>4, <2>1
  <2>2. CASE k \in 1 .. Len(s)
    <3>1. s # <<>> /\ a[k] = s[k]
      BY <1>1, <2>2
    <3> QED BY <1>4, <2>2, <3>1 DEF Runs
  <2> QED BY <1>1, <2>1, <2>2
<1>6. a # <<>>
  BY <1>1
<1> QED BY <1>1, <1>3, <1>4, <1>5, <1>6 DEF a, Runs

(* A run without its first event is a run.                                 *)
LEMMA RunTail ==
  ASSUME NEW s \in Seq(StreamMessage), Runs(s), s # <<>>
  PROVE  /\ Runs(Tail(s)) /\ Tail(s) \in Seq(StreamMessage) /\ Len(Tail(s)) = Len(s) - 1
         /\ Tail(s) # <<>> => /\ Tail(s)[1].i = s[1].i + 1
                              /\ Tail(s)[Len(Tail(s))].i = s[Len(s)].i
<1> DEFINE t == Tail(s)
<1>1. /\ t \in Seq(StreamMessage) /\ Len(s) \in Nat /\ Len(s) > 0 /\ Len(t) = Len(s) - 1
      /\ \A k \in 1 .. Len(t) : t[k] = s[k + 1]
  BY EmptySeq
<1>2. s[1].i \in Nat
  BY RunEnds
<1> HIDE DEF t
<1>3. ASSUME NEW k \in 1 .. Len(t) PROVE t[k].i = s[1].i + k
  <2>1. k + 1 \in 1 .. Len(s) /\ k + 1 - 1 = k /\ k \in Nat
    BY <1>1
  <2>2. s[k + 1].i = s[1].i + (k + 1) - 1
    BY <2>1 DEF Runs
  <2> QED BY <1>1, <1>2, <2>1, <2>2
<1>4. ASSUME NEW k \in 1 .. Len(t) PROVE t[k].i = t[1].i + k - 1
  <2>1. 1 \in 1 .. Len(t) /\ k \in Nat
    BY <1>1
  <2>2. t[1].i = s[1].i + 1 /\ t[k].i = s[1].i + k
    BY <1>3, <2>1
  <2>3. \A n \in Nat : n + k = (n + 1) + k - 1
    BY <2>1
  <2>4. s[1].i + k = (s[1].i + 1) + k - 1
    BY <1>2, <2>3, Zenon
  <2> QED BY <2>2, <2>4
<1>5. t # <<>> => 1 \in 1 .. Len(t) /\ Len(t) \in 1 .. Len(t)
  BY <1>1, EmptySeq
<1>6. t # <<>> => t[1].i = s[1].i + 1 /\ t[Len(t)].i = s[1].i + Len(t)
  BY <1>3, <1>5
<1>7. t # <<>> => t[Len(t)].i = s[Len(s)].i
  BY <1>1, <1>2, <1>6, RunEnds
<1>8. Runs(t)
  BY <1>4 DEF Runs
<1> QED BY <1>1, <1>6, <1>7, <1>8 DEF t

(* A cache that is a run stays one when the next event is added and the    *)
(* oldest evicted.                                                         *)
LEMMA CacheAddRuns ==
  ASSUME NEW cache \in Seq(StreamMessage), Runs(cache), NEW ev \in StreamMessage, ev.i = NextIndex(cache, 0)
  PROVE  /\ Runs(CacheAdd(cache, ev)) /\ NextIndex(CacheAdd(cache, ev), 0) = ev.i + 1
         /\ CacheAdd(cache, ev) # <<>> /\ CacheAdd(cache, ev)[1].i \in Nat
         /\ cache # <<>> => cache[1].i <= CacheAdd(cache, ev)[1].i
<1> DEFINE kept == IF Len(cache) >= Capacity THEN Tail(cache) ELSE cache
<1>1. Len(cache) \in Nat /\ Capacity \in Nat /\ Capacity > 0 /\ ev.i \in Nat
  BY StreamsAssumption DEF StreamMessage
<1>2. Len(cache) >= Capacity => cache # <<>>
  BY <1>1
<1>3. /\ kept \in Seq(StreamMessage) /\ Runs(kept)
      /\ kept # <<>> => ev.i = kept[1].i + Len(kept)
      /\ kept # <<>> /\ cache # <<>> => cache[1].i <= kept[1].i
      /\ cache # <<>> => cache[1].i <= ev.i
  <2>1. cache # <<>> => ev.i = cache[1].i + Len(cache) /\ cache[1].i \in Nat
    BY RunEnds
  <2>2. CASE Len(cache) >= Capacity
    <3>1. kept = Tail(cache) /\ cache # <<>>
      BY <1>2, <2>2
    <3>2. /\ Tail(cache) \in Seq(StreamMessage) /\ Runs(Tail(cache)) /\ Len(Tail(cache)) = Len(cache) - 1
          /\ Tail(cache) # <<>> => Tail(cache)[1].i = cache[1].i + 1
      BY <3>1, RunTail
    <3> HIDE DEF kept
    <3>3. kept # <<>> => kept[1].i = cache[1].i + 1 /\ Len(kept) = Len(cache) - 1
      BY <3>1, <3>2
    <3>4. kept # <<>> => ev.i = kept[1].i + Len(kept) /\ cache[1].i <= kept[1].i
      BY <1>1, <2>1, <3>1, <3>3
    <3>5. cache[1].i <= ev.i
      BY <1>1, <2>1, <3>1
    <3> QED BY <3>1, <3>2, <3>4, <3>5
  <2>3. CASE ~(Len(cache) >= Capacity)
    BY <1>1, <2>1, <2>3
  <2> QED BY <2>2, <2>3
<1> HIDE DEF kept
<1>4. /\ Runs(Append(kept, ev)) /\ Append(kept, ev) \in Seq(StreamMessage) /\ Append(kept, ev) # <<>>
      /\ Append(kept, ev)[Len(Append(kept, ev))] = ev
      /\ Append(kept, ev)[1] = IF kept = <<>> THEN ev ELSE kept[1]
  BY <1>3, RunAppend
<1>5. NextIndex(Append(kept, ev), 0) = ev.i + 1
  BY <1>4 DEF NextIndex, Last
<1>6. Append(kept, ev)[1].i \in Nat
  BY <1>4, RunEnds
<1>7. cache # <<>> => cache[1].i <= Append(kept, ev)[1].i
  BY <1>3, <1>4
<1> QED BY <1>4, <1>5, <1>6, <1>7 DEF CacheAdd, kept

(* What is replayed after an event is a run that begins right after it, or *)
(* at the oldest event of the cache, and ends with the newest.             *)
LEMMA ReplayRuns ==
  ASSUME NEW cache \in Seq(StreamMessage), Runs(cache), NEW index \in Nat, ~SyncFails(cache, index)
  PROVE  /\ Runs(Replay(cache, index)) /\ Replay(cache, index) \in Seq(StreamMessage)
         /\ cache = <<>> => Replay(cache, index) = <<>>
         /\ cache # <<>> /\ Replay(cache, index) = <<>> => index = NextIndex(cache, 0)
         /\ Replay(cache, index) # <<>> =>
              /\ cache # <<>>
              /\ Replay(cache, index)[1].i <= index \/ Replay(cache, index)[1].i <= cache[1].i
              /\ Replay(cache, index)[Len(Replay(cache, index))].i = NextIndex(cache, 0) - 1
<1> DEFINE n == SyncSkip(cache, index)
           q == Replay(cache, index)
<1>1. n \in Nat /\ Len(cache) \in Nat /\ n <= Len(cache)
  BY SyncSkipType DEF SyncFails
<1>2. cache # <<>> => n = (IF index > cache[1].i THEN index - cache[1].i ELSE 0) /\ cache[1].i \in Nat /\ Len(cache) > 0
  BY RunEnds DEF SyncSkip
<1> HIDE DEF n
<1>3. q = SubSeq(cache, n + 1, Len(cache)) /\ q \in Seq(StreamMessage)
  BY ReplayType DEF Replay, n
<1> HIDE DEF q
<1>4. Len(q) = Len(cache) - n /\ \A k \in 1 .. Len(q) : q[k] = cache[n + k]
  <2>1. n + 1 \in Int /\ Len(cache) \in Int /\ n + 1 <= Len(cache) + 1 /\ \A i \in n + 1 .. Len(cache) : cache[i] \in StreamMessage
    BY <1>1
  <2>2. /\ Len(q) = (IF n + 1 <= Len(cache) THEN Len(cache) - (n + 1) + 1 ELSE 0)
        /\ \A k \in 1 .. Len(cache) - (n + 1) + 1 : q[k] = cache[n + 1 + k - 1]
    BY <1>3, <2>1, SubSeqProperties
  <2>3. Len(q) = Len(cache) - n /\ Len(cache) - (n + 1) + 1 = Len(cache) - n
    BY <1>1, <2>2
  <2>4. ASSUME NEW k \in 1 .. Len(q) PROVE q[k] = cache[n + k]
    <3>1. k \in 1 .. Len(cache) - (n + 1) + 1 /\ n + 1 + k - 1 = n + k
      BY <1>1, <2>3
    <3> QED BY <2>2, <3>1
  <2> QED BY <2>3, <2>4
<1>5. ASSUME NEW k \in 1 .. Len(q) PROVE q[k].i = cache[1].i + n + k - 1 /\ cache # <<>>
  <2>1. n + k \in 1 .. Len(cache) /\ k \in Nat
    BY <1>1, <1>4
  <2>2. cache # <<>>
    BY <2>1
  <2>3. cache[n + k].i = cache[1].i + (n + k) - 1
    BY <2>1 DEF Runs
  <2> QED BY <1>1, <1>2, <1>4, <2>1, <2>2, <2>3
<1>6. Runs(q)
  <2>1. ASSUME NEW k \in 1 .. Len(q) PROVE q[k].i = q[1].i + k - 1
    <3>1. 1 \in 1 .. Len(q) /\ k \in Nat
      BY <1>1, <1>4
    <3>2. q[1].i = cache[1].i + n + 1 - 1 /\ q[k].i = cache[1].i + n + k - 1 /\ cache # <<>>
      BY <1>5, <3>1
    <3> QED BY <1>1, <1>2, <3>1, <3>2
  <2> QED BY <2>1 DEF Runs
<1>7. cache = <<>> => q = <<>>
  <2> SUFFICES ASSUME cache = <<>> PROVE q = <<>>
    OBVIOUS
  <2>1. Len(cache) = 0
    OBVIOUS
  <2>2. Len(q) = 0
    BY <1>1, <1>4, <2>1
  <2> QED BY <1>3, <2>2, EmptySeq
<1>8. cache # <<>> /\ q = <<>> => index = NextIndex(cache, 0)
  <2> SUFFICES ASSUME cache # <<>>, q = <<>> PROVE index = NextIndex(cache, 0)
    OBVIOUS
  <2>1. Len(q) = 0
    OBVIOUS
  <2>2. n = Len(cache)
    BY <1>1, <1>4, <2>1
  <2>3. NextIndex(cache, 0) = cache[1].i + Len(cache)
    BY RunEnds
  <2> QED BY <1>1, <1>2, <2>2, <2>3
<1>9. ASSUME q # <<>>
      PROVE  /\ cache # <<>> /\ (q[1].i <= index \/ q[1].i <= cache[1].i)
             /\ q[Len(q)].i = NextIndex(cache, 0) - 1
  <2>1. 1 \in 1 .. Len(q) /\ Len(q) \in 1 .. Len(q)
    BY <1>3, <1>9, EmptySeq
  <2>2. q[1].i = cache[1].i + n + 1 - 1 /\ q[Len(q)].i = cache[1].i + n + Len(q) - 1 /\ cache # <<>>
    BY <1>5, <2>1
  <2>3. NextIndex(cache, 0) = cache[1].i + Len(cache)
    BY <2>2, RunEnds
  <2>4. q[1].i = cache[1].i + n
    BY <1>1, <1>2, <2>2
  <2>5. q[1].i <= index \/ q[1].i <= cache[1].i
    BY <1>2, <2>2, <2>4
  <2>6. q[Len(q)].i = NextIndex(cache, 0) - 1
    BY <1>1, <1>2, <1>4, <2>2, <2>3
  <2> QED BY <2>2, <2>5, <2>6
<1> QED BY <1>3, <1>6, <1>7, <1>8, <1>9 DEF q

(* The tail of a sequence with an element added.                           *)
LEMMA TailAppend ==
  ASSUME NEW q \in Seq(StreamMessage), q # <<>>, NEW ev \in StreamMessage
  PROVE  Append(Tail(q), ev) = Tail(Append(q, ev)) /\ Append(q, ev)[1] = q[1] /\ Append(q, ev) # <<>>
<1>1. Tail(Append(q, ev)) = Append(Tail(q), ev) /\ Head(Append(q, ev)) = Head(q)
  BY HeadTailAppend
<1>2. Append(q, ev) \in Seq(StreamMessage) /\ Append(q, ev) # <<>> /\ Append(q, ev)[1] = q[1]
  <2>1. Len(q) \in Nat /\ Len(q) > 0 /\ Len(Append(q, ev)) = Len(q) + 1
    BY EmptySeq, AppendProperties
  <2> QED BY <2>1, AppendProperties
<1> QED BY <1>1, <1>2

(* A message on the standalone stream, after which its sender may be gone. *)
LEMMA StandingAdds ==
  ASSUME NEW cm, cm.cache \in Seq(StreamMessage), cm.tx \in 0 .. MaxConns, NEW ev \in StreamMessage, ev.i = NextIndex(cm.cache, 0),
         NEW g \in GetState, NEW gt \in Int, NEW ch, g.st = "connected" => ch \in Channel,
         Standing(cm, <<>>, g, gt, ch),
         NEW cm2, cm2.cache = CacheAdd(cm.cache, ev), cm2.tx \in {cm.tx, NoConn}
  PROVE  Standing(cm2, ToSend(cm.tx, ev), g, gt, ch)
<1> DEFINE new == CacheAdd(cm.cache, ev)
           ob == ToSend(cm.tx, ev)
<1>1. /\ Runs(new) /\ NextIndex(new, 0) = ev.i + 1 /\ new # <<>> /\ new[1].i \in Nat
      /\ cm.cache # <<>> => cm.cache[1].i <= new[1].i
  BY CacheAddRuns DEF Standing
<1>2. ev.i \in Nat
  BY DEF StreamMessage
<1>3. gt >= NoId /\ gt <= ev.i - 1 /\ NoId \in Int /\ gt <= NextIndex(new, 0) - 1
  BY <1>1, <1>2, Nothing DEF Standing
<1>4. ASSUME g.st = "connected" PROVE Connected(cm2, ob, g, gt, ch)
  <2>1. g.c # NoConn /\ Connected(cm, <<>>, g, gt, ch) /\ ch.q \in Seq(StreamMessage)
    BY <1>4 DEF Standing, Channel
  <2>2. ~Sending(<<>>, g.c) /\ Supply(<<>>, g.c, ch.q) = ch.q
    BY DEF Sending, Supply
  <2> DEFINE q == ch.q
  <2>3. Continues(q, cm.cache, cm.tx = g.c, gt) /\ (ch.prime => gt = NoId) /\ (cm.tx = g.c => ch.st = "up")
    BY <2>1, <2>2 DEF Connected
  <2> HIDE DEF q
  <2>4. q \in Seq(StreamMessage) /\ Runs(q)
    BY <2>1, <2>3 DEF q, Continues
  <2>5. q # <<>> => /\ q[1].i \in Nat /\ Len(q) \in Nat /\ q[Len(q)].i = q[1].i + Len(q) - 1
                    /\ q[1].i <= gt + 1 \/ q[1].i <= new[1].i
                    /\ q[Len(q)].i <= ev.i - 1
    <3>1. q # <<>> => /\ q[1].i \in Nat /\ Len(q) \in Nat /\ q[Len(q)].i = q[1].i + Len(q) - 1
      BY <2>4, RunEnds
    <3>2. q # <<>> => q[1].i <= gt + 1 \/ (cm.cache # <<>> /\ q[1].i <= cm.cache[1].i)
      BY <2>3 DEF Continues
    <3>3. cm.cache # <<>> => cm.cache[1].i \in Nat
      BY RunEnds DEF Standing
    <3>4. q # <<>> => q[Len(q)].i <= ev.i - 1
      BY <2>3 DEF Continues
    <3> QED BY <1>1, <3>1, <3>2, <3>3, <3>4
  <2>6. CASE cm.tx = g.c
    <3>1. ob # <<>> /\ ob[1].c = g.c /\ ob[1].ev = ev
      BY <2>1, <2>6, ToSendType
    <3> HIDE DEF ob, new
    <3>2. Sending(ob, g.c) /\ Supply(ob, g.c, q) = Append(q, ev)
      BY <3>1 DEF Sending, Supply
    <3>3. q # <<>> => ev.i = q[1].i + Len(q)
      <4>1. q # <<>> => q[Len(q)].i = ev.i - 1
        BY <2>3, <2>6 DEF Continues
      <4>2. q # <<>> => q[1].i \in Nat /\ Len(q) \in Nat /\ q[Len(q)].i = q[1].i + Len(q) - 1
        BY <2>4, RunEnds
      <4>3. \A i, n, l \in Nat : i + n - 1 = l - 1 => l = i + n
        OBVIOUS
      <4> QED BY <1>2, <4>1, <4>2, <4>3
    <3>4. q = <<>> => gt = ev.i - 1
      BY <2>3, <2>6 DEF Continues
    <3> DEFINE a == Append(q, ev)
    <3>5. Runs(a) /\ a # <<>> /\ a[Len(a)] = ev /\ a[1] = IF q = <<>> THEN ev ELSE q[1]
      BY <2>4, <3>3, RunAppend
    <3> HIDE DEF a
    <3>6. a[1].i <= gt + 1 \/ a[1].i <= new[1].i
      <4>1. CASE q = <<>>
        BY <1>2, <1>3, <3>4, <3>5, <4>1
      <4>2. CASE q # <<>>
        BY <2>5, <3>5, <4>2
      <4> QED BY <4>1, <4>2
    <3>7. a[Len(a)].i = NextIndex(new, 0) - 1
      BY <1>1, <1>2, <3>5
    <3>8. NextIndex(new, 0) - 1 <= NextIndex(new, 0) - 1
      BY <1>1, <1>2
    <3>9. Continues(a, new, cm2.tx = g.c, gt)
      BY <1>1, <3>5, <3>6, <3>7, <3>8 DEF Continues
    <3> QED BY <2>3, <2>6, <3>2, <3>9 DEF Connected, a, q, new
  <2>7. CASE cm.tx # g.c
    <3>1. ob = <<>> \/ ob[1].c # g.c
      BY <2>7, ToSendType
    <3>2. cm2.tx # g.c
      BY <2>1, <2>7
    <3> HIDE DEF ob, new
    <3>3. ~Sending(ob, g.c) /\ Supply(ob, g.c, q) = q
      BY <3>1 DEF Sending, Supply
    <3>4. q # <<>> => q[Len(q)].i <= NextIndex(new, 0) - 1
      BY <1>1, <1>2, <2>5
    <3>5. Continues(q, new, FALSE, gt)
      BY <1>1, <2>4, <2>5, <3>4 DEF Continues
    <3>6. (cm2.tx = g.c) = FALSE
      BY <3>2
    <3> QED BY <2>3, <3>2, <3>3, <3>5, <3>6 DEF Connected, q, new
  <2> QED BY <2>6, <2>7
<1> HIDE DEF ob
<1> QED BY <1>1, <1>3, <1>4 DEF Standing, ob

(* The client reads a message.                                             *)
LEMMA StandingReads ==
  ASSUME NEW cm, cm.cache \in Seq(StreamMessage), NEW ob, OutboxOK(ob),
         NEW g \in GetState, g.st = "connected", NEW gt \in Int, NEW ch \in Channel, ch.q # <<>>, ~ch.prime,
         Standing(cm, ob, g, gt, ch),
         NEW g2, g2.c = g.c, g2.st = g.st, g2.last = ch.q[1].i,
         NEW ch2, ch2.q = Tail(ch.q), ch2.prime = ch.prime, ch2.st = ch.st
  PROVE  /\ Standing(cm, ob, g2, ch.q[1].i, ch2)
         /\ ch.q[1].i <= gt + 1 \/ (cm.cache # <<>> /\ ch.q[1].i <= cm.cache[1].i)
<1> DEFINE q == ch.q
           s == Supply(ob, g.c, ch.q)
           t == Supply(ob, g.c, Tail(ch.q))
           new == ch.q[1].i
<1>1. q \in Seq(StreamMessage) /\ q # <<>>
  BY DEF Channel
<1>2. s \in Seq(StreamMessage) /\ s # <<>> /\ t = Tail(s) /\ s[1] = q[1]
  <2>1. CASE Sending(ob, g.c)
    <3>1. PICK c \in Conn, ev \in StreamMessage : ob = <<[c |-> c, ev |-> ev]>>
      BY <2>1 DEF Sending, OutboxOK
    <3>2. ob[1].ev = ev
      BY <3>1
    <3>3. s = Append(q, ev) /\ t = Append(Tail(q), ev)
      BY <2>1, <3>2 DEF Supply
    <3>4. Append(q, ev) \in Seq(StreamMessage)
      BY <1>1
    <3> HIDE DEF q, s, t
    <3> QED BY <1>1, <3>3, <3>4, TailAppend
  <2>2. CASE ~Sending(ob, g.c)
    BY <1>1, <2>2 DEF Supply
  <2> QED BY <2>1, <2>2
<1>3. Connected(cm, ob, g, gt, ch) /\ g.c # NoConn /\ Runs(cm.cache)
  BY DEF Standing
<1>4. Continues(s, cm.cache, cm.tx = g.c, gt)
  BY <1>3 DEF Connected
<1>5. (cm.tx = g.c \/ Sending(ob, g.c)) => ch.st = "up"
  BY <1>3 DEF Connected
<1> HIDE DEF s, t
<1>6. Runs(s)
  BY <1>4 DEF Continues
<1>7. s[1].i = new /\ new \in Nat /\ Len(s) \in Nat /\ Len(s) > 0 /\ s[Len(s)].i = s[1].i + Len(s) - 1
  BY <1>2, <1>6, RunEnds
<1>8. Runs(t) /\ t \in Seq(StreamMessage) /\ Len(t) = Len(s) - 1 /\ (t # <<>> => t[1].i = s[1].i + 1 /\ t[Len(t)].i = s[Len(s)].i)
  BY <1>2, <1>6, RunTail
<1>9. /\ s[1].i <= gt + 1 \/ (cm.cache # <<>> /\ s[1].i <= cm.cache[1].i)
      /\ s[Len(s)].i <= NextIndex(cm.cache, 0) - 1
      /\ cm.tx = g.c => s[Len(s)].i = NextIndex(cm.cache, 0) - 1
  BY <1>2, <1>4 DEF Continues
<1>10. NextIndex(cm.cache, 0) \in Nat
  BY NextIndexType
<1>11. new <= NextIndex(cm.cache, 0) - 1 /\ new >= NoId
  <2>1. new <= s[Len(s)].i
    BY <1>7
  <2> QED BY <1>7, <1>9, <1>10, <2>1, Nothing
<1>12. t = <<>> => new = s[Len(s)].i
  <2> SUFFICES ASSUME t = <<>> PROVE new = s[Len(s)].i
    OBVIOUS
  <2>1. Len(t) = 0
    OBVIOUS
  <2>2. Len(s) = 1
    <3>1. \A n \in Nat : 0 = n - 1 => n = 1
      OBVIOUS
    <3> QED BY <1>7, <1>8, <2>1, <3>1
  <2> QED BY <1>7, <2>2
<1>13. t # <<>> => t[1].i <= new + 1
  BY <1>7, <1>8
<1>14. Continues(t, cm.cache, cm.tx = g.c, new)
  BY <1>8, <1>9, <1>12, <1>13 DEF Continues
<1>15. Connected(cm, ob, g2, new, ch2)
  <2>1. Supply(ob, g2.c, ch2.q) = t
    BY DEF t
  <2> QED BY <1>5, <1>14, <2>1 DEF Connected
<1>16. Standing(cm, ob, g2, new, ch2)
  BY <1>3, <1>11, <1>15 DEF Standing
<1> QED BY <1>7, <1>9, <1>16

(* The client's connection becomes the one the worker writes to, with the  *)
(* replay of the cache.                                                    *)
LEMMA StandingTakesOver ==
  ASSUME NEW cm, cm.cache \in Seq(StreamMessage),
         NEW g \in GetState, NEW gt \in Int, NEW ch,
         Standing(cm, <<>>, g, gt, ch), g.c # NoConn,
         NEW index, index = (IF g.last = NoId THEN 0 ELSE g.last), ~SyncFails(cm.cache, index),
         NEW cm2, cm2.cache = cm.cache, cm2.tx = g.c,
         NEW g2, g2.c = g.c, g2.last = g.last,
         NEW ch2, ch2.q = Replay(cm.cache, index), ch2.st = "up", ch2.prime => g.last = NoId
  PROVE  Standing(cm2, <<>>, g2, gt, ch2)
<1> DEFINE q == Replay(cm.cache, index)
           top == NextIndex(cm.cache, 0)
<1>1. Runs(cm.cache) /\ gt >= NoId /\ gt <= top - 1 /\ (g.last = gt \/ (gt = NoId /\ g.last = 0))
  BY DEF Standing
<1>2. top \in Nat
  BY NextIndexType
<1>3. index \in Nat /\ index <= gt + 1 /\ (gt >= 0 => index = gt) /\ (g.last = NoId => gt = NoId)
  BY <1>1, Nothing
<1>4. /\ Runs(q) /\ q \in Seq(StreamMessage)
      /\ cm.cache = <<>> => q = <<>>
      /\ cm.cache # <<>> /\ q = <<>> => index = top
      /\ q # <<>> => cm.cache # <<>> /\ (q[1].i <= index \/ q[1].i <= cm.cache[1].i) /\ q[Len(q)].i = top - 1
  BY <1>1, <1>3, ReplayRuns
<1>5. cm.cache = <<>> => top = 0
  BY DEF NextIndex
<1>6. cm.cache # <<>> => top > 0
  <2> HIDE DEF top
  <2>1. cm.cache # <<>> => top = cm.cache[1].i + Len(cm.cache) /\ Len(cm.cache) \in Nat /\ Len(cm.cache) > 0 /\ cm.cache[1].i \in Nat
    BY <1>1, RunEnds DEF top
  <2> QED BY <2>1
<1> HIDE DEF top, q
<1>7. q = <<>> => gt = top - 1
  <2>1. CASE cm.cache = <<>>
    BY <1>1, <1>2, <1>5, <2>1, Nothing
  <2>2. CASE cm.cache # <<>>
    BY <1>1, <1>2, <1>3, <1>4, <1>6, <2>2, Nothing
  <2> QED BY <2>1, <2>2
<1>8. q # <<>> => q[1].i \in Nat
  BY <1>4, RunEnds
<1>9. q # <<>> => q[1].i <= gt + 1 \/ q[1].i <= cm.cache[1].i
  BY <1>3, <1>4, <1>8
<1>10. top - 1 <= top - 1
  BY <1>2
<1>11. Continues(q, cm.cache, TRUE, gt)
  BY <1>4, <1>7, <1>9, <1>10 DEF Continues, top
<1>12. ~Sending(<<>>, g2.c) /\ Supply(<<>>, g2.c, ch2.q) = q /\ (cm2.tx = g2.c) = TRUE
  BY DEF Sending, Supply, q
<1>13. Connected(cm2, <<>>, g2, gt, ch2)
  BY <1>3, <1>11, <1>12 DEF Connected
<1> QED BY <1>1, <1>13 DEF Standing, top

(* The client's connection is up and nobody writes to it.                  *)
LEMMA StandingIdle ==
  ASSUME NEW cm, NEW g, NEW gt, NEW ch, NEW ob, Standing(cm, ob, g, gt, ch), g.c # NoConn,
         NEW cm2, cm2.cache = cm.cache, cm2.tx # g.c,
         NEW g2, g2.c = g.c, g2.last = g.last,
         NEW ch2, ch2.q = <<>>, ch2.prime => g.last = NoId
  PROVE  Standing(cm2, <<>>, g2, gt, ch2)
<1>1. g.last = gt \/ (gt = NoId /\ g.last = 0)
  BY DEF Standing
<1>2. ch2.prime => gt = NoId
  BY <1>1, Nothing
<1>3. ~Sending(<<>>, g2.c) /\ Supply(<<>>, g2.c, ch2.q) = <<>> /\ (cm2.tx = g2.c) = FALSE
  BY DEF Sending, Supply
<1>4. Runs(<<>>)
  BY DEF Runs
<1>5. Continues(<<>>, cm.cache, FALSE, gt)
  BY <1>4 DEF Continues
<1>6. Connected(cm2, <<>>, g2, gt, ch2)
  BY <1>2, <1>3, <1>5 DEF Connected
<1> QED BY <1>6 DEF Standing

(* A step elsewhere: what is on its way to the client stays, and nobody    *)
(* begins to write to its connection.                                      *)
LEMMA StandingStays ==
  ASSUME NEW cm, NEW ob, NEW g, NEW gt, NEW ch, Standing(cm, ob, g, gt, ch),
         NEW cm2, cm2.cache = cm.cache, cm2.tx = cm.tx \/ cm2.tx # g.c,
         NEW ob2, NEW ch2,
         g.st = "connected" => /\ ch2.q = ch.q /\ ch2.prime = ch.prime /\ ch2.st = ch.st
                               /\ ob2 = ob \/ (~Sending(ob, g.c) /\ ~Sending(ob2, g.c))
  PROVE  Standing(cm2, ob2, g, gt, ch2)
<1>1. ASSUME g.st = "connected" PROVE Connected(cm2, ob2, g, gt, ch2)
  <2>1. Connected(cm, ob, g, gt, ch) /\ ch2.q = ch.q /\ ch2.prime = ch.prime /\ ch2.st = ch.st
    BY <1>1 DEF Standing
  <2>2. Supply(ob2, g.c, ch2.q) = Supply(ob, g.c, ch.q) /\ (Sending(ob2, g.c) => Sending(ob, g.c))
    BY <1>1, <2>1 DEF Supply
  <2> DEFINE s == Supply(ob, g.c, ch.q)
  <2>3. Continues(s, cm.cache, cm.tx = g.c, gt) /\ (ch.prime => gt = NoId) /\ (cm.tx = g.c \/ Sending(ob, g.c) => ch.st = "up")
    BY <2>1 DEF Connected
  <2> HIDE DEF s
  <2>4. Continues(s, cm2.cache, cm2.tx = g.c, gt)
    BY <2>3 DEF Continues
  <2> QED BY <2>1, <2>2, <2>3, <2>4 DEF Connected, s
<1> QED BY <1>1 DEF Standing

(* A client that is not connected, and one that is going to be.            *)
LEMMA StandingApart ==
  ASSUME NEW cm, NEW ob, NEW g, NEW gt, NEW ch, Standing(cm, ob, g, gt, ch),
         NEW g2, NEW ob2, NEW ch2, g2.last = g.last, g2.st # "connected",
         g2.st \in {"connecting", "retrying"} => g2.c # NoConn
  PROVE  Standing(cm, ob2, g2, gt, ch2)
BY DEF Standing

(* A pending send completes.                                               *)
LEMMA StandingFlushes ==
  ASSUME NEW cm, NEW ob, NEW g, NEW gt, NEW ch, Standing(cm, ob, g, gt, ch),
         NEW ch2, g.st = "connected" => /\ ch2.prime = ch.prime /\ ch2.st = ch.st
                                        /\ Sending(ob, g.c) /\ ch.st = "up" => ch2.q = Append(ch.q, ob[1].ev)
                                        /\ ~Sending(ob, g.c) => ch2.q = ch.q
  PROVE  Standing(cm, <<>>, g, gt, ch2)
<1>1. ASSUME g.st = "connected" PROVE Connected(cm, <<>>, g, gt, ch2)
  <2>1. Connected(cm, ob, g, gt, ch)
    BY <1>1 DEF Standing
  <2>2. ~Sending(<<>>, g.c)
    BY DEF Sending
  <2>3. Supply(<<>>, g.c, ch2.q) = Supply(ob, g.c, ch.q)
    BY <1>1, <2>1, <2>2 DEF Supply, Connected
  <2> QED BY <1>1, <2>1, <2>2, <2>3 DEF Connected
<1> QED BY <1>1 DEF Standing

(* Of the events: one is taken.                                            *)
LEMMA PendingTail ==
  ASSUME NEW es \in Seq(SessionEvent), es # <<>>, NEW g, NEW tx, PendingOf(es, g, tx)
  PROVE  /\ PendingOf(Tail(es), g, tx)
         /\ EventConns(Tail(es)) \subseteq EventConns(es) /\ Head(es).c \in EventConns(es)
         /\ Head(es).c = g.c /\ g.c # NoConn => g.c \notin EventConns(Tail(es))
<1> DEFINE t == Tail(es)
<1>1. /\ Len(es) \in Nat /\ Len(es) > 0 /\ Len(t) = Len(es) - 1 /\ Head(es) = es[1]
      /\ \A k \in 1 .. Len(t) : t[k] = es[k + 1]
  BY EmptySeq
<1> HIDE DEF t
<1>2. \A k \in 1 .. Len(t) : k + 1 \in 1 .. Len(es) /\ t[k] = es[k + 1] /\ k \in Nat /\ k + 1 # 1
  BY <1>1
<1>3. EventConns(t) \subseteq EventConns(es)
  BY <1>2 DEF EventConns
<1>4. 1 \in 1 .. Len(es) /\ Head(es).c \in EventConns(es)
  BY <1>1 DEF EventConns
<1>5. PendingOf(t, g, tx)
  <2> SUFFICES ASSUME g.c # NoConn
               PROVE  /\ \A k \in 1 .. Len(t) : t[k].c = g.c =>
                           /\ t[k].t = "resume" /\ t[k].h = NoId /\ g.st # "connected" /\ tx # g.c
                           /\ g.st \in {"connecting", "retrying"} => t[k].i = g.last
                      /\ \A j, k \in 1 .. Len(t) : t[j].c = g.c /\ t[k].c = g.c => j = k
    BY DEF PendingOf
  <2>1. \A j, k \in 1 .. Len(es) : es[j].c = g.c /\ es[k].c = g.c => j = k
    BY DEF PendingOf
  <2>2. ASSUME NEW j \in 1 .. Len(t), NEW k \in 1 .. Len(t), t[j].c = g.c, t[k].c = g.c PROVE j = k
    <3>1. j + 1 = k + 1
      BY <1>2, <2>1, <2>2
    <3> QED BY <1>2, <3>1
  <2> QED BY <1>2, <2>2 DEF PendingOf
<1>6. Head(es).c = g.c /\ g.c # NoConn => g.c \notin EventConns(t)
  <2> SUFFICES ASSUME Head(es).c = g.c, g.c # NoConn, NEW k \in 1 .. Len(t), t[k].c = g.c PROVE FALSE
    BY DEF EventConns
  <2>1. k + 1 = 1
    BY <1>1, <1>2, <1>4 DEF PendingOf
  <2> QED BY <1>2, <2>1
<1> QED BY <1>3, <1>4, <1>5, <1>6 DEF t

(* One is added.                                                           *)
LEMMA PendingAppend ==
  ASSUME NEW es \in Seq(SessionEvent), NEW e \in SessionEvent, NEW g, NEW tx, PendingOf(es, g, tx)
  PROVE  /\ EventConns(Append(es, e)) = EventConns(es) \cup {e.c}
         /\ e.c # g.c => PendingOf(Append(es, e), g, tx)
<1> DEFINE a == Append(es, e)
<1>1. /\ Len(es) \in Nat /\ Len(a) = Len(es) + 1 /\ a[Len(es) + 1] = e
      /\ \A k \in 1 .. Len(es) : a[k] = es[k]
  BY AppendProperties
<1> HIDE DEF a
<1>2. /\ \A k \in 1 .. Len(a) : (k \in 1 .. Len(es) /\ a[k] = es[k]) \/ (k = Len(es) + 1 /\ a[k] = e)
      /\ \A k \in 1 .. Len(es) : k \in 1 .. Len(a) /\ a[k] = es[k]
      /\ Len(es) + 1 \in 1 .. Len(a)
  BY <1>1
<1>3. EventConns(a) = EventConns(es) \cup {e.c}
  BY <1>1, <1>2 DEF EventConns
<1>4. e.c # g.c => PendingOf(a, g, tx)
  BY <1>2 DEF PendingOf
<1> QED BY <1>3, <1>4 DEF a

(* Nobody else asked for it: a connection whose one event it is.           *)
LEMMA PendingFresh ==
  ASSUME NEW es \in Seq(SessionEvent), NEW e \in SessionEvent, NEW g, NEW tx,
         g.c \notin EventConns(es), e.c = g.c, e.t = "resume", e.h = NoId, g.st # "connected", tx # g.c, e.i = g.last
  PROVE  PendingOf(Append(es, e), g, tx)
<1> DEFINE a == Append(es, e)
<1>1. /\ Len(es) \in Nat /\ Len(a) = Len(es) + 1 /\ a[Len(es) + 1] = e
      /\ \A k \in 1 .. Len(es) : a[k] = es[k]
  BY AppendProperties
<1> HIDE DEF a
<1>2. \A k \in 1 .. Len(a) : (k \in 1 .. Len(es) /\ a[k] = es[k]) \/ (k = Len(es) + 1 /\ a[k] = e)
  BY <1>1
<1>3. \A k \in 1 .. Len(a) : a[k].c = g.c => k = Len(es) + 1 /\ a[k] = e
  BY <1>2 DEF EventConns
<1> QED BY <1>3 DEF PendingOf, a

(* None of them is about the connection of the client.                     *)
LEMMA PendingNone ==
  ASSUME NEW es, NEW g, NEW tx, g.c \notin EventConns(es)
  PROVE  PendingOf(es, g, tx)
BY DEF PendingOf, EventConns

(* The standalone stream's sender changes to something else, or its client *)
(* to a state in which it waits no more.                                   *)
LEMMA PendingStays ==
  ASSUME NEW es, NEW g, NEW tx, PendingOf(es, g, tx), NEW g2, NEW tx2,
         g2.c = g.c, g2.last = g.last, tx2 = tx \/ tx2 # g.c,
         g2.st = g.st \/ g2.st \notin {"connecting", "retrying", "connected"}
  PROVE  PendingOf(es, g2, tx2)
BY DEF PendingOf

-----------------------------------------------------------------------------
(* A step that puts to use only connections that were fresh, or that the   *)
(* events carried, keeps the two invariants about who uses a connection.   *)
LEMMA UsesStay ==
  ASSUME StreamsInv, NEW N, N \subseteq Fresh, Fresh' \subseteq Fresh \ N,
         common'.tx \in {common.tx, NoConn} \cup EventConns(events), get'.c = get.c,
         RouterConns' \subseteq RouterConns \cup {NoConn} \cup N \cup (EventConns(events) \ {get.c}),
         PostConns' \subseteq PostConns \cup N,
         EventConns(events') \subseteq EventConns(events) \cup {NoConn} \cup N
  PROVE  NotYetUsed' /\ Alone'
<1>1. NoConn \notin Fresh
  BY Nothing DEF Fresh
<1>2. get.c \notin Fresh
  BY DEF StreamsInv, NotYetUsed
<1>3. NotYetUsed'
  BY <1>1, <1>2 DEF StreamsInv, NotYetUsed
<1>4. Alone'
  BY <1>2 DEF StreamsInv, Alone
<1> QED BY <1>3, <1>4

(* Everything but the channel of the standalone stream may change.         *)
LEMMA Elsewhere ==
  ASSUME StreamsInv, StreamsTypeOK', NEW N, N \subseteq Fresh, Fresh' \subseteq Fresh \ N,
         UNCHANGED <<common, outbox, get, got>>,
         get.st = "connected" => chan'[get.c] = chan[get.c],
         RouterConns' \subseteq RouterConns \cup {NoConn} \cup N \cup (EventConns(events) \ {get.c}),
         PostConns' \subseteq PostConns \cup N,
         EventConns(events') \subseteq EventConns(events) \cup {NoConn} \cup N,
         PendingOf(events', get, common.tx)
  PROVE  StreamsInv'
<1>1. NotYetUsed' /\ Alone'
  BY UsesStay
<1>2. Standing(common, outbox, get, got, chan'[get.c])
  BY StandingStays DEF StreamsInv
<1> QED BY <1>1, <1>2 DEF StreamsInv

(* What a step that takes an event leaves of the invariant about the       *)
(* events.                                                                 *)
LEMMA EventsTaken ==
  ASSUME StreamsInv, NEW t, NextEvent(t)
  PROVE  /\ PendingOf(events', get, common.tx) /\ EventConns(events') \subseteq EventConns(events)
         /\ Head(events).c \in EventConns(events) /\ Head(events) \in SessionEvent /\ Head(events).t = t
         /\ Head(events).c = get.c /\ get.c # NoConn =>
              /\ get.c \notin EventConns(events') /\ t = "resume" /\ Head(events).h = NoId
              /\ get.st # "connected" /\ common.tx # get.c
              /\ get.st \in {"connecting", "retrying"} => Head(events).i = get.last
<1>1. events \in Seq(SessionEvent) /\ events # <<>> /\ events' = Tail(events) /\ PendingOf(events, get, common.tx)
  BY DEF NextEvent, StreamsInv, StreamsTypeOK
<1>2. Head(events) \in SessionEvent /\ Head(events).t = t /\ Head(events) = events[1] /\ 1 \in 1 .. Len(events)
  BY EventTaken DEF StreamsInv
<1>3. Head(events).c = get.c /\ get.c # NoConn =>
              /\ t = "resume" /\ Head(events).h = NoId
              /\ get.st # "connected" /\ common.tx # get.c
              /\ get.st \in {"connecting", "retrying"} => Head(events).i = get.last
  BY <1>1, <1>2 DEF PendingOf
<1> QED BY <1>1, <1>2, <1>3, PendingTail

(* What a step that sends an event leaves of it, when no connection in use *)
(* is in the event.                                                        *)
LEMMA EventsSent ==
  ASSUME StreamsInv, NEW e \in SessionEvent, Emit(e), e.c \in {NoConn} \cup Fresh
  PROVE  PendingOf(events', get, common.tx) /\ EventConns(events') = EventConns(events) \cup {e.c}
<1>1. events \in Seq(SessionEvent) /\ events' = Append(events, e) /\ PendingOf(events, get, common.tx)
  BY DEF Emit, StreamsInv, StreamsTypeOK
<1>2. EventConns(events') = EventConns(events) \cup {e.c} /\ (e.c # get.c => PendingOf(events', get, common.tx))
  BY <1>1, PendingAppend
<1>3. e.c = get.c => get.c = NoConn
  BY DEF StreamsInv, NotYetUsed
<1>4. get.c = NoConn => PendingOf(events', get, common.tx)
  BY DEF PendingOf
<1> QED BY <1>2, <1>3, <1>4

(* The connections of the router after a step, from those its entries      *)
(* took.                                                                   *)
LEMMA RouterConnsGrow ==
  ASSUME NEW S, \A h \in DOMAIN router' : (h \in DOMAIN router /\ router'[h].tx = router[h].tx) \/ router'[h].tx \in S
  PROVE  RouterConns' \subseteq RouterConns \cup S
BY DEF RouterConns

(* The connections of the requests after a step, from those they took.     *)
LEMMA PostConnsGrow ==
  ASSUME NEW S, \A r \in Reqs : post'[r].c = post[r].c \/ post'[r].c \in S
  PROVE  PostConns' \subseteq PostConns \cup S
BY DEF PostConns

(* A step that changes one channel makes no connection fresh.              *)
LEMMA OneChannel ==
  ASSUME NEW c, \A d \in Conn : d # c => chan'[d] = chan[d],
         c \in Conn => chan'[c].st = chan[c].st \/ chan'[c].st # "unused"
  PROVE  /\ Fresh' \subseteq Fresh
         /\ c \in Conn /\ chan'[c].st # "unused" => Fresh' \subseteq Fresh \ {c}
BY DEF Fresh

(* The client that reads has a connection, with its channel.               *)
LEMMA ConnReading ==
  ASSUME StreamsInv, get.st = "connected"
  PROVE  get.c # NoConn /\ get.c \in Conn /\ chan[get.c] \in Channel /\ chan[get.c].q \in Seq(StreamMessage)
<1>1. get.c # NoConn
  BY DEF StreamsInv, Standing
<1>2. get.c \in 0 .. MaxConns
  BY DEF StreamsInv, StreamsTypeOK, GetState
<1> QED BY <1>1, <1>2, ReadType DEF StreamsInv

(* A message on the standalone stream.                                     *)
LEMMA SentAlone ==
  ASSUME StreamsInv, StreamsTypeOK', outbox = <<>>, NEW ev \in StreamMessage, ev.i = NextIndex(common.cache, 0),
         common'.cache = CacheAdd(common.cache, ev), common'.tx \in {common.tx, NoConn},
         outbox' = ToSend(common.tx, ev), UNCHANGED <<get, got, chan, post>>,
         RouterConns' \subseteq RouterConns \cup {NoConn}, EventConns(events') \subseteq EventConns(events),
         PendingOf(events', get, common.tx)
  PROVE  StreamsInv'
<1>1. common.cache \in Seq(StreamMessage) /\ common.tx \in 0 .. MaxConns /\ get \in GetState /\ got \in Int
  BY DEF StreamsInv, StreamsTypeOK
<1>2. Standing(common', outbox', get, got, chan[get.c])
  <2>1. get.st = "connected" => chan[get.c] \in Channel
    BY ConnReading
  <2>2. Standing(common, <<>>, get, got, chan[get.c])
    BY DEF StreamsInv
  <2> QED BY <1>1, <2>1, <2>2, StandingAdds
<1>3. PendingOf(events', get, common'.tx)
  <2>1. get.c = NoConn => PendingOf(events', get, common'.tx)
    BY DEF PendingOf
  <2>2. get.c # NoConn => common'.tx = common.tx \/ common'.tx # get.c
    OBVIOUS
  <2> QED BY <2>1, <2>2, PendingStays
<1>4. NotYetUsed' /\ Alone'
  <2>1. Fresh' \subseteq Fresh \ {} /\ PostConns' \subseteq PostConns \cup {}
    BY DEF Fresh, PostConns
  <2>2. {} \subseteq Fresh
    OBVIOUS
  <2> QED BY <2>1, <2>2, UsesStay
<1> QED BY <1>2, <1>3, <1>4 DEF StreamsInv

(* A message on the stream of a request: not to the standalone stream's    *)
(* connection.                                                             *)
LEMMA SentToRequest ==
  ASSUME StreamsInv, StreamsTypeOK', outbox = <<>>, NEW ev \in StreamMessage, NEW c \in RouterConns, c \in 0 .. MaxConns,
         outbox' = ToSend(c, ev), UNCHANGED <<common, get, got, chan, post>>,
         RouterConns' \subseteq RouterConns \cup {NoConn}, EventConns(events') \subseteq EventConns(events),
         PendingOf(events', get, common.tx)
  PROVE  StreamsInv'
<1>1. get.c # NoConn => c # get.c
  BY DEF StreamsInv, Alone
<1>2. get.st = "connected" => ~Sending(outbox, get.c) /\ ~Sending(outbox', get.c)
  BY <1>1, ConnReading, ToSendType DEF Sending
<1>3. Standing(common, outbox', get, got, chan[get.c])
  BY <1>2, StandingStays DEF StreamsInv
<1>4. NotYetUsed' /\ Alone'
  <2>1. Fresh' \subseteq Fresh \ {} /\ PostConns' \subseteq PostConns \cup {}
    BY DEF Fresh, PostConns
  <2>2. {} \subseteq Fresh
    OBVIOUS
  <2> QED BY <2>1, <2>2, UsesStay
<1> QED BY <1>3, <1>4 DEF StreamsInv

(* A step that takes no connection and touches none.                       *)
LEMMA NoConnTouched ==
  ASSUME StreamsInv, StreamsTypeOK', UNCHANGED <<common, outbox, get, got, chan>>,
         RouterConns' \subseteq RouterConns \cup {NoConn}, PostConns' \subseteq PostConns,
         EventConns(events') \subseteq EventConns(events) \cup {NoConn}, PendingOf(events', get, common.tx)
  PROVE  StreamsInv'
<1>1. Fresh' \subseteq Fresh \ {} /\ PostConns' \subseteq PostConns \cup {} /\ {} \subseteq Fresh
  BY DEF Fresh
<1>2. get.st = "connected" => chan'[get.c] = chan[get.c]
  OBVIOUS
<1> QED BY <1>1, <1>2, Elsewhere

(* What a step that leaves the events alone keeps of it.                   *)
LEMMA EventsSame ==
  ASSUME StreamsInv, events' = events
  PROVE  PendingOf(events', get, common.tx) /\ EventConns(events') \subseteq EventConns(events)
BY DEF StreamsInv

(* An entry taken out of the router uses no connection more.               *)
LEMMA WithoutConns ==
  ASSUME NEW S, router' = Without(router, S)
  PROVE  RouterConns' \subseteq RouterConns \cup {NoConn}
BY DEF Without, RouterConns

(* An event of the standalone stream enters its cache and, if a connection *)
(* is there, sets out for it.                                              *)
LEMMA SendCommonKeeps ==
  ASSUME StreamsInv, StreamsTypeOK', outbox = <<>>, NEW t \in {"response", "progress", "cancelled", "server"}, NEW r \in Reqs \cup {NoId},
         SendCommon(t, r), UNCHANGED <<get, got, chan, post, router, events>>
  PROVE  StreamsInv'
<1> DEFINE ev == Ev(NextIndex(common.cache, 0), t, r)
<1>1. common \in [cache : Seq(StreamMessage), tx : 0 .. MaxConns] /\ common.cache \in Seq(StreamMessage)
  BY DEF StreamsInv, StreamsTypeOK
<1>2. NextIndex(common.cache, 0) \in Nat
  BY <1>1, NextIndexType
<1>3. ev \in StreamMessage /\ ev.i = NextIndex(common.cache, 0)
  BY <1>2, EvType
<1>4. common' = [common EXCEPT !.cache = CacheAdd(common.cache, ev)] /\ outbox' = ToSend(common.tx, ev)
  BY DEF SendCommon
<1> HIDE DEF ev
<1>5. common'.cache = CacheAdd(common.cache, ev) /\ common'.tx = common.tx
  BY <1>1, <1>4
<1>6. RouterConns' \subseteq RouterConns \cup {NoConn}
  BY DEF RouterConns
<1>7. EventConns(events') \subseteq EventConns(events) /\ PendingOf(events', get, common.tx)
  BY EventsSame
<1> QED BY <1>3, <1>4, <1>5, <1>6, <1>7, SentAlone

(* From here one lemma per action: it keeps the invariant. First the       *)
(* worker: it answers a request.                                           *)
LEMMA RespondKeeps == ASSUME StreamsInv, NEW r \in Reqs, Respond(r) PROVE StreamsInv'
<1> DEFINE key == <<"id", r>>
           h == resources[key]
<1>1. StreamsTypeOK' /\ StreamsTypeOK
  BY RespondType DEF StreamsInv
<1>2. outbox = <<>> /\ UNCHANGED <<get, got, chan, post, events>>
  BY DEF Respond, AtSelect, client
<1>3. EventConns(events') \subseteq EventConns(events) /\ PendingOf(events', get, common.tx)
  BY <1>2, EventsSame
<1>4. CASE /\ h \in DOMAIN router
           /\ LET ev == Ev(NextIndex(router[h].cache, IF Priming THEN 1 ELSE 0), "response", r)
              IN outbox' = ToSend(router[h].tx, ev)
           /\ router' = Without(router, {h})
           /\ UNCHANGED common
  <2> DEFINE ev == Ev(NextIndex(router[h].cache, IF Priming THEN 1 ELSE 0), "response", r)
  <2>1. router[h].tx \in 0 .. MaxConns /\ ev \in StreamMessage
    BY <1>1, <1>4, RouteIndex
  <2>2. router[h].tx \in RouterConns
    BY <1>4 DEF RouterConns
  <2>3. outbox' = ToSend(router[h].tx, ev) /\ common' = common
    BY <1>4
  <2>4. RouterConns' \subseteq RouterConns \cup {NoConn}
    BY <1>4, WithoutConns
  <2> HIDE DEF ev, h
  <2> QED BY <1>1, <1>2, <1>3, <2>1, <2>2, <2>3, <2>4, SentToRequest
<1>5. CASE UNCHANGED <<router, common, outbox>>
  <2>1. RouterConns' \subseteq RouterConns \cup {NoConn} /\ PostConns' \subseteq PostConns
    BY <1>2, <1>5 DEF RouterConns, PostConns
  <2> QED BY <1>1, <1>2, <1>3, <1>5, <2>1, NoConnTouched
<1>6. CASE SendCommon("response", r) /\ UNCHANGED router
  BY <1>1, <1>2, <1>6, SendCommonKeeps
<1> QED BY <1>4, <1>5, <1>6 DEF Respond

(* A notification goes to the stream of its request, or to the standalone  *)
(* one.                                                                    *)
LEMMA NotifyKeeps == ASSUME StreamsInv, NEW r \in Reqs, NEW t \in {"progress", "cancelled"}, Notify(r, t) PROVE StreamsInv'
<1> DEFINE key == IF t = "progress" THEN <<"token", r>> ELSE <<"id", r>>
           h == resources[key]
<1>1. StreamsTypeOK' /\ StreamsTypeOK
  BY NotifyType DEF StreamsInv
<1>2. outbox = <<>> /\ UNCHANGED <<get, got, chan, post, events>>
  BY DEF Notify, AtSelect
<1>3. EventConns(events') \subseteq EventConns(events) /\ PendingOf(events', get, common.tx)
  BY <1>2, EventsSame
<1>4. CASE h \in DOMAIN router /\ SendRequestWise(h, t, r) /\ UNCHANGED common
  <2> DEFINE ev == Ev(NextIndex(router[h].cache, IF Priming THEN 1 ELSE 0), t, r)
  <2>1. router[h].tx \in 0 .. MaxConns /\ ev \in StreamMessage /\ router[h] \in RouterEntry
    BY <1>1, <1>4, RouteIndex
  <2>2. router[h].tx \in RouterConns
    BY <1>4 DEF RouterConns
  <2>3. outbox' = ToSend(router[h].tx, ev) /\ common' = common /\ router' = [router EXCEPT ![h].cache = CacheAdd(router[h].cache, ev)]
    BY <1>4 DEF SendRequestWise
  <2> HIDE DEF ev, h
  <2>4. \A x \in DOMAIN router' : x \in DOMAIN router /\ router'[x].tx = router[x].tx
    BY <2>1, <2>3 DEF RouterEntry
  <2>5. RouterConns' \subseteq RouterConns \cup {NoConn}
    BY <2>4, RouterConnsGrow
  <2> QED BY <1>1, <1>2, <1>3, <2>1, <2>2, <2>3, <2>5, SentToRequest
<1>5. CASE UNCHANGED <<router, common, outbox>>
  <2>1. RouterConns' \subseteq RouterConns \cup {NoConn} /\ PostConns' \subseteq PostConns
    BY <1>2, <1>5 DEF RouterConns, PostConns
  <2> QED BY <1>1, <1>2, <1>3, <1>5, <2>1, NoConnTouched
<1>6. CASE SendCommon(t, r) /\ UNCHANGED router
  BY <1>1, <1>2, <1>6, SendCommonKeeps
<1> QED BY <1>4, <1>5, <1>6 DEF Notify

(* A message the server starts goes to the standalone stream.              *)
LEMMA ServerInitiatedKeeps == ASSUME StreamsInv, ServerInitiated PROVE StreamsInv'
<1>1. StreamsTypeOK'
  BY ServerInitiatedType DEF StreamsInv
<1>2. outbox = <<>> /\ UNCHANGED <<get, got, chan, post, router, events>> /\ SendCommon("server", NoId)
  BY DEF ServerInitiated, AtSelect, client
<1> QED BY <1>1, <1>2, SendCommonKeeps

(* The send completes: what was on its way is now in the channel.          *)
LEMMA FlushKeeps == ASSUME StreamsInv, Flush PROVE StreamsInv'
<1>1. StreamsTypeOK' /\ StreamsTypeOK
  BY FlushType DEF StreamsInv
<1>2. PICK c \in Conn, ev \in StreamMessage : outbox = <<[c |-> c, ev |-> ev]>>
  BY <1>1 DEF Flush, StreamsTypeOK, OutboxOK
<1>3. outbox # <<>> /\ outbox[1].c = c /\ outbox[1].ev = ev /\ c # NoConn
  BY <1>2, Nothing
<1>4. /\ UNCHANGED <<common, get, got, post, router, events>> /\ outbox' = <<>>
      /\ \/ chan[c].st = "up" /\ chan' = [chan EXCEPT ![c].q = Append(chan[c].q, ev)]
         \/ chan[c].st # "up" /\ chan' = chan
  BY <1>3 DEF Flush, client, IsClosed
<1>5. chan \in [Conn -> Channel]
  BY <1>1 DEF StreamsTypeOK
<1>6. /\ \A d \in Conn : d # c => chan'[d] = chan[d]
      /\ chan'[c].st = chan[c].st /\ chan'[c].prime = chan[c].prime
      /\ chan[c].st = "up" => chan'[c].q = Append(chan[c].q, ev)
  BY <1>4, <1>5 DEF Channel
<1>7. Standing(common, <<>>, get, got, chan'[get.c])
  <2>1. ASSUME get.st = "connected"
        PROVE  /\ chan'[get.c].prime = chan[get.c].prime /\ chan'[get.c].st = chan[get.c].st
               /\ Sending(outbox, get.c) /\ chan[get.c].st = "up" => chan'[get.c].q = Append(chan[get.c].q, outbox[1].ev)
               /\ ~Sending(outbox, get.c) => chan'[get.c].q = chan[get.c].q
    <3>1. get.c \in Conn
      BY <2>1, ConnReading
    <3>2. Sending(outbox, get.c) <=> c = get.c
      BY <1>3 DEF Sending
    <3> QED BY <1>3, <1>6, <3>1, <3>2
  <2> QED BY <2>1, StandingFlushes DEF StreamsInv
<1>8. Fresh' \subseteq Fresh \ {}
  BY <1>6, OneChannel
<1>9. RouterConns' \subseteq RouterConns /\ PostConns' \subseteq PostConns \cup {} /\ {} \subseteq Fresh
  BY <1>4 DEF RouterConns, PostConns
<1>10. EventConns(events') \subseteq EventConns(events) /\ PendingOf(events', get, common.tx)
  BY <1>4, EventsSame
<1>11. NotYetUsed' /\ Alone'
  BY <1>4, <1>8, <1>9, <1>10, UsesStay
<1> QED BY <1>1, <1>4, <1>7, <1>10, <1>11 DEF StreamsInv

(* A channel for a request is made, on a connection never used.            *)
LEMMA EstablishKeeps == ASSUME StreamsInv, EstablishRequestWiseChannel PROVE StreamsInv'
<1> DEFINE r == Head(events).r
           c == NewConn
           entry == [keys |-> {}, cache |-> <<>>, tx |-> c, done |-> FALSE]
<1>1. StreamsTypeOK' /\ StreamsTypeOK
  BY EstablishType DEF StreamsInv
<1>2. NextEvent("establish") /\ Fresh # {}
  BY DEF EstablishRequestWiseChannel
<1>3. c \in Fresh /\ c \in Conn
  BY <1>2, FreshConn
<1>4. /\ router' = With(router, nextId, entry)
      /\ chan' = [chan EXCEPT ![c] = [st |-> "up", q |-> <<>>, prime |-> FALSE]] \/ chan' = [chan EXCEPT ![c] = Closed]
      /\ \/ post' = [post EXCEPT ![r] = [@ EXCEPT !.st = "established", !.h = nextId, !.c = c]]
         \/ post' = post
      /\ UNCHANGED <<common, outbox, get, got>>
  BY DEF EstablishRequestWiseChannel, Opened
<1>5. chan \in [Conn -> Channel] /\ post \in [Reqs -> PostState]
  BY <1>1 DEF StreamsTypeOK
<1> HIDE DEF c, r
<1>6. (\A d \in Conn : d # c => chan'[d] = chan[d]) /\ chan'[c].st # "unused"
  BY <1>3, <1>4, <1>5 DEF Closed
<1>7. Fresh' \subseteq Fresh \ {c} /\ {c} \subseteq Fresh
  BY <1>3, <1>6, OneChannel
<1>8. RouterConns' \subseteq RouterConns \cup {c}
  <2>1. \A x \in DOMAIN router' : (x \in DOMAIN router /\ router'[x].tx = router[x].tx) \/ router'[x].tx \in {c}
    BY <1>4 DEF With
  <2> QED BY <2>1, RouterConnsGrow
<1>9. PostConns' \subseteq PostConns \cup {c}
  <2>1. \A x \in Reqs : post'[x].c = post[x].c \/ post'[x].c \in {c}
    BY <1>4, <1>5 DEF PostState
  <2> QED BY <2>1, PostConnsGrow
<1>10. PendingOf(events', get, common.tx) /\ EventConns(events') \subseteq EventConns(events)
  BY <1>2, EventsTaken
<1>11. get.st = "connected" => chan'[get.c] = chan[get.c]
  <2>1. get.c # c
    BY <1>3 DEF StreamsInv, NotYetUsed
  <2> QED BY <1>6, <2>1, ConnReading
<1> QED BY <1>1, <1>4, <1>7, <1>8, <1>9, <1>10, <1>11, Elsewhere

(* A message of a client arrives.                                          *)
LEMMA ClientMessageKeeps == ASSUME StreamsInv, ClientMessage PROVE StreamsInv'
<1> DEFINE h == Head(events).h
           keys == {"id", "token"} \X {Head(events).r}
<1>1. StreamsTypeOK' /\ StreamsTypeOK
  BY ClientMessageType DEF StreamsInv
<1>2. NextEvent("message") /\ UNCHANGED <<common, outbox, get, got, chan, post>>
  BY DEF ClientMessage, client
<1>3. \/ router' = router
      \/ h \in DOMAIN router /\ router' = [router EXCEPT ![h] = [router[h] EXCEPT !.keys = @ \cup keys]]
  BY DEF ClientMessage
<1> HIDE DEF h, keys
<1>4. RouterConns' \subseteq RouterConns \cup {NoConn}
  <2>1. h \in DOMAIN router => router[h] \in RouterEntry
    BY <1>1 DEF StreamsTypeOK, RouterOK
  <2>2. h \in DOMAIN router => [router[h] EXCEPT !.keys = @ \cup keys].tx = router[h].tx
    BY <2>1 DEF RouterEntry
  <2>3. \A x \in DOMAIN router' : x \in DOMAIN router /\ router'[x].tx = router[x].tx
    BY <1>3, <2>2
  <2> QED BY <2>3, RouterConnsGrow
<1>5. PostConns' \subseteq PostConns
  BY <1>2 DEF PostConns
<1>6. PendingOf(events', get, common.tx) /\ EventConns(events') \subseteq EventConns(events)
  BY <1>2, EventsTaken
<1> QED BY <1>1, <1>2, <1>4, <1>5, <1>6, NoConnTouched

(* A request is cancelled.                                                 *)
LEMMA CancelRequestKeeps == ASSUME StreamsInv, CancelRequest PROVE StreamsInv'
<1> DEFINE h == resources[<<"id", Head(events).r>>]
<1>1. StreamsTypeOK' /\ StreamsTypeOK
  BY CancelRequestType DEF StreamsInv
<1>2. NextEvent("cancel") /\ UNCHANGED <<common, outbox, get, got, chan, post>>
  BY DEF CancelRequest, client
<1>3. \/ router' = router
      \/ h \in DOMAIN router
         /\ router' = [router EXCEPT ![h] = [router[h] EXCEPT !.keys = {}, !.done = TRUE, !.tx = NoConn]]
  BY DEF CancelRequest, Unregistered
<1> HIDE DEF h
<1>4. RouterConns' \subseteq RouterConns \cup {NoConn}
  <2>1. h \in DOMAIN router => router[h] \in RouterEntry
    BY <1>1 DEF StreamsTypeOK, RouterOK
  <2>2. h \in DOMAIN router => [router[h] EXCEPT !.keys = {}, !.done = TRUE, !.tx = NoConn].tx = NoConn
    BY <2>1 DEF RouterEntry
  <2>3. \A x \in DOMAIN router' : (x \in DOMAIN router /\ router'[x].tx = router[x].tx) \/ router'[x].tx \in {NoConn}
    BY <1>3, <2>2
  <2> QED BY <2>3, RouterConnsGrow
<1>5. PostConns' \subseteq PostConns
  BY <1>2 DEF PostConns
<1>6. PendingOf(events', get, common.tx) /\ EventConns(events') \subseteq EventConns(events)
  BY <1>2, EventsTaken
<1> QED BY <1>1, <1>2, <1>4, <1>5, <1>6, NoConnTouched

(* A completed stream has expired.                                         *)
LEMMA EvictKeeps == ASSUME StreamsInv, NEW h, Evict(h) PROVE StreamsInv'
<1>1. StreamsTypeOK'
  BY EvictType DEF StreamsInv
<1>2. UNCHANGED <<common, outbox, get, got, chan, post, events>> /\ router' = Without(router, {h})
  BY DEF Evict, client
<1>3. RouterConns' \subseteq RouterConns \cup {NoConn} /\ PostConns' \subseteq PostConns
  BY <1>2, WithoutConns DEF PostConns
<1>4. PendingOf(events', get, common.tx) /\ EventConns(events') \subseteq EventConns(events)
  BY <1>2, EventsSame
<1> QED BY <1>1, <1>2, <1>3, <1>4, NoConnTouched

(* The stream of a request is closed.                                      *)
LEMMA CloseRequestWiseKeeps == ASSUME StreamsInv, CloseRequestWiseChannel PROVE StreamsInv'
<1>1. StreamsTypeOK'
  BY CloseRequestWiseType DEF StreamsInv
<1>2. NextEvent("closeReq") /\ UNCHANGED <<common, outbox, get, got, chan, post>> /\ \E S : router' = Without(router, S)
  BY DEF CloseRequestWiseChannel, client
<1>3. RouterConns' \subseteq RouterConns \cup {NoConn} /\ PostConns' \subseteq PostConns
  BY <1>2, WithoutConns DEF PostConns
<1>4. PendingOf(events', get, common.tx) /\ EventConns(events') \subseteq EventConns(events)
  BY <1>2, EventsTaken
<1> QED BY <1>1, <1>2, <1>3, <1>4, NoConnTouched

(* The worker quits.                                                       *)
LEMMA QuitKeeps == ASSUME StreamsInv, Quit PROVE StreamsInv'
<1>1. StreamsTypeOK'
  BY QuitType DEF StreamsInv
<1>2. UNCHANGED <<common, outbox, get, got, chan, post, router>> /\ events' = <<>>
  BY DEF Quit
<1>3. RouterConns' \subseteq RouterConns \cup {NoConn} /\ PostConns' \subseteq PostConns
  BY <1>2 DEF RouterConns, PostConns
<1>4. EventConns(events') = {}
  BY <1>2 DEF EventConns
<1>5. PendingOf(events', get, common.tx)
  BY <1>4, PendingNone
<1> QED BY <1>1, <1>2, <1>3, <1>4, <1>5, NoConnTouched

(* The stream of a request is resumed.                                     *)
LEMMA ResumeRequestWiseKeeps == ASSUME StreamsInv, ResumeRequestWise PROVE StreamsInv'
<1> DEFINE e == Head(events)
           known == e.h \in DOMAIN router
           fails == ~known \/ SyncFails(router[e.h].cache, e.i)
<1>1. StreamsTypeOK' /\ StreamsTypeOK
  BY ResumeRequestWiseType DEF StreamsInv
<1>2. NextEvent("resume") /\ e.h # NoId /\ UNCHANGED <<common, outbox, get, got>>
  BY DEF ResumeRequestWise
<1>3. PendingOf(events', get, common.tx) /\ EventConns(events') \subseteq EventConns(events) /\ e.c \in EventConns(events)
  BY <1>2, EventsTaken
<1>4. get.c # NoConn => e.c # get.c
  BY <1>2, EventsTaken
<1>5. \/ router' = router
      \/ known /\ \E c \in {NoConn, e.c} : router' = [router EXCEPT ![e.h] = [router[e.h] EXCEPT !.tx = c]]
  BY DEF ResumeRequestWise
<1>6. \E v \in {Closed, [st |-> "up", q |-> Replay(router[e.h].cache, e.i), prime |-> FALSE]} : chan' = [chan EXCEPT ![e.c] = v]
  BY DEF ResumeRequestWise, Opened
<1>7. post' = post \/ \E st \in {"gone", "streaming"} : post' = [post EXCEPT ![e.r].st = st]
  BY DEF ResumeRequestWise
<1>8. chan \in [Conn -> Channel] /\ post \in [Reqs -> PostState] /\ e.c \in 0 .. MaxConns
  BY <1>1, <1>2, EventsTaken DEF StreamsTypeOK, SessionEvent
<1> HIDE DEF e, fails
<1>9. (\A d \in Conn : d # e.c => chan'[d] = chan[d]) /\ (e.c \in Conn => chan'[e.c].st # "unused")
  BY <1>6, <1>8 DEF Closed
<1>10. Fresh' \subseteq Fresh \ {} /\ {} \subseteq Fresh
  BY <1>9, OneChannel
<1>11. RouterConns' \subseteq RouterConns \cup {NoConn, e.c}
  <2>1. known => router[e.h] \in RouterEntry
    BY <1>1 DEF StreamsTypeOK, RouterOK
  <2>2. \A x \in DOMAIN router' : (x \in DOMAIN router /\ router'[x].tx = router[x].tx) \/ router'[x].tx \in {NoConn, e.c}
    BY <1>5, <2>1 DEF RouterEntry
  <2> QED BY <2>2, RouterConnsGrow
<1>12. PostConns' \subseteq PostConns \cup {}
  <2>1. \A x \in Reqs : post'[x].c = post[x].c \/ post'[x].c \in {}
    BY <1>7, <1>8 DEF PostState
  <2> QED BY <2>1, PostConnsGrow
<1>13. RouterConns' \subseteq RouterConns \cup {NoConn} \cup {} \cup (EventConns(events) \ {get.c})
  BY <1>3, <1>4, <1>11
<1>14. get.st = "connected" => chan'[get.c] = chan[get.c]
  BY <1>4, <1>9, ConnReading
<1> QED BY <1>1, <1>2, <1>3, <1>10, <1>12, <1>13, <1>14, Elsewhere

(* A stream is closed so that its client reconnects.                       *)
LEMMA CloseSseStreamKeeps == ASSUME StreamsInv, CloseSseStream PROVE StreamsInv'
<1> DEFINE h == Head(events).h
<1>1. StreamsTypeOK' /\ StreamsTypeOK
  BY CloseSseStreamType DEF StreamsInv
<1>2. NextEvent("closeSse") /\ outbox = <<>> /\ UNCHANGED <<get, got, chan, post>> /\ NoId \in Reqs \cup {NoId}
  BY DEF CloseSseStream, client, NextEvent, AtSelect
<1>3. PendingOf(events', get, common.tx) /\ EventConns(events') \subseteq EventConns(events)
  BY <1>2, EventsTaken
<1>4. CASE /\ h \in DOMAIN router
           /\ LET ev == Ev(NextIndex(router[h].cache, IF Priming THEN 1 ELSE 0), "priming", NoId) IN
              /\ outbox' = ToSend(router[h].tx, ev)
              /\ router' = [router EXCEPT ![h].cache = CacheAdd(@, ev), ![h].tx = NoConn]
           /\ UNCHANGED common
  <2> DEFINE ev == Ev(NextIndex(router[h].cache, IF Priming THEN 1 ELSE 0), "priming", NoId)
  <2>1. router[h] \in RouterEntry /\ router[h].tx \in 0 .. MaxConns /\ ev \in StreamMessage
    BY <1>1, <1>2, <1>4, RouteIndex
  <2>2. /\ router' = [router EXCEPT ![h] = [router[h] EXCEPT !.cache = CacheAdd(router[h].cache, ev), !.tx = NoConn]]
        /\ outbox' = ToSend(router[h].tx, ev)
    BY <1>4
  <2>3. router[h].tx \in RouterConns
    BY <1>4 DEF RouterConns
  <2> HIDE DEF ev, h
  <2>4. [router[h] EXCEPT !.cache = CacheAdd(router[h].cache, ev), !.tx = NoConn].tx = NoConn
    BY <2>1 DEF RouterEntry
  <2>5. \A x \in DOMAIN router' : (x \in DOMAIN router /\ router'[x].tx = router[x].tx) \/ router'[x].tx \in {NoConn}
    BY <2>2, <2>4
  <2>6. RouterConns' \subseteq RouterConns \cup {NoConn}
    BY <2>5, RouterConnsGrow
  <2> QED BY <1>1, <1>2, <1>3, <1>4, <2>1, <2>2, <2>3, <2>6, SentToRequest
<1>5. CASE UNCHANGED <<router, common, outbox>>
  <2>1. RouterConns' \subseteq RouterConns \cup {NoConn} /\ PostConns' \subseteq PostConns
    BY <1>2, <1>5 DEF RouterConns, PostConns
  <2> QED BY <1>1, <1>2, <1>3, <1>5, <2>1, NoConnTouched
<1>6. CASE /\ LET ev == Ev(NextIndex(common.cache, 0), "priming", NoId) IN
              /\ outbox' = ToSend(common.tx, ev)
              /\ common' = [cache |-> CacheAdd(common.cache, ev), tx |-> NoConn]
           /\ UNCHANGED router
  <2> DEFINE ev == Ev(NextIndex(common.cache, 0), "priming", NoId)
  <2>1. common.cache \in Seq(StreamMessage)
    BY <1>1 DEF StreamsTypeOK
  <2>2. NextIndex(common.cache, 0) \in Nat
    BY <2>1, NextIndexType
  <2>3. ev \in StreamMessage /\ ev.i = NextIndex(common.cache, 0)
    BY <1>2, <2>2, EvType
  <2>4. outbox' = ToSend(common.tx, ev) /\ common'.cache = CacheAdd(common.cache, ev) /\ common'.tx = NoConn
    BY <1>6
  <2>5. RouterConns' \subseteq RouterConns \cup {NoConn}
    BY <1>6 DEF RouterConns
  <2> HIDE DEF ev
  <2> QED BY <1>1, <1>2, <1>3, <2>3, <2>4, <2>5, SentAlone
<1> QED BY <1>4, <1>5, <1>6 DEF CloseSseStream

(* The standalone stream is resumed: the replay begins right after what    *)
(* the client saw, or at the oldest event of the cache.                    *)
LEMMA ResumeOrShadowCommonKeeps == ASSUME StreamsInv, ResumeOrShadowCommon PROVE StreamsInv'
<1> DEFINE e == Head(events)
           dead == IsClosed(common.tx)
           index == IF e.i = NoId THEN 0 ELSE e.i
           fails == dead /\ SyncFails(common.cache, index)
           waits == get.st \in {"connecting", "retrying"} /\ get.c = e.c
           q == IF dead THEN Replay(common.cache, index) ELSE <<>>
           prime == Priming /\ e.i = NoId
<1>1. StreamsTypeOK' /\ StreamsTypeOK
  BY ResumeOrShadowCommonType DEF StreamsInv
<1>2. NextEvent("resume") /\ e.h = NoId /\ UNCHANGED <<got, router, post, outbox>> /\ outbox = <<>>
  BY DEF ResumeOrShadowCommon, NextEvent, AtSelect
<1>3. /\ PendingOf(events', get, common.tx) /\ EventConns(events') \subseteq EventConns(events)
      /\ e.c \in EventConns(events) /\ e \in SessionEvent
  BY <1>2, EventsTaken
<1>4. e.c = get.c /\ get.c # NoConn =>
        /\ get.c \notin EventConns(events')
        /\ get.st # "connected" /\ common.tx # get.c
        /\ get.st \in {"connecting", "retrying"} => e.i = get.last
  BY <1>2, EventsTaken
<1>5. /\ common' = IF ~dead THEN common ELSE [common EXCEPT !.tx = IF fails THEN NoConn ELSE e.c]
      /\ chan' = IF fails THEN [chan EXCEPT ![e.c] = Closed] ELSE [Opened(e.c, q) EXCEPT ![e.c].prime = prime]
      /\ get' = IF waits THEN [get EXCEPT !.st = "connected"] ELSE get
  BY DEF ResumeOrShadowCommon
<1>6. /\ chan \in [Conn -> Channel] /\ common \in [cache : Seq(StreamMessage), tx : 0 .. MaxConns]
      /\ get \in GetState /\ got \in Int /\ e.c \in 0 .. MaxConns /\ common.cache \in Seq(StreamMessage)
  BY <1>1, <1>3 DEF StreamsTypeOK, SessionEvent
<1> HIDE DEF e, dead, index, fails, q, prime
<1>7. /\ \A d \in Conn : d # e.c => chan'[d] = chan[d]
      /\ e.c \in Conn => IF fails THEN chan'[e.c] = Closed
                         ELSE chan'[e.c].st = "up" /\ chan'[e.c].q = q /\ chan'[e.c].prime = prime
  <2>1. CASE fails
    BY <1>5, <1>6, <2>1
  <2>2. CASE ~fails
    <3>1. chan' = [[chan EXCEPT ![e.c] = [st |-> "up", q |-> q, prime |-> FALSE]] EXCEPT ![e.c].prime = prime]
      BY <1>5, <2>2 DEF Opened
    <3> QED BY <1>6, <2>2, <3>1
  <2> QED BY <2>1, <2>2
<1>8. Closed.st = "closed" /\ Closed.q = <<>> /\ Closed.prime = FALSE
  BY DEF Closed
<1>9. Fresh' \subseteq Fresh \ {} /\ {} \subseteq Fresh
  <2>1. e.c \in Conn => chan'[e.c].st # "unused"
    BY <1>7, <1>8
  <2> QED BY <1>7, <2>1, OneChannel
<1>10. /\ common'.cache = common.cache
       /\ common'.tx = IF ~dead THEN common.tx ELSE IF fails THEN NoConn ELSE e.c
  BY <1>5, <1>6
<1>11. get'.c = get.c /\ get'.last = get.last /\ get'.st = IF waits THEN "connected" ELSE get.st
  BY <1>5, <1>6 DEF GetState
<1>12. NotYetUsed' /\ Alone'
  <2>1. RouterConns' \subseteq RouterConns /\ PostConns' \subseteq PostConns \cup {}
    BY <1>2 DEF RouterConns, PostConns
  <2> QED BY <1>3, <1>9, <1>10, <1>11, <2>1, UsesStay
<1>13. CASE e.c = get.c /\ get.c # NoConn
  <2>1. get.c \in Conn
    BY <1>6, <1>13, ReadType DEF StreamsInv
  <2>2. PendingOf(events', get', common'.tx)
    BY <1>4, <1>11, <1>13, PendingNone
  <2>3. Standing(common, <<>>, get, got, chan[get.c])
    BY <1>2 DEF StreamsInv
  <2>4. CASE ~waits
    <3>1. get'.st # "connected" /\ (get'.st \in {"connecting", "retrying"} => get'.c # NoConn)
      BY <1>4, <1>11, <1>13, <2>4
    <3>2. Standing(common, <<>>, get', got, chan'[get'.c])
      BY <1>11, <2>3, <3>1, StandingApart
    <3>3. Standing(common', <<>>, get', got, chan'[get'.c])
      BY <1>10, <3>1, <3>2 DEF Standing
    <3> QED BY <1>1, <1>2, <1>12, <2>2, <3>3 DEF StreamsInv
  <2>5. CASE waits
    <3>1. e.i = get.last
      BY <1>4, <1>13, <2>5
    <3>2. CASE dead /\ ~fails
      <4>1. index = (IF get.last = NoId THEN 0 ELSE get.last) /\ ~SyncFails(common.cache, index)
        BY <3>1, <3>2 DEF index, fails
      <4>2. chan'[get.c].st = "up" /\ chan'[get.c].q = Replay(common.cache, index) /\ (chan'[get.c].prime => get.last = NoId)
        BY <1>7, <1>13, <2>1, <3>1, <3>2 DEF q, prime
      <4>3. Standing(common', <<>>, get', got, chan'[get.c])
        BY <1>6, <1>10, <1>11, <1>13, <2>3, <3>2, <4>1, <4>2, StandingTakesOver
      <4> QED BY <1>1, <1>2, <1>11, <1>12, <2>2, <4>3 DEF StreamsInv
    <3>3. CASE ~dead \/ fails
      <4>1. common'.tx # get.c
        BY <1>4, <1>10, <1>13, <3>3
      <4>2. chan'[get.c].q = <<>> /\ (chan'[get.c].prime => get.last = NoId)
        BY <1>7, <1>8, <1>13, <2>1, <3>1, <3>3 DEF q, prime, fails
      <4>3. Standing(common', <<>>, get', got, chan'[get.c])
        BY <1>10, <1>11, <1>13, <2>3, <4>1, <4>2, StandingIdle
      <4> QED BY <1>1, <1>2, <1>11, <1>12, <2>2, <4>3 DEF StreamsInv
    <3> QED BY <3>2, <3>3
  <2> QED BY <2>4, <2>5
<1>14. CASE ~(e.c = get.c /\ get.c # NoConn)
  <2>1. get.st \in {"connecting", "retrying", "connected"} => get.c # NoConn
    BY DEF StreamsInv, Standing
  <2>2. ~waits /\ get' = get
    BY <1>5, <1>14, <2>1
  <2>3. get.c # NoConn => common'.tx = common.tx \/ common'.tx # get.c
    BY <1>10, <1>14
  <2>4. PendingOf(events', get, common'.tx)
    <3>1. get.c = NoConn => PendingOf(events', get, common'.tx)
      BY DEF PendingOf
    <3> QED BY <1>3, <2>3, <3>1, PendingStays
  <2>5. get.st = "connected" => chan'[get.c] = chan[get.c]
    BY <1>7, <1>14, <2>1, ConnReading
  <2>6. Standing(common', outbox, get, got, chan'[get.c])
    <3>1. CASE get.c # NoConn
      BY <1>10, <2>3, <2>5, <3>1, StandingStays DEF StreamsInv
    <3>2. CASE get.c = NoConn
      BY <1>10, <2>1, <3>2 DEF StreamsInv, Standing
    <3> QED BY <3>1, <3>2
  <2> QED BY <1>1, <1>2, <1>12, <2>2, <2>4, <2>6 DEF StreamsInv
<1> QED BY <1>13, <1>14

(* An action of a request on a connection of its own.                      *)
LEMMA OnPostConn ==
  ASSUME StreamsInv, StreamsTypeOK', NEW r \in Reqs,
         UNCHANGED <<common, outbox, get, got, router>>,
         \A d \in Conn : d # post[r].c => chan'[d] = chan[d],
         post[r].c \in Conn => chan'[post[r].c].st = chan[post[r].c].st \/ chan'[post[r].c].st # "unused",
         \A x \in Reqs : post'[x].c = post[x].c,
         EventConns(events') \subseteq EventConns(events) \cup {NoConn}, PendingOf(events', get, common.tx)
  PROVE  StreamsInv'
<1>1. Fresh' \subseteq Fresh \ {} /\ {} \subseteq Fresh
  BY OneChannel
<1>2. RouterConns' \subseteq RouterConns /\ PostConns' \subseteq PostConns \cup {}
  BY DEF RouterConns, PostConns
<1>3. get.st = "connected" => chan'[get.c] = chan[get.c]
  <2>1. get.c # NoConn => get.c # post[r].c
    BY DEF StreamsInv, Alone, PostConns
  <2> QED BY <2>1, ConnReading
<1> QED BY <1>1, <1>2, <1>3, Elsewhere

(* The types of the requests.                                              *)
LEMMA PostTypes ==
  ASSUME StreamsInv
  PROVE  /\ StreamsTypeOK /\ chan \in [Conn -> Channel] /\ post \in [Reqs -> PostState]
         /\ \A r \in Reqs : post[r] \in PostState /\ post[r].c \in 0 .. MaxConns
BY DEF StreamsInv, StreamsTypeOK, PostState

(* The clients: a request is posted.                                       *)
LEMMA PostRequestKeeps == ASSUME StreamsInv, NEW r \in Reqs, PostRequest(r) PROVE StreamsInv'
<1> DEFINE e == Event("establish", r, NoId, NoId, NoConn)
<1>1. StreamsTypeOK'
  BY PostRequestType DEF StreamsInv
<1>2. e \in SessionEvent /\ e.c = NoConn /\ Emit(e)
  <2>1. Event("establish", r, NoId, NoId, NoConn) \in SessionEvent
    BY Nothing, EventType
  <2>2. Event("establish", r, NoId, NoId, NoConn).c = NoConn
    BY DEF Event
  <2>3. Emit(Event("establish", r, NoId, NoId, NoConn))
    BY DEF PostRequest
  <2> QED BY <2>1, <2>2, <2>3
<1> HIDE DEF e
<1>3. PendingOf(events', get, common.tx) /\ EventConns(events') \subseteq EventConns(events) \cup {NoConn}
  BY <1>2, EventsSent
<1>4. UNCHANGED <<common, outbox, get, got, router, chan>>
  BY DEF PostRequest, workerVars
<1>5. \A x \in Reqs : post'[x].c = post[x].c
  BY PostTypes DEF PostRequest, PostState
<1> QED BY <1>1, <1>3, <1>4, <1>5, OnPostConn

(* Its message is pushed once its stream is established.                   *)
LEMMA PushMessageKeeps == ASSUME StreamsInv, NEW r \in Reqs, PushMessage(r) PROVE StreamsInv'
<1> DEFINE e == Event("message", r, post[r].h, NoId, NoConn)
<1>1. StreamsTypeOK'
  BY PushMessageType DEF StreamsInv
<1>2. e \in SessionEvent /\ e.c = NoConn /\ Emit(e)
  <2>1. post[r].h \in Int
    BY PostTypes DEF PostState
  <2>2. Event("message", r, post[r].h, NoId, NoConn) \in SessionEvent
    BY <2>1, Nothing, EventType
  <2>3. Event("message", r, post[r].h, NoId, NoConn).c = NoConn
    BY DEF Event
  <2>4. Emit(Event("message", r, post[r].h, NoId, NoConn))
    BY DEF PushMessage
  <2> QED BY <2>2, <2>3, <2>4
<1> HIDE DEF e
<1>3. PendingOf(events', get, common.tx) /\ EventConns(events') \subseteq EventConns(events) \cup {NoConn}
  BY <1>2, EventsSent
<1>4. UNCHANGED <<common, outbox, get, got, router>>
  BY DEF PushMessage, workerVars
<1>5. \A x \in Reqs : post'[x].c = post[x].c
  BY PostTypes DEF PushMessage, PostState
<1>6. /\ \A d \in Conn : d # post[r].c => chan'[d] = chan[d]
      /\ post[r].c \in Conn => chan'[post[r].c].st = chan[post[r].c].st
  BY PostTypes DEF PushMessage, Channel
<1> QED BY <1>1, <1>3, <1>4, <1>5, <1>6, OnPostConn

(* The client goes before the stream is established.                       *)
LEMMA AbandonPostKeeps == ASSUME StreamsInv, NEW r \in Reqs, AbandonPost(r) PROVE StreamsInv'
<1>1. StreamsTypeOK'
  BY AbandonPostType DEF StreamsInv
<1>2. UNCHANGED <<common, outbox, get, got, router, events>>
  BY DEF AbandonPost, workerVars
<1>3. PendingOf(events', get, common.tx) /\ EventConns(events') \subseteq EventConns(events)
  BY <1>2, EventsSame
<1>4. \A x \in Reqs : post'[x].c = post[x].c
  BY PostTypes DEF AbandonPost, PostState
<1>5. /\ \A d \in Conn : d # post[r].c => chan'[d] = chan[d]
      /\ post[r].c \in Conn => chan'[post[r].c].st = chan[post[r].c].st \/ chan'[post[r].c].st # "unused"
  BY PostTypes DEF AbandonPost, Closed
<1> QED BY <1>1, <1>2, <1>3, <1>4, <1>5, OnPostConn

(* The client asks to cancel a request.                                    *)
LEMMA CancelByClientKeeps == ASSUME StreamsInv, NEW r \in Reqs, CancelByClient(r) PROVE StreamsInv'
<1> DEFINE e == Event("cancel", r, NoId, NoId, NoConn)
<1>1. StreamsTypeOK'
  BY CancelByClientType DEF StreamsInv
<1>2. e \in SessionEvent /\ e.c = NoConn /\ Emit(e)
  BY Nothing, EventType DEF CancelByClient
<1> HIDE DEF e
<1>3. PendingOf(events', get, common.tx) /\ EventConns(events') \subseteq EventConns(events) \cup {NoConn}
  BY <1>2, EventsSent
<1>4. UNCHANGED <<common, outbox, get, got, router, chan, post>>
  BY DEF CancelByClient, workerVars
<1> QED BY <1>1, <1>3, <1>4, OnPostConn

(* The application asks to close a stream.                                 *)
LEMMA AskCloseKeeps ==
  ASSUME StreamsInv, NEW t \in {"closeSse", "closeReq"}, NEW h \in HttpId \cup {NoId}, AskClose(t, h)
  PROVE  StreamsInv'
<1> DEFINE e == Event(t, NoId, h, NoId, NoConn)
<1>1. StreamsTypeOK' /\ h \in Int
  BY AskCloseType, Nothing, StreamsAssumption DEF StreamsInv, HttpId
<1>2. e \in SessionEvent /\ e.c = NoConn /\ Emit(e)
  BY <1>1, Nothing, EventType DEF AskClose
<1> HIDE DEF e
<1>3. PendingOf(events', get, common.tx) /\ EventConns(events') \subseteq EventConns(events) \cup {NoConn}
  BY <1>2, EventsSent
<1>4. UNCHANGED <<common, outbox, get, got, router, chan, post>>
  BY DEF AskClose, workerVars
<1>5. RouterConns' \subseteq RouterConns \cup {NoConn} /\ PostConns' \subseteq PostConns
  BY <1>4 DEF RouterConns, PostConns
<1> QED BY <1>1, <1>3, <1>4, <1>5, NoConnTouched

(* The client of a request reads an event.                                 *)
LEMMA PostEventKeeps == ASSUME StreamsInv, NEW r \in Reqs, PostEvent(r) PROVE StreamsInv'
<1> DEFINE c == post[r].c
           ev == Head(chan[c].q)
<1>1. StreamsTypeOK'
  BY PostEventType DEF StreamsInv
<1>2. UNCHANGED <<common, outbox, get, got, router, events>>
  BY DEF PostEvent, workerVars
<1>3. PendingOf(events', get, common.tx) /\ EventConns(events') \subseteq EventConns(events)
  BY <1>2, EventsSame
<1>4. \/ chan' = [chan EXCEPT ![c].prime = FALSE]
      \/ chan' = [chan EXCEPT ![c] = Closed]
      \/ chan' = [chan EXCEPT ![c].q = Tail(chan[c].q)]
  BY DEF PostEvent
<1>5. \/ post' = [post EXCEPT ![r].seen = 0]
      \/ \E st : post' = [post EXCEPT ![r].seen = ev.i, ![r].st = st]
  BY DEF PostEvent
<1>6. c \in 0 .. MaxConns
  BY PostTypes
<1> HIDE DEF c, ev
<1>7. /\ \A d \in Conn : d # c => chan'[d] = chan[d]
      /\ c \in Conn => chan'[c].st = chan[c].st \/ chan'[c].st # "unused"
  BY <1>4, PostTypes DEF Closed, Channel
<1>8. \A x \in Reqs : post'[x].c = post[x].c
  BY <1>5, PostTypes DEF PostState
<1> QED BY <1>1, <1>2, <1>3, <1>7, <1>8, OnPostConn DEF c

(* The stream of a request ends.                                           *)
LEMMA PostEndsKeeps == ASSUME StreamsInv, NEW r \in Reqs, PostEnds(r) PROVE StreamsInv'
<1>1. StreamsTypeOK'
  BY PostEndsType DEF StreamsInv
<1>2. UNCHANGED <<common, outbox, get, got, router, events>>
  BY DEF PostEnds, workerVars
<1>3. PendingOf(events', get, common.tx) /\ EventConns(events') \subseteq EventConns(events)
  BY <1>2, EventsSame
<1>4. \A x \in Reqs : post'[x].c = post[x].c
  BY PostTypes DEF PostEnds, PostState
<1>5. /\ \A d \in Conn : d # post[r].c => chan'[d] = chan[d]
      /\ post[r].c \in Conn => chan'[post[r].c].st # "unused"
  BY PostTypes DEF PostEnds, Closed
<1> QED BY <1>1, <1>2, <1>3, <1>4, <1>5, OnPostConn

(* The connection of a request is lost.                                    *)
LEMMA PostLostKeeps == ASSUME StreamsInv, NEW r \in Reqs, PostLost(r) PROVE StreamsInv'
<1>1. StreamsTypeOK'
  BY PostLostType DEF StreamsInv
<1>2. UNCHANGED <<common, outbox, get, got, router, events, chan>>
  BY DEF PostLost, workerVars
<1>3. PendingOf(events', get, common.tx) /\ EventConns(events') \subseteq EventConns(events)
  BY <1>2, EventsSame
<1>4. \A x \in Reqs : post'[x].c = post[x].c
  BY PostTypes DEF PostLost, PostState
<1> QED BY <1>1, <1>2, <1>3, <1>4, OnPostConn

(* The client of a request reconnects, on a connection never used.         *)
LEMMA ResumePostKeeps == ASSUME StreamsInv, NEW r \in Reqs, ResumePost(r) PROVE StreamsInv'
<1> DEFINE c == NewConn
           e == Event("resume", r, post[r].h, post[r].seen, c)
<1>1. StreamsTypeOK'
  BY ResumePostType DEF StreamsInv
<1>2. c \in Fresh /\ c \in Conn /\ c \in 0 .. MaxConns
  BY FreshConn DEF ResumePost
<1>3. /\ UNCHANGED <<common, outbox, get, got, router>> /\ Emit(e)
      /\ post' = [post EXCEPT ![r] = [@ EXCEPT !.st = "resuming", !.c = c]]
      /\ chan' = [chan EXCEPT ![c].st = "asked"]
  BY DEF ResumePost, workerVars
<1> HIDE DEF c
<1>4. e \in SessionEvent /\ e.c = c
  BY <1>2, EventType, PostTypes DEF PostState
<1> HIDE DEF e
<1>5. PendingOf(events', get, common.tx) /\ EventConns(events') \subseteq EventConns(events) \cup {c}
  BY <1>2, <1>3, <1>4, EventsSent
<1>6. (\A d \in Conn : d # c => chan'[d] = chan[d]) /\ chan'[c].st # "unused"
  BY <1>2, <1>3, PostTypes DEF Channel
<1>7. Fresh' \subseteq Fresh \ {c} /\ {c} \subseteq Fresh
  BY <1>2, <1>6, OneChannel
<1>8. RouterConns' \subseteq RouterConns
  BY <1>3 DEF RouterConns
<1>9. PostConns' \subseteq PostConns \cup {c}
  <2>1. \A x \in Reqs : post'[x].c = post[x].c \/ post'[x].c \in {c}
    BY <1>3, PostTypes DEF PostState
  <2> QED BY <2>1, PostConnsGrow
<1>10. get.st = "connected" => chan'[get.c] = chan[get.c]
  <2>1. get.c # c
    BY <1>2 DEF StreamsInv, NotYetUsed
  <2> QED BY <1>6, <2>1, ConnReading
<1> QED BY <1>1, <1>3, <1>5, <1>7, <1>8, <1>9, <1>10, Elsewhere

(* The client of the standalone stream connects: the resume it sends       *)
(* carries the last event it saw.                                          *)
LEMMA GetConnectKeeps == ASSUME StreamsInv, GetConnect PROVE StreamsInv'
<1> DEFINE c == NewConn
           e == Event("resume", NoId, NoId, get.last, c)
<1>1. StreamsTypeOK' /\ StreamsTypeOK
  BY GetConnectType DEF StreamsInv
<1>2. c \in Fresh /\ c \in Conn /\ c \in 0 .. MaxConns /\ c # NoConn
  BY FreshConn DEF GetConnect
<1>3. /\ UNCHANGED <<common, outbox, got, router, post>> /\ Emit(e)
      /\ get' = [get EXCEPT !.st = IF @ = "start" THEN "connecting" ELSE "retrying", !.c = c]
      /\ chan' = [chan EXCEPT ![c].st = "asked"]
  BY DEF GetConnect, workerVars
<1> HIDE DEF c
<1>4. get \in GetState /\ get.last \in Int /\ events \in Seq(SessionEvent)
  BY <1>1 DEF StreamsTypeOK, GetState
<1>5. e \in SessionEvent /\ e.c = c /\ e.t = "resume" /\ e.h = NoId /\ e.i = get.last
  <2>1. Event("resume", NoId, NoId, get.last, c) \in SessionEvent
    BY <1>2, <1>4, Nothing, EventType
  <2> QED BY <2>1 DEF Event
<1> HIDE DEF e
<1>6. get'.c = c /\ get'.last = get.last /\ get'.st \in {"connecting", "retrying"}
  BY <1>3, <1>4 DEF GetState
<1>7. c \notin {common.tx, get.c} \cup RouterConns \cup PostConns \cup EventConns(events)
  BY <1>2 DEF StreamsInv, NotYetUsed
<1>8. events' = Append(events, e) /\ EventConns(events') = EventConns(events) \cup {c}
  <2>1. events' = Append(events, e) /\ PendingOf(events, get, common.tx)
    BY <1>3 DEF Emit, StreamsInv
  <2> QED BY <1>4, <1>5, <2>1, PendingAppend
<1>9. PendingOf(events', get', common.tx)
  BY <1>4, <1>5, <1>6, <1>7, <1>8, PendingFresh
<1>10. Fresh' \subseteq Fresh \ {c}
  <2>1. (\A d \in Conn : d # c => chan'[d] = chan[d]) /\ chan'[c].st # "unused"
    BY <1>2, <1>3, PostTypes DEF Channel
  <2> QED BY <1>2, <2>1, OneChannel
<1>11. RouterConns' = RouterConns /\ PostConns' = PostConns
  BY <1>3 DEF RouterConns, PostConns
<1>12. NotYetUsed' /\ Alone'
  BY <1>3, <1>6, <1>7, <1>8, <1>10, <1>11 DEF StreamsInv, NotYetUsed, Alone
<1>13. Standing(common, outbox, get', got, chan'[get'.c])
  <2>1. Standing(common, outbox, get, got, chan[get.c])
    BY DEF StreamsInv
  <2>2. get'.st # "connected" /\ get'.c # NoConn
    BY <1>2, <1>6
  <2> QED BY <1>6, <2>1, <2>2, StandingApart
<1> QED BY <1>1, <1>3, <1>9, <1>12, <1>13 DEF StreamsInv

(* The client gives its connection up.                                     *)
LEMMA GetGivesUp ==
  ASSUME StreamsInv, StreamsTypeOK', UNCHANGED <<common, outbox, got, router, post, events>>,
         get'.c = get.c, get'.last = get.last, get'.st \in {"waiting", "off"}, Fresh' \subseteq Fresh
  PROVE  StreamsInv'
<1>1. PendingOf(events, get', common.tx)
  BY PendingStays DEF StreamsInv
<1>2. RouterConns' = RouterConns /\ PostConns' = PostConns
  BY DEF RouterConns, PostConns
<1>3. NotYetUsed' /\ Alone'
  BY <1>2 DEF StreamsInv, NotYetUsed, Alone
<1>4. Standing(common, outbox, get', got, chan'[get'.c])
  BY StandingApart DEF StreamsInv
<1> QED BY <1>1, <1>3, <1>4 DEF StreamsInv

(* Its connection is refused or lost.                                      *)
LEMMA GetFailsOrLostKeeps == ASSUME StreamsInv, GetFails \/ GetLost PROVE StreamsInv'
<1>1. StreamsTypeOK' /\ get \in GetState
  BY GetFailsOrLostType DEF StreamsInv, StreamsTypeOK
<1>2. UNCHANGED <<common, outbox, got, router, post, events, chan>>
  BY DEF GetFails, GetLost, workerVars
<1>3. get'.c = get.c /\ get'.last = get.last /\ get'.st \in {"waiting", "off"}
  BY <1>1 DEF GetFails, GetLost, GetState
<1>4. Fresh' \subseteq Fresh
  BY <1>2 DEF Fresh
<1> QED BY <1>1, <1>2, <1>3, <1>4, GetGivesUp

(* Its stream ends.                                                        *)
LEMMA GetEndsKeeps == ASSUME StreamsInv, GetEnds PROVE StreamsInv'
<1>1. StreamsTypeOK' /\ get \in GetState /\ chan \in [Conn -> Channel]
  BY GetEndsType DEF StreamsInv, StreamsTypeOK
<1>2. UNCHANGED <<common, outbox, got, router, post, events>> /\ chan' = [chan EXCEPT ![get.c] = Closed]
  BY DEF GetEnds, workerVars
<1>3. get'.c = get.c /\ get'.last = get.last /\ get'.st = "waiting"
  BY <1>1 DEF GetEnds, GetState
<1>4. Fresh' \subseteq Fresh
  <2>1. (\A d \in Conn : d # get.c => chan'[d] = chan[d]) /\ (get.c \in Conn => chan'[get.c].st # "unused")
    BY <1>1, <1>2 DEF Closed
  <2> QED BY <2>1, OneChannel
<1> QED BY <1>1, <1>2, <1>3, <1>4, GetGivesUp

(* A connection vanishes and the worker finds out.                         *)
LEMMA VanishOrNoticeKeeps == ASSUME StreamsInv, NEW c \in Conn, Vanish(c) \/ Notice(c) PROVE StreamsInv'
<1>1. StreamsTypeOK' /\ chan \in [Conn -> Channel]
  BY VanishOrNoticeType DEF StreamsInv, StreamsTypeOK
<1>2. /\ UNCHANGED <<common, outbox, get, got, router, post, events>> /\ Abandoned(c)
      /\ chan' = [chan EXCEPT ![c] = Closed] \/ chan' = [chan EXCEPT ![c].q = Tail(chan[c].q)]
  BY DEF Vanish, Notice, workerVars, client
<1>3. get.st = "connected" => get.c # c
  BY <1>2 DEF Abandoned
<1>4. /\ \A d \in Conn : d # c => chan'[d] = chan[d]
      /\ chan'[c].st = chan[c].st \/ chan'[c].st # "unused"
  BY <1>1, <1>2 DEF Closed, Channel
<1>5. Fresh' \subseteq Fresh \ {} /\ {} \subseteq Fresh
  BY <1>4, OneChannel
<1>6. RouterConns' \subseteq RouterConns /\ PostConns' \subseteq PostConns \cup {}
  BY <1>2 DEF RouterConns, PostConns
<1>7. PendingOf(events', get, common.tx) /\ EventConns(events') \subseteq EventConns(events)
  BY <1>2, EventsSame
<1>8. get.st = "connected" => chan'[get.c] = chan[get.c]
  BY <1>3, <1>4, ConnReading
<1> QED BY <1>1, <1>2, <1>5, <1>6, <1>7, <1>8, Elsewhere

(* The client reads: nothing between what it had and what it gets was in   *)
(* the cache.                                                              *)
LEMMA GetEventKeeps ==
  ASSUME StreamsInv, GetEvent
  PROVE  StreamsInv' /\ (got' # got => \A i \in (got + 1) .. (got' - 1) : Evicted(i))
<1> DEFINE c == get.c
<1>1. get.st = "connected" /\ c # NoConn /\ c \in Conn /\ chan[c] \in Channel /\ chan[c].q \in Seq(StreamMessage)
  BY ConnReading DEF GetEvent
<1>2. StreamsTypeOK' /\ StreamsTypeOK
  BY <1>1, GetEventType DEF StreamsInv
<1>3. /\ get \in GetState /\ chan \in [Conn -> Channel] /\ got \in Int /\ OutboxOK(outbox)
      /\ common.cache \in Seq(StreamMessage) /\ Standing(common, outbox, get, got, chan[c])
  BY <1>2 DEF StreamsInv, StreamsTypeOK
<1>4. UNCHANGED <<common, outbox, router, post, events>>
  BY DEF GetEvent, workerVars
<1>5. RouterConns' \subseteq RouterConns /\ PostConns' \subseteq PostConns \cup {} /\ {} \subseteq Fresh
  BY <1>4 DEF RouterConns, PostConns
<1>6. c \notin EventConns(events)
  BY <1>1 DEF StreamsInv, PendingOf, EventConns
<1>7. CASE chan[c].prime /\ chan' = [chan EXCEPT ![c].prime = FALSE] /\ get' = [get EXCEPT !.last = 0] /\ UNCHANGED got
  <2> HIDE DEF c
  <2>1. chan'[c].q = chan[c].q /\ chan'[c].prime = FALSE /\ chan'[c].st = chan[c].st /\ \A d \in Conn : d # c => chan'[d] = chan[d]
    BY <1>1, <1>3, <1>7 DEF Channel
  <2>2. get'.c = get.c /\ get'.st = get.st /\ get'.last = 0
    BY <1>3, <1>7 DEF GetState
  <2>3. Fresh' \subseteq Fresh \ {}
    BY <2>1, OneChannel
  <2>4. NotYetUsed' /\ Alone'
    BY <1>4, <1>5, <2>2, <2>3, UsesStay
  <2>5. PendingOf(events, get', common.tx)
    BY <1>6, <2>2, PendingNone DEF c
  <2>6. Connected(common, outbox, get, got, chan[c]) /\ got = NoId
    BY <1>1, <1>3, <1>7 DEF Standing, Connected
  <2>7. Connected(common, outbox, get', got, chan'[c])
    BY <2>1, <2>2, <2>6 DEF Connected
  <2>8. Standing(common, outbox, get', got, chan'[get'.c])
    BY <1>1, <1>3, <2>2, <2>6, <2>7 DEF Standing, c
  <2> QED BY <1>2, <1>4, <1>7, <2>4, <2>5, <2>8 DEF StreamsInv
<1>8. CASE /\ ~chan[c].prime /\ chan[c].q # <<>> /\ chan' = [chan EXCEPT ![c].q = Tail(chan[c].q)]
           /\ get' = [get EXCEPT !.last = Head(chan[c].q).i] /\ got' = Head(chan[c].q).i
  <2> HIDE DEF c
  <2>1. Head(chan[c].q) = chan[c].q[1]
    BY <1>1, <1>8
  <2>2. chan'[c].q = Tail(chan[c].q) /\ chan'[c].prime = chan[c].prime /\ chan'[c].st = chan[c].st /\ \A d \in Conn : d # c => chan'[d] = chan[d]
    BY <1>1, <1>3, <1>8 DEF Channel
  <2>3. get'.c = get.c /\ get'.st = get.st /\ get'.last = chan[c].q[1].i /\ got' = chan[c].q[1].i
    BY <1>3, <1>8, <2>1 DEF GetState
  <2>4. Fresh' \subseteq Fresh \ {}
    BY <2>2, OneChannel
  <2>5. NotYetUsed' /\ Alone'
    BY <1>4, <1>5, <2>3, <2>4, UsesStay
  <2>6. PendingOf(events, get', common.tx)
    BY <1>6, <2>3, PendingNone DEF c
  <2>7. /\ Standing(common, outbox, get', chan[c].q[1].i, chan'[c])
        /\ chan[c].q[1].i <= got + 1 \/ (common.cache # <<>> /\ chan[c].q[1].i <= common.cache[1].i)
    <3> DEFINE ch == chan[c]
               ch2 == chan'[c]
               g2 == get'
    <3>1. /\ ch \in Channel /\ ch.q # <<>> /\ ~ch.prime /\ get.st = "connected" /\ get \in GetState /\ got \in Int
          /\ Standing(common, outbox, get, got, ch) /\ common.cache \in Seq(StreamMessage) /\ OutboxOK(outbox)
      BY <1>1, <1>3, <1>8
    <3>2. /\ ch2.q = Tail(ch.q) /\ ch2.prime = ch.prime /\ ch2.st = ch.st
          /\ g2.c = get.c /\ g2.st = get.st /\ g2.last = ch.q[1].i
      BY <2>2, <2>3
    <3> HIDE DEF ch, ch2, g2
    <3>3. /\ Standing(common, outbox, g2, ch.q[1].i, ch2)
          /\ ch.q[1].i <= got + 1 \/ (common.cache # <<>> /\ ch.q[1].i <= common.cache[1].i)
      BY <3>1, <3>2, StandingReads
    <3> QED BY <3>3 DEF ch, ch2, g2
  <2>8. StreamsInv'
    BY <1>2, <1>4, <2>3, <2>5, <2>6, <2>7 DEF StreamsInv, c
  <2>9. got' \in Nat /\ (common.cache # <<>> => common.cache[1].i \in Nat)
    <3>1. Head(chan[c].q).i \in Nat
      BY <1>1, <1>2, <1>3, <1>8, ReadType DEF GetState, c
    <3> QED BY <1>3, <1>8, <3>1, RunEnds DEF Standing
  <2>10. ASSUME NEW i \in (got + 1) .. (got' - 1) PROVE Evicted(i)
    BY <1>3, <2>3, <2>7, <2>9 DEF Evicted
  <2> QED BY <2>8, <2>10
<1> QED BY <1>7, <1>8 DEF GetEvent

(* The invariant holds at first.                                           *)
LEMMA StreamsInvInitially == StreamsInit => StreamsInv
<1> SUFFICES ASSUME StreamsInit PROVE StreamsInv
  OBVIOUS
<1>1. StreamsTypeOK
  BY StreamsInitType
<1>2. NoConn \notin Fresh
  BY Nothing DEF Fresh
<1>3. /\ RouterConns = {} /\ PostConns \subseteq {NoConn} /\ EventConns(events) = {}
      /\ common.tx = NoConn /\ common.cache = <<>> /\ get.c = NoConn /\ get.st = "start" /\ get.last = NoId /\ got = NoId
  BY DEF StreamsInit, RouterConns, PostConns, EventConns
<1>4. NotYetUsed /\ Alone
  BY <1>2, <1>3 DEF NotYetUsed, Alone
<1>5. PendingOf(events, get, common.tx)
  BY <1>3 DEF PendingOf
<1>6. Standing(common, outbox, get, got, chan[get.c])
  BY <1>3, Nothing DEF Standing, Runs, NextIndex
<1> QED BY <1>1, <1>4, <1>5, <1>6 DEF StreamsInv

(* Every step keeps it.                                                    *)
LEMMA StreamsInvPreserved == StreamsInv /\ [StreamsNext]_streamVars => StreamsInv'
<1> SUFFICES ASSUME StreamsInv, [StreamsNext]_streamVars PROVE StreamsInv'
  OBVIOUS
<1>1. CASE UNCHANGED streamVars
  BY <1>1 DEF streamVars, workerVars, client, StreamsInv, StreamsTypeOK, NotYetUsed, Alone, Fresh, RouterConns, PostConns
<1>2. CASE StreamsWorkerStep
  BY <1>2, RespondKeeps, FlushKeeps, EstablishKeeps, ClientMessageKeeps, CancelRequestKeeps,
     ResumeRequestWiseKeeps, ResumeOrShadowCommonKeeps, CloseSseStreamKeeps, CloseRequestWiseKeeps DEF StreamsWorkerStep
<1>3. CASE \/ \E r \in Reqs, t \in {"progress", "cancelled"} : Notify(r, t)
           \/ ServerInitiated
           \/ \E h \in DOMAIN router : Evict(h)
           \/ Quit
  BY <1>3, NotifyKeeps, ServerInitiatedKeeps, EvictKeeps, QuitKeeps
<1>4. ASSUME NEW r \in Reqs, \/ PostRequest(r) \/ PushMessage(r) \/ AbandonPost(r) \/ CancelByClient(r)
                             \/ PostEvent(r) \/ PostEnds(r) \/ PostLost(r) \/ ResumePost(r)
      PROVE  StreamsInv'
  BY <1>4, PostRequestKeeps, PushMessageKeeps, AbandonPostKeeps, CancelByClientKeeps,
     PostEventKeeps, PostEndsKeeps, PostLostKeeps, ResumePostKeeps
<1>5. CASE \/ \E t \in {"closeSse", "closeReq"}, h \in HttpId \cup {NoId} : AskClose(t, h)
           \/ GetConnect \/ GetFails \/ GetEvent \/ GetLost \/ GetEnds
           \/ \E c \in Conn : Vanish(c) \/ Notice(c)
  BY <1>5, AskCloseKeeps, GetConnectKeeps, GetFailsOrLostKeeps, GetEventKeeps, GetEndsKeeps, VanishOrNoticeKeeps
<1> QED BY <1>1, <1>2, <1>3, <1>4, <1>5 DEF StreamsNext

(* Only the client reading from its connection delivers.                   *)
LEMMA OnlyReadingDelivers ==
  ASSUME [StreamsNext]_streamVars, got' # got
  PROVE  GetEvent
BY DEF StreamsNext, StreamsWorkerStep, streamVars, workerVars, client, Respond, Flush, EstablishRequestWiseChannel,
   ClientMessage, CancelRequest, ResumeRequestWise, ResumeOrShadowCommon, CloseSseStream, CloseRequestWiseChannel,
   Notify, ServerInitiated, Evict, Quit, PostRequest, PushMessage, AbandonPost, CancelByClient, PostEvent, PostEnds,
   PostLost, ResumePost, AskClose, GetConnect, GetFails, GetLost, GetEnds, Vanish, Notice

(* However often the standalone stream is lost and resumed, the client     *)
(* misses an event only if the bounded cache of the worker no longer held  *)
(* it (SkipsOnlyEvicted).                                                  *)
THEOREM SkipsCorrect == StreamsSpec => SkipsOnlyEvicted
<1>1. StreamsInv /\ [StreamsNext]_streamVars => [got' # got => \A i \in (got + 1) .. (got' - 1) : Evicted(i)]_streamVars
  BY OnlyReadingDelivers, GetEventKeeps
<1> QED BY <1>1, StreamsInvInitially, StreamsInvPreserved, PTL DEF StreamsSpec, SkipsOnlyEvicted
=============================================================================
