---------------------------- MODULE HttpSessions ----------------------------
(***************************************************************************)
(* The sessions of the streamable HTTP server (StreamableHttpService with  *)
(* LocalSessionManager) and the external store they are restored from.     *)
(*                                                                         *)
(* Every HTTP request is a task that stops at its awaits; the map of       *)
(* sessions is behind a read-write lock that a request keeps for reading   *)
(* while it waits for the session's worker.  Each allocation of a session  *)
(* is a new worker (Wid) with its own service task; the same session id    *)
(* may be allocated again by a restore.  The client can go away at any     *)
(* await, and the server can be restarted: everything but the store is     *)
(* then gone.                                                              *)
(***************************************************************************)
EXTENDS Integers, FiniteSets

CONSTANTS
  Tasks,        \* HTTP requests in flight at a time
  Sids,         \* session ids
  MaxWorkers,   \* bound: workers ever allocated
  MaxFaults,    \* bound: requests abandoned, store or service failures, restarts
  None

Wid == 1 .. MaxWorkers
(* An entry of pending_restores: the task that restores, and what came of  *)
(* it.  "no", the store does not know the session, and "failed", the       *)
(* restore was given up half way, are both Some(false) on the channel.     *)
Entries == [by : Tasks, result : {"none", "yes", "no", "failed"}]

ASSUME SessionsAssumption ==
  /\ IsFiniteSet(Tasks) /\ MaxWorkers \in Nat /\ MaxFaults \in Nat
  /\ None \notin Sids \cup Entries

VARIABLES
  sessions,   \* session id -> worker whose handle is in the map, or 0
  worker,     \* worker -> [sid, st, told]: told once it was asked to stop
  service,    \* worker -> the task of spawn_session_worker
  store,      \* the external session store
  pending,    \* pending_restores: session id -> [by, result], or None
  task,       \* task -> [op, pc, sid, w]
  readers,    \* tasks that hold the read lock of the map
  issued,     \* session ids a client was given
  ended,      \* session ids whose DELETE has been answered
  faults

vars == <<sessions, worker, service, store, pending, task, readers, issued, ended, faults>>

Idle == [op |-> "none", pc |-> "idle", sid |-> None, w |-> 0]

Init ==
  /\ sessions = [s \in Sids |-> 0]
  /\ worker = [w \in Wid |-> [sid |-> None, st |-> "unused", told |-> FALSE]]
  /\ service = [w \in Wid |-> "none"]
  /\ store = {} /\ pending = [s \in Sids |-> None]
  /\ task = [t \in Tasks |-> Idle]
  /\ readers = {} /\ issued = {} /\ ended = {} /\ faults = 0

----------------------------------------------------------------------------
NewWid == CHOOSE w \in Wid : worker[w].st = "unused" /\ \A v \in 1 .. w - 1 : worker[v].st # "unused"
(* Bound: a request is taken only if each one in flight can get a worker   *)
Spare == Cardinality({w \in Wid : worker[w].st = "unused"})
           > Cardinality({t \in Tasks : task[t].op = "use"})

(* create_local_session: handle into the map, worker waiting for initialize *)
Allocate(s) ==
  /\ sessions' = [sessions EXCEPT ![s] = NewWid]
  /\ worker' = [worker EXCEPT ![NewWid] = [sid |-> s, st |-> "init", told |-> FALSE]]

Told(w) == IF w = 0 THEN worker ELSE [worker EXCEPT ![w].told = TRUE]

(* The state of the worker behind a handle; no handle is as good as none   *)
StateOf(w) == IF w = 0 THEN "quit" ELSE worker[w].st

Answers == {"200", "202", "422", "500", "NotFound", "AlreadyPresent"}

At(t, op, pc) == task[t].op \in op /\ task[t].pc = pc
Goto(t, pc) == task' = [task EXCEPT ![t].pc = pc]

(* The task of t ends with an answer                                        *)
Answer(t, code) == task' = [task EXCEPT ![t] = [Idle EXCEPT !.pc = code]]

(* What a task that finds or awaits the outcome of a restore does next: it *)
(* serves its request, or answers 404 ("refused" where a restore failed).  *)
AfterRestore(result) ==
  CASE result = "yes" -> "serve" [] result = "no" -> "404" [] result = "failed" -> "refused"

(* Mutants of DropGuard: whoever waited is answered "not found" whatever    *)
(* came of the restore; nobody is woken.                                    *)
DropGuardAlwaysNo(t, result, mine) ==
  LET s == task[t].sid IN
  /\ pending' = [pending EXCEPT ![s].result = result]
  /\ task' = [u \in Tasks |->
                IF u = t THEN mine
                ELSE IF task[u].pc = "wait" /\ task[u].sid = s
                     THEN [task[u] EXCEPT !.pc = "404"] ELSE task[u]]
DropGuardSilently(t, result, mine) ==
  /\ pending' = [pending EXCEPT ![task[t].sid].result = result]
  /\ task' = [task EXCEPT ![t] = mine]

(* PendingRestoreGuard::drop: the tasks that wait are woken with the result *)
(* and the entry, which another task removes later, shows it to newcomers.  *)
DropGuard(t, result, mine) ==
  LET s == task[t].sid IN
  /\ pending' = [pending EXCEPT ![s].result = result]
  /\ task' = [u \in Tasks |->
                IF u = t THEN mine
                ELSE IF task[u].pc = "wait" /\ task[u].sid = s
                     THEN [task[u] EXCEPT !.pc = AfterRestore(result)] ELSE task[u]]

Fault == faults < MaxFaults /\ faults' = faults + 1

----------------------------------------------------------------------------
(* handle_post without a session id: create, initialize, persist.          *)

StartInit(t) ==
  /\ task[t].pc = "idle" /\ Spare
  /\ \E s \in Sids \ issued :
       /\ sessions[s] = 0 /\ \A w \in Wid : worker[w].sid # s
       /\ readers = {}
       /\ Allocate(s)
       /\ task' = [task EXCEPT ![t] = [op |-> "init", pc |-> "service", sid |-> s, w |-> NewWid]]
  /\ UNCHANGED <<service, store, pending, readers, issued, ended, faults>>

(* The message is not a valid initialize request, or no service could be   *)
(* made: the transport is dropped, which cancels the worker; the handle    *)
(* stays in the map.                                                       *)
RefuseInit(t) ==
  /\ At(t, {"init"}, "service") /\ Fault
  /\ worker' = Told(task[t].w)
  /\ \E code \in {"422", "500"} : Answer(t, code)
  /\ UNCHANGED <<sessions, service, store, pending, readers, issued, ended>>

SpawnInit(t) ==
  /\ At(t, {"init"}, "service")
  /\ service' = [service EXCEPT ![task[t].w] = "serving"]
  /\ Goto(t, "initialize")
  /\ UNCHANGED <<sessions, worker, store, pending, readers, issued, ended, faults>>

(* initialize_session: under the read lock, wait for the worker's answer   *)
Initialize(t) ==
  /\ task[t].pc = "initialize"
  /\ LET w == sessions[task[t].sid] IN
     \/ /\ StateOf(w) = "init"
        /\ readers' = readers \cup {t}
        /\ worker' = [worker EXCEPT ![w].st = "handshake"]
        /\ task' = [task EXCEPT ![t].pc = "initializing", ![t].w = w]
        /\ UNCHANGED pending
     \/ /\ StateOf(w) # "init"
        /\ IF task[t].op = "init" THEN Answer(t, "500") /\ UNCHANGED pending
           ELSE DropGuard(t, "failed", [Idle EXCEPT !.pc = "500"])
        /\ UNCHANGED <<readers, worker>>
  /\ UNCHANGED <<sessions, service, store, issued, ended, faults>>

Initialized(t) ==
  /\ task[t].pc = "initializing"
  /\ readers' = readers \ {t}
  /\ LET w == task[t].w IN
     \/ /\ worker[w].st = "run"
        /\ Goto(t, IF task[t].op = "init" THEN "persist" ELSE "initialized")
        /\ UNCHANGED pending
     \/ /\ worker[w].st = "quit"
        /\ IF task[t].op = "init" THEN Answer(t, "500") /\ UNCHANGED pending
           ELSE DropGuard(t, "failed", [Idle EXCEPT !.pc = "500"])
  /\ UNCHANGED <<sessions, worker, service, store, issued, ended, faults>>

(* store.store: a failure is only logged                                   *)
Persist(t) ==
  /\ At(t, {"init"}, "persist")
  /\ \/ store' = store \cup {task[t].sid} /\ UNCHANGED faults
     \/ Fault /\ UNCHANGED store
  /\ issued' = issued \cup {task[t].sid}
  /\ Answer(t, "200")
  /\ UNCHANGED <<sessions, worker, service, pending, readers, ended>>

----------------------------------------------------------------------------
(* handle_post and handle_get with a session id.                           *)

StartUse(t, s) ==
  /\ task[t].pc = "idle" /\ Spare
  /\ task' = [task EXCEPT ![t] = [op |-> "use", pc |-> "has", sid |-> s, w |-> 0]]
  /\ UNCHANGED <<sessions, worker, service, store, pending, readers, issued, ended, faults>>

HasSession(t) ==
  /\ At(t, {"use"}, "has")
  /\ Goto(t, IF sessions[task[t].sid] # 0 THEN "serve" ELSE "restore")
  /\ UNCHANGED <<sessions, worker, service, store, pending, readers, issued, ended, faults>>

(* try_restore_from_store: restore, or wait for the task that restores     *)
EnterRestore(t) ==
  LET s == task[t].sid IN
  /\ At(t, {"use"}, "restore")
  /\ \/ /\ pending[s] = None
        /\ pending' = [pending EXCEPT ![s] = [by |-> t, result |-> "none"]]
        /\ Goto(t, "load")
     \/ /\ pending[s] # None /\ UNCHANGED pending
        /\ Goto(t, IF pending[s].result = "none" THEN "wait" ELSE AfterRestore(pending[s].result))
  /\ UNCHANGED <<sessions, worker, service, store, readers, issued, ended, faults>>

(* The spawned task that removes the entry of a dropped guard              *)
RemovePending(s) ==
  /\ pending[s] # None /\ pending[s].result # "none"
  /\ pending' = [pending EXCEPT ![s] = None]
  /\ UNCHANGED <<sessions, worker, service, store, task, readers, issued, ended, faults>>

Load(t) ==
  /\ At(t, {"use"}, "load")
  /\ \/ /\ task[t].sid \in store /\ Goto(t, "allocate")
        /\ UNCHANGED <<pending, faults>>
     \/ /\ task[t].sid \notin store /\ DropGuard(t, "no", [task[t] EXCEPT !.pc = "404"])
        /\ UNCHANGED faults
     \/ Fault /\ DropGuard(t, "failed", [Idle EXCEPT !.pc = "500"])
  /\ UNCHANGED <<sessions, worker, service, store, readers, issued, ended>>

(* restore_session under the write lock                                    *)
RestoreSession(t) ==
  LET s == task[t].sid IN
  /\ At(t, {"use"}, "allocate") /\ readers = {}
  /\ \/ /\ sessions[s] = 0
        /\ Allocate(s)
        /\ task' = [task EXCEPT ![t].pc = "respawn", ![t].w = NewWid]
        /\ UNCHANGED pending
     \/ /\ sessions[s] # 0
        /\ DropGuard(t, "failed", [Idle EXCEPT !.pc = "AlreadyPresent"])
        /\ UNCHANGED <<sessions, worker>>
  /\ UNCHANGED <<service, store, readers, issued, ended, faults>>

SpawnRestored(t) ==
  /\ At(t, {"use"}, "respawn")
  /\ \/ /\ service' = [service EXCEPT ![task[t].w] = "serving"]
        /\ Goto(t, "initialize")
        /\ UNCHANGED <<worker, pending, faults>>
     \/ /\ Fault /\ worker' = Told(task[t].w)
        /\ DropGuard(t, "failed", [Idle EXCEPT !.pc = "500"])
        /\ UNCHANGED service
  /\ UNCHANGED <<sessions, store, readers, issued, ended>>

(* accept_message(initialized), then the service reports that it runs      *)
FinishRestore(t) ==
  LET w == sessions[task[t].sid] IN
  /\ At(t, {"use"}, "initialized")
  /\ IF StateOf(w) = "run"
     THEN DropGuard(t, "yes", [task[t] EXCEPT !.pc = "serve"])
     ELSE DropGuard(t, "failed", [Idle EXCEPT !.pc = "500"])
  /\ UNCHANGED <<sessions, worker, service, store, readers, issued, ended, faults>>

(* create_stream, accept_message, resume: ask the worker under the lock; a *)
(* worker that still waits for its initialize request quits (UnexpectedEvent) *)
Serve(t) ==
  LET w == sessions[task[t].sid] IN
  /\ At(t, {"use"}, "serve")
  /\ \/ /\ StateOf(w) # "quit"
        /\ readers' = readers \cup {t}
        /\ task' = [task EXCEPT ![t].pc = "asked", ![t].w = w]
        /\ worker' = [worker EXCEPT ![w].st = IF @ = "init" THEN "quit" ELSE @]
     \/ /\ StateOf(w) = "quit"
        /\ Answer(t, "500") /\ UNCHANGED <<worker, readers>>
  /\ UNCHANGED <<sessions, service, store, pending, issued, ended, faults>>

Served(t) ==
  /\ At(t, {"use"}, "asked")
  /\ worker[task[t].w].st # "handshake"
  /\ readers' = readers \ {t}
  /\ Answer(t, IF worker[task[t].w].st = "run" THEN "200" ELSE "500")
  /\ UNCHANGED <<sessions, worker, service, store, pending, issued, ended, faults>>

NotFound(t) ==
  /\ At(t, {"use"}, "404") \/ At(t, {"use"}, "refused")
  /\ Answer(t, "NotFound")
  /\ UNCHANGED <<sessions, worker, service, store, pending, readers, issued, ended, faults>>

(* The client has the answer; the task may take another request            *)
Recycle(t) ==
  /\ task[t].pc \in Answers
  /\ task' = [task EXCEPT ![t] = Idle]
  /\ UNCHANGED <<sessions, worker, service, store, pending, readers, issued, ended, faults>>

----------------------------------------------------------------------------
(* handle_delete: close the session, then forget it.                       *)

StartDelete(t, s) ==
  /\ task[t].pc = "idle"
  /\ task' = [task EXCEPT ![t] = [op |-> "delete", pc |-> "close", sid |-> s, w |-> 0]]
  /\ UNCHANGED <<sessions, worker, service, store, pending, readers, issued, ended, faults>>

(* Mutant of CloseSession: the worker is not told.                          *)
CloseSessionSilently(s) ==
  /\ readers = {}
  /\ sessions' = [sessions EXCEPT ![s] = 0]
  /\ UNCHANGED worker

(* close_session: out of the map under the write lock, then Close          *)
CloseSession(s) ==
  /\ readers = {}
  /\ sessions' = [sessions EXCEPT ![s] = 0]
  /\ worker' = Told(sessions[s])

Close(t) ==
  /\ At(t, {"delete"}, "close")
  /\ CloseSession(task[t].sid)
  /\ Goto(t, "forget")
  /\ UNCHANGED <<service, store, pending, readers, issued, ended, faults>>

Forget(t) ==
  /\ At(t, {"delete"}, "forget")
  /\ \/ store' = store \ {task[t].sid} /\ UNCHANGED faults
     \/ Fault /\ UNCHANGED store
  /\ ended' = ended \cup {task[t].sid}
  /\ Answer(t, "202")
  /\ UNCHANGED <<sessions, worker, service, pending, readers, issued>>

----------------------------------------------------------------------------
(* The worker and its service task.                                        *)

(* The service answers the initialize request, with a result or an error;  *)
(* the worker quits if nobody waits for the result any more.               *)
Handshake(w) ==
  LET awaited == \E t \in Tasks : task[t].pc = "initializing" /\ task[t].w = w IN
  /\ worker[w].st = "handshake" /\ service[w] = "serving"
  /\ \/ worker' = [worker EXCEPT ![w].st = IF awaited THEN "run" ELSE "quit"] /\ UNCHANGED faults
     \/ Fault /\ worker' = [worker EXCEPT ![w].st = "quit"]
  /\ UNCHANGED <<sessions, service, store, pending, task, readers, issued, ended>>

(* Asked to stop, its handle gone from the map, or one of its timeouts     *)
MayQuit(w) ==
  \/ worker[w].told
  \/ sessions[worker[w].sid] # w
  \/ worker[w].st \in {"init", "run"}

WorkerQuits(w) ==
  /\ worker[w].st \in {"init", "handshake", "run"} /\ MayQuit(w)
  /\ worker' = [worker EXCEPT ![w].st = "quit"]
  /\ UNCHANGED <<sessions, service, store, pending, task, readers, issued, ended, faults>>

(* spawn_session_worker: when the service ends, close_session by its id    *)
ServiceEnds(w) ==
  /\ service[w] = "serving" /\ worker[w].st = "quit"
  /\ CloseSession(worker[w].sid)
  /\ service' = [service EXCEPT ![w] = "done"]
  /\ UNCHANGED <<store, pending, task, readers, issued, ended, faults>>

----------------------------------------------------------------------------
(* The client goes away: the request's future is dropped at its await      *)
Abandon(t) ==
  LET restoring == task[t].op = "use" /\ pending[task[t].sid] # None
                   /\ pending[task[t].sid].by = t /\ pending[task[t].sid].result = "none" IN
  /\ task[t].op # "none" /\ Fault
  /\ IF restoring
     THEN DropGuard(t, "failed", Idle)
     ELSE task' = [task EXCEPT ![t] = Idle] /\ UNCHANGED pending
  /\ worker' = IF task[t].pc \in {"service", "respawn"} THEN Told(task[t].w) ELSE worker
  /\ readers' = readers \ {t}
  /\ UNCHANGED <<sessions, service, store, issued, ended>>

(* A new process: the store is all that is left                            *)
Restart ==
  /\ Fault
  /\ sessions' = [s \in Sids |-> 0]
  /\ worker' = [w \in Wid |-> IF worker[w].st = "unused" THEN worker[w]
                               ELSE [sid |-> worker[w].sid, st |-> "quit", told |-> TRUE]]
  /\ service' = [w \in Wid |-> IF service[w] = "none" THEN "none" ELSE "done"]
  /\ pending' = [s \in Sids |-> None] /\ task' = [t \in Tasks |-> Idle] /\ readers' = {}
  /\ UNCHANGED <<store, issued, ended>>

RequestStep(t) ==
  \/ SpawnInit(t) \/ Initialize(t) \/ Initialized(t) \/ Persist(t)
  \/ HasSession(t) \/ EnterRestore(t) \/ Load(t) \/ RestoreSession(t) \/ SpawnRestored(t)
  \/ FinishRestore(t) \/ Serve(t) \/ Served(t) \/ NotFound(t) \/ Close(t) \/ Forget(t)

ServerStep ==
  \/ \E t \in Tasks : RefuseInit(t) \/ RequestStep(t)
  \/ \E w \in Wid : Handshake(w) \/ WorkerQuits(w) \/ ServiceEnds(w)
  \/ \E s \in Sids : RemovePending(s)

Next ==
  \/ ServerStep
  \/ \E t \in Tasks : \/ StartInit(t) \/ Recycle(t) \/ Abandon(t)
                      \/ \E s \in issued : StartUse(t, s)
                      \/ \E s \in issued \ ended : StartDelete(t, s)
  \/ Restart

WorkerStep(w) ==
  \/ Handshake(w) \/ ServiceEnds(w)
  \/ WorkerQuits(w) /\ (worker[w].told \/ sessions[worker[w].sid] # w)

(* Every task and every worker runs; a worker that is asked to stop does;   *)
(* the lock is first come, first served, so a writer gets its turn.         *)
Fairness ==
  /\ \A t \in Tasks : /\ WF_vars(RequestStep(t))
                      /\ SF_vars(Close(t) \/ RestoreSession(t))
  /\ \A w \in Wid : WF_vars(WorkerStep(w))
  /\ \A s \in Sids : WF_vars(RemovePending(s))

Spec == Init /\ [][Next]_vars
FairSpec == Spec /\ Fairness

----------------------------------------------------------------------------
(* A worker runs only while the map names it, or after it was told to stop:*)
(* no session lives on unseen when handles are replaced or removed.        *)
NoZombieWorker ==
  \A w \in Wid : worker[w].st \in {"init", "handshake", "run"} =>
    sessions[worker[w].sid] = w \/ worker[w].told

(* A request is answered "not found" for a session that the store holds     *)
(* only because a restore of it, which the request waited for or whose      *)
(* entry it found, has failed or was abandoned; a restore that came to its  *)
(* end tells everyone the truth, whatever is deleted meanwhile.             *)
NotFoundMeansGone == \A t \in Tasks : task[t].pc = "404" => task[t].sid \notin store

(* What the documentation of try_restore_from_store says of its result      *)
(* false, which becomes the answer 404: the session is unknown.             *)
(* Does not hold (README, section 4).                                      *)
FalseMeansUnknown ==
  \A t \in Tasks : task[t].pc \in {"404", "refused"} => task[t].sid \notin store

(* Every request is answered: no wait for the lock, for the worker or for   *)
(* another task's restore lasts for ever.                                   *)
RequestsEnd ==
  \A t \in Tasks : task[t].op # "none" ~> task[t].op = "none"

(* try_restore_from_store takes AlreadyPresent for impossible.              *)
AlreadyPresentImpossible == \A t \in Tasks : task[t].pc # "AlreadyPresent"
=============================================================================
