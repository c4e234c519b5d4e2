---------------------------- MODULE TaskManager -----------------------------
(***************************************************************************)
(* Tool calls that run as tasks (rmcp-sdk, task_manager.rs) behind the     *)
(* handlers that #[task_handler] writes for a server                       *)
(* (rmcp-macros/src/task_handler.rs).  The handlers share an               *)
(* OperationProcessor behind a mutex; the tasks run beside it and send     *)
(* their results through a channel that every operation of the processor   *)
(* empties first.                                                          *)
(*                                                                         *)
(* Aborting a task stops it at its next await: one that is running at that *)
(* moment still sends its result.                                          *)
(***************************************************************************)
EXTENDS Integers, Sequences, FiniteSets, SequencesExt

CONSTANTS Ops,       \* operation ids: ids of requests, each used once
          Askers,    \* requests for a result or a status that wait at the same time
          Lookers,   \* the ones that ask for a status
          MaxPanics, \* bound: tools that panic
          NoOne

ASSUME TaskManagerAssumption == MaxPanics \in Nat /\ NoOne \notin Askers /\ Lookers \subseteq Askers

VARIABLES running,    \* running_tasks
          completed,  \* completed_results
          results,    \* the channel of TaskResults
          thread,     \* id -> its tokio task
          asker,      \* request -> [pc, id, answer]
          guard,      \* the request that holds the mutex across two calls
          panics

taskVars == <<running, completed, results, thread, asker, guard, panics>>

Resting == [pc |-> "idle", id |-> NoOne, answer |-> "none"]

TasksInit ==
  /\ running = {} /\ completed = <<>> /\ results = <<>>
  /\ thread = [op \in Ops |-> "none"]
  /\ asker = [a \in Askers |-> Resting] /\ guard = NoOne
  /\ panics = 0

Result(op, r) == [id |-> op, is |-> r]

-----------------------------------------------------------------------------
(* The tasks.                                                              *)

(* Mutant of Sent: a call that fails or takes too long is not reported.    *)
SentIfDone(op, r) == results' = IF r = "done" THEN Append(results, Result(op, r)) ELSE results

Sent(op, r) == results' = Append(results, Result(op, r))

(* The call ends, fails, or is cut off by its own timeout                  *)
TaskEnds(op) ==
  /\ \/ thread[op] = "working" /\ \E r \in {"done", "failed", "timed out"} : Sent(op, r)
     \/ thread[op] = "ending" /\ Sent(op, "done")
  /\ thread' = [thread EXCEPT ![op] = "ended"]
  /\ UNCHANGED <<running, completed, asker, guard, panics>>

(* The tool panics: the task is gone and nothing is sent.                  *)
ToolPanics(op) ==
  /\ thread[op] = "working" /\ panics < MaxPanics
  /\ panics' = panics + 1
  /\ thread' = [thread EXCEPT ![op] = "panicked"]
  /\ UNCHANGED <<running, completed, results, asker, guard>>

(* task_handle.abort(), of a task that rests or of one that is running     *)
Aborted(ops) ==
  \E caught \in SUBSET {op \in ops : thread[op] = "working"} :
    thread' = [op \in Ops |-> IF op \in ops /\ thread[op] = "working"
                              THEN IF op \in caught THEN "ending" ELSE "aborted" ELSE thread[op]]

-----------------------------------------------------------------------------
(* The processor.                                                          *)

(* collect_completed_results                                               *)
StillRunning == running \ {results[i].id : i \in DOMAIN results}
Collected == completed \o results
Empty == results' = <<>>

(* submit_operation with spawn_async_task, from enqueue_task               *)
SubmitOperation(op) ==
  /\ guard = NoOne /\ op \notin running
  /\ thread[op] = "none"
  /\ thread' = [thread EXCEPT ![op] = "working"]
  /\ running' = running \cup {op}
  /\ UNCHANGED <<completed, results, asker, guard, panics>>

(* list_running, running_task_count, peek_completed, from list_tasks       *)
ListRunning ==
  /\ guard = NoOne /\ results # <<>>
  /\ running' = StillRunning /\ completed' = Collected /\ Empty
  /\ UNCHANGED <<thread, asker, guard, panics>>

(* Terminal states the processor writes itself, in the order of the map    *)
Concluded(ops, r) ==
  \E order \in SetToSeqs(ops) : completed' = Collected \o [i \in DOMAIN order |-> Result(order[i], r)]

(* cancel_task                                                             *)
CancelTask(op) ==
  /\ guard = NoOne
  /\ running' = StillRunning \ {op} /\ Empty
  /\ Concluded(StillRunning \cap {op}, "cancelled") /\ Aborted(StillRunning \cap {op})
  /\ UNCHANGED <<asker, guard, panics>>

(* check_timeouts, with whatever tasks are overdue by then                 *)
CheckTimeouts(ops) ==
  /\ guard = NoOne /\ ops \subseteq StillRunning /\ ops # {}
  /\ running' = StillRunning \ ops /\ Empty
  /\ Concluded(ops, "timed out") /\ Aborted(ops)
  /\ UNCHANGED <<asker, guard, panics>>

(* cancel_all_tasks                                                        *)
CancelAllTasks ==
  /\ guard = NoOne /\ running # {}
  /\ running' = {} /\ completed' = <<>> /\ Empty
  /\ Aborted(running)
  /\ UNCHANGED <<asker, guard, panics>>

-----------------------------------------------------------------------------
(* get_task_result, a loop of two calls under the lock and a pause, and    *)
(* get_task_info, which makes its two calls once.                          *)

Ask(a, op) ==
  /\ asker[a].pc = "idle" /\ thread[op] # "none"
  /\ asker' = [asker EXCEPT ![a] = [pc |-> "polling", id |-> op, answer |-> "none"]]
  /\ UNCHANGED <<running, completed, results, thread, guard, panics>>

AnswerAsker(a, r) == asker' = [asker EXCEPT ![a].pc = "answered", ![a].answer = r]

(* take_completed_result takes the oldest result of the task; the status   *)
(* is that of the newest, found with peek_completed.                       *)
AskTake(a) ==
  /\ asker[a].pc = "polling" /\ guard = NoOne
  /\ running' = StillRunning /\ Empty
  /\ LET oldest == SelectInSeq(Collected, LAMBDA r : r.id = asker[a].id)
         newest == SelectLastInSeq(Collected, LAMBDA r : r.id = asker[a].id)
     IN  IF oldest = 0 THEN completed' = Collected /\ guard' = a /\ UNCHANGED asker
         ELSE /\ UNCHANGED guard
              /\ IF a \notin Lookers
                 THEN completed' = RemoveAt(Collected, oldest) /\ AnswerAsker(a, Collected[oldest].is)
                 ELSE completed' = Collected
                      /\ AnswerAsker(a, IF Collected[newest].is = "done" THEN "Completed" ELSE "Failed")
  /\ UNCHANGED <<thread, panics>>

(* list_running, still under the lock.  A result that has come in between  *)
(* takes the task off the list: the answer is that there is no such task.  *)
AskList(a) ==
  /\ guard = a /\ guard' = NoOne
  /\ running' = StillRunning /\ completed' = Collected /\ Empty
  /\ CASE asker[a].id \notin StillRunning -> AnswerAsker(a, "task not found")
       [] a \in Lookers -> AnswerAsker(a, "Working")
       [] OTHER -> UNCHANGED asker
  /\ UNCHANGED <<thread, panics>>

TasksNext ==
  \/ \E op \in Ops : TaskEnds(op) \/ ToolPanics(op) \/ SubmitOperation(op) \/ CancelTask(op)
  \/ \E ops \in SUBSET Ops : CheckTimeouts(ops)
  \/ ListRunning \/ CancelAllTasks
  \/ \E a \in Askers : AskTake(a) \/ AskList(a) \/ \E op \in Ops : Ask(a, op)

-----------------------------------------------------------------------------
(* Properties                                                              *)

(* A request for the result of a task is answered, by the task's end, its  *)
(* own timeout or a cancellation, unless the tool panicked: nothing in the *)
(* handlers calls check_timeouts, and the request then waits for ever.     *)
AskersAreAnswered ==
  \A a \in Askers :
    (asker[a].pc = "polling") ~>
       (asker[a].pc = "answered" \/ \E op \in Ops : op = asker[a].id /\ thread[op] = "panicked")

(* "Not completed yet: if not running, return not found": "task not found" *)
(* is answered only for a task whose result is not there.                  *)
NotFoundIsTrue ==
  [][\A a \in Askers :
       (asker[a].pc = "polling" /\ asker'[a].answer = "task not found") =>
         \A i \in DOMAIN completed' : completed'[i].id # asker[a].id]_taskVars
=============================================================================
