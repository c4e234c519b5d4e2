--------------------------- MODULE MCHttpSessions ---------------------------
(***************************************************************************)
(* For TLC: the sessions of the HTTP server, or the tasks that a server    *)
(* runs for its client.  They share no state: a behaviour is one of them,  *)
(* chosen at the start.                                                    *)
(***************************************************************************)
EXTENDS HttpSessions, TaskManager

VARIABLE part
mcVars == <<vars, taskVars, part>>

MCInit == Init /\ TasksInit /\ part \in {"sessions", "tasks"}

(* A step of one part                                                      *)
Only(p, A, others) == part = p /\ A /\ UNCHANGED <<others, part>>

InSessions(A) == Only("sessions", A, taskVars)
InTasks(A) == Only("tasks", A, vars)

MCNext == InSessions(Next) \/ InTasks(TasksNext)

(* The fairness of HttpSessions; the tool calls run, and the mutex of the  *)
(* processor is first come, first served.                                  *)
MCSpec == /\ MCInit /\ [][MCNext]_mcVars
          /\ \A t \in Tasks : /\ WF_mcVars(InSessions(RequestStep(t)))
                              /\ SF_mcVars(InSessions(Close(t) \/ RestoreSession(t)))
          /\ \A w \in Wid : WF_mcVars(InSessions(WorkerStep(w)))
          /\ \A s \in Sids : WF_mcVars(InSessions(RemovePending(s)))
          /\ WF_mcVars(InTasks(\E op \in Ops : TaskEnds(op)))
          /\ \A a \in Askers : SF_mcVars(InTasks(AskTake(a) \/ AskList(a)))
=============================================================================
