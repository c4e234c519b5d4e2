---------------------------- MODULE ChildProcess ----------------------------
(***************************************************************************)
(* An MCP server that the client runs as a child process (rmcp-sdk,        *)
(* transport/child_process.rs over async_rw.rs): its handle, who holds it, *)
(* the pipe to its input and the mutex a send holds while it writes there, *)
(* and how the process ends when the transport is closed, dropped or given *)
(* up.                                                                     *)
(***************************************************************************)
EXTENDS Integers

VARIABLES process,  \* "none", "runs", "exited" until it is waited for, "reaped"
          stdin,    \* is the pipe to the child open
          writer,   \* "held" by a send that waits for room in the pipe, or "free"
          handle,   \* who holds the child: "nobody", "transport", "closing" (the
                    \* shutdown, before the pipe is closed), "shutdown" (after),
                    \* "kill" (a task of its own), "application"
          heeds,    \* does the child exit when its stdin is closed
          reads,    \* does the child read its stdin
          strays    \* history: the handle was dropped while the child ran

childVars == <<process, stdin, writer, handle, heeds, reads, strays>>

ChildInit == /\ process = "none" /\ stdin = FALSE /\ writer = "free" /\ handle = "nobody"
             /\ heeds \in BOOLEAN /\ reads \in BOOLEAN /\ strays = FALSE

(* A handle that is dropped neither kills nor waits                        *)
Lost == handle' = "nobody" /\ strays' = TRUE /\ UNCHANGED process

(* TokioChildProcessBuilder::spawn with child_process: without a pipe on   *)
(* stdin or stdout it fails, and the child it has started goes on.         *)
Spawn ==
  /\ process = "none" /\ process' = "runs"
  /\ \/ handle' = "transport" /\ stdin' = TRUE /\ UNCHANGED strays
     \/ handle' = "nobody" /\ strays' = TRUE /\ UNCHANGED stdin
  /\ UNCHANGED <<writer, heeds, reads>>

(* The child ends by itself, or because its input has                      *)
Exit ==
  /\ process = "runs" /\ process' = "exited"
  /\ UNCHANGED <<stdin, writer, handle, heeds, reads, strays>>

(* A send takes the mutex of the writer and finds the pipe full            *)
SendBlocks ==
  /\ handle = "transport" /\ writer = "free" /\ writer' = "held"
  /\ UNCHANGED <<process, stdin, handle, heeds, reads, strays>>

(* The child makes room, or is gone and the write fails; the writer of a   *)
(* transport that is gone goes with the send.                              *)
SendEnds ==
  /\ writer = "held" /\ (reads \/ process # "runs") /\ writer' = "free"
  /\ stdin' = (stdin /\ handle \in {"transport", "closing"})
  /\ UNCHANGED <<process, handle, heeds, reads, strays>>

(* graceful_shutdown, which is Transport::close: the child is taken out of *)
(* the transport (a second call finds none) ...                            *)
GracefulShutdown ==
  /\ handle = "transport" /\ handle' = "closing"
  /\ UNCHANGED <<process, stdin, writer, heeds, reads, strays>>

(* ... then its input is closed, once the mutex is free                    *)
TransportClosed ==
  /\ handle = "closing" /\ writer = "free"
  /\ handle' = "shutdown" /\ stdin' = FALSE
  /\ UNCHANGED <<process, writer, heeds, reads, strays>>

Reaped == process' = "reaped" /\ handle' = "nobody" /\ UNCHANGED strays

(* ... and it is waited for                                                *)
ShutdownWaited ==
  /\ handle = "shutdown" /\ process = "exited" /\ (Reaped \/ Lost)
  /\ UNCHANGED <<stdin, writer, heeds, reads>>

(* Mutant of ShutdownTimesOut: the wait has no limit.                      *)
ShutdownWaitsOn == FALSE /\ UNCHANGED childVars

(* After MAX_WAIT_ON_DROP_SECS: kill() kills the child and waits for it,   *)
(* or fails                                                                *)
ShutdownTimesOut ==
  /\ handle = "shutdown" /\ (Reaped \/ Lost)
  /\ UNCHANGED <<stdin, writer, heeds, reads>>

(* The future of the shutdown is dropped while it waits                    *)
ShutdownDropped ==
  /\ handle \in {"closing", "shutdown"} /\ Lost
  /\ UNCHANGED <<stdin, writer, heeds, reads>>

(* Drop of ChildWithCleanup: a task of its own kills the child             *)
DropTransport ==
  /\ handle = "transport"
  /\ handle' = "kill" /\ stdin' = (writer = "held")
  /\ UNCHANGED <<process, writer, heeds, reads, strays>>

Killed ==
  /\ handle = "kill" /\ (Reaped \/ Lost)
  /\ UNCHANGED <<stdin, writer, heeds, reads>>

(* into_inner: the child is the application's                              *)
IntoInner ==
  /\ handle = "transport"
  /\ handle' = "application" /\ stdin' = (writer = "held")
  /\ UNCHANGED <<process, writer, heeds, reads, strays>>

ChildNext == \/ Spawn \/ Exit \/ SendBlocks \/ SendEnds
             \/ GracefulShutdown \/ TransportClosed \/ ShutdownWaited \/ ShutdownTimesOut \/ ShutdownDropped
             \/ DropTransport \/ Killed \/ IntoInner

(* A write ends when it can, the mutex goes to who waits for it, the timer *)
(* fires, a task that was spawned runs, and a child that heeds the end of  *)
(* its input ends.                                                         *)
ChildStep == \/ SendEnds \/ TransportClosed \/ ShutdownWaited \/ ShutdownTimesOut \/ Killed
             \/ (heeds /\ ~stdin /\ Exit)

ChildSpec == ChildInit /\ [][ChildNext]_childVars /\ WF_childVars(ChildStep)

-----------------------------------------------------------------------------
(* Properties                                                              *)

Ended == process = "reaped" \/ strays

(* A transport that is closed or dropped leaves no process behind, whether *)
(* the child exits when it should or not: a dropped one always, and one    *)
(* that is closed once its pipe is closed, which takes a child that reads  *)
(* its input or no send under way.  Excepted are a kill or a wait that     *)
(* fails, and a shutdown that is itself dropped while it waits: the handle *)
(* it had taken goes without a kill.                                       *)
ChildIsReaped ==
  /\ (handle \in {"shutdown", "kill"}) ~> Ended
  /\ (handle = "closing" /\ (reads \/ writer = "free")) ~> Ended

(* What the documentation of graceful_shutdown says: the transport is      *)
(* closed and the child is waited for, and killed if it does not exit      *)
(* within the timeout.                                                     *)
(* Does not hold (README, section 4).                                      *)
ShutdownEnds == handle = "closing" ~> Ended
=============================================================================
