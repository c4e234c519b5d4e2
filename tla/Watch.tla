-------------------------------- MODULE Watch --------------------------------
(***************************************************************************)
(* `hdl-graph index --watch` (cmd_watch, index_project, collect_sv_files   *)
(* and the loop of cmd_index_incremental in                                *)
(* crates/hdl-graph-cli/src/main.rs): an initial index of the files found  *)
(* on disk, then a loop that receives file system events, debounces them   *)
(* for 100 ms and re-indexes the files that changed.  Editors change files *)
(* at any moment, also while the tool reads them.                          *)
(*                                                                         *)
(* External: the notify watcher.  Once registered it posts one event per   *)
(* change, in order, into the unbounded channel `tx`; it may also post an  *)
(* error.  It names files by their absolute paths.  cmd_watch owns the     *)
(* watcher, so the channel is never closed.                                *)
(* Clock time is reduced to the question the code asks: have 100 ms passed *)
(* since an entry was put into `pending`?                                  *)
(***************************************************************************)
EXTENDS Indexer, Sequences

CONSTANTS Missing,      \* the path does not exist
          Unreadable,   \* the path exists and read_to_string fails on it
          Dir,          \* directories of the project
          IncludeDirs,  \* the --include-dirs given
          DirsOf,       \* file -> the directories above it
          MaxChanges,   \* bound: changes made to the disk
          MaxNoise      \* bound: errors and events that change no file

ASSUME DirsAssumption == /\ IncludeDirs \subseteq Dir /\ IsFiniteSet(IncludeDirs)
                         /\ DirsOf \in [File -> SUBSET Dir]
ASSUME DiskAssumption == /\ Missing # Unreadable
                         /\ {Missing, Unreadable} \cap (Content \cup {NoContent}) = {}
ASSUME WatchBoundsAssumption == MaxChanges \in Nat /\ MaxNoise \in Nat

VARIABLES disk,     \* file -> content, Missing or Unreadable
          phase,    \* what cmd_watch is doing
          todo,     \* file -> how often it is still to be indexed at start
          channel,  \* events not received yet
          pending,  \* file -> "none", "young" or "due" (100 ms old)
          ready,    \* files handed to cmd_index_incremental, not reached yet
          changes,  \* bound counter
          noise,    \* bound counter
          watched   \* history: files changed since the watcher was registered

watchVars == <<phase, todo, channel, pending, ready>>
sysVars == <<indexVars, watchVars, disk, changes, noise, watched>>

DiskState == Content \cup {Missing, Unreadable}

WatchInit == /\ IndexInit
             /\ disk \in [File -> DiskState]
             /\ phase = "collect"
             /\ todo = [f \in File |-> 0]
             /\ channel = <<>>
             /\ pending = [f \in File |-> "none"]
             /\ ready = {}
             /\ changes = 0
             /\ noise = 0
             /\ watched = {}

-----------------------------------------------------------------------------
(* The environment                                                         *)

Post(e) == channel' = IF phase = "watch" THEN Append(channel, e) ELSE channel

(* A file is written, or becomes unreadable, or is created.                *)
Write(f, c) ==
  /\ changes < MaxChanges
  /\ c # Missing /\ disk[f] # c
  /\ disk' = [disk EXCEPT ![f] = c]
  /\ Post([kind |-> IF disk[f] = Missing THEN "Create" ELSE "Modify", path |-> f])
  /\ watched' = IF phase = "watch" THEN watched \cup {f} ELSE watched
  /\ changes' = changes + 1
  /\ UNCHANGED <<indexVars, phase, todo, pending, ready, noise>>

Delete(f) ==
  /\ changes < MaxChanges
  /\ disk[f] # Missing
  /\ disk' = [disk EXCEPT ![f] = Missing]
  /\ Post([kind |-> "Remove", path |-> f])
  /\ watched' = IF phase = "watch" THEN watched \cup {f} ELSE watched
  /\ changes' = changes + 1
  /\ UNCHANGED <<indexVars, phase, todo, pending, ready, noise>>

(* notify reports an access (a file was opened or closed) or an error.     *)
Noise(e) ==
  /\ phase = "watch" /\ noise < MaxNoise
  /\ channel' = Append(channel, e)
  /\ noise' = noise + 1
  /\ UNCHANGED <<indexVars, phase, todo, pending, ready, disk, changes, watched>>

(* 100 ms pass.                                                            *)
Elapse ==
  /\ \E f \in File : pending[f] = "young"
  /\ pending' = [f \in File |-> IF pending[f] = "young" THEN "due" ELSE pending[f]]
  /\ UNCHANGED <<indexVars, phase, todo, channel, ready, disk, changes, noise, watched>>

-----------------------------------------------------------------------------
(* collect_sv_files and index_project                                      *)

(* How many of the walked directories list f.                              *)
Listed(f) ==
  IF disk[f] = Missing THEN 0
  ELSE IF IncludeDirs = {} THEN 1 ELSE Cardinality(IncludeDirs \cap DirsOf[f])

(* When the include directories list nothing the project is walked.        *)
Collect ==
  /\ phase = "collect"
  /\ todo' = IF \A f \in File : Listed(f) = 0
               THEN [f \in File |-> IF disk[f] = Missing THEN 0 ELSE 1]
               ELSE [f \in File |-> Listed(f)]
  /\ phase' = "index"
  /\ UNCHANGED <<indexVars, channel, pending, ready, disk, changes, noise, watched>>

(* One file of the walk is read and indexed, or reported and skipped.      *)
InitialIndex(f) ==
  /\ phase = "index" /\ todo[f] > 0
  /\ todo' = [todo EXCEPT ![f] = @ - 1]
  /\ IF disk[f] \in Content THEN IndexFile(WalkPath(f), disk[f]) ELSE UNCHANGED indexVars
  /\ UNCHANGED <<phase, channel, pending, ready, disk, changes, noise, watched>>

(* watcher.watch: from here on changes are reported.                       *)
Register ==
  /\ phase = "index" /\ \A f \in File : todo[f] = 0
  /\ phase' = "watch"
  /\ UNCHANGED <<indexVars, todo, channel, pending, ready, disk, changes, noise, watched>>

-----------------------------------------------------------------------------
(* The event loop                                                          *)

(* The event at the head of the channel is taken: its path is pending from *)
(* now on, the files in due are handed over, the ones in cleared leave     *)
(* pending.                                                                *)
Touched(e) == IF e.kind \in {"Create", "Modify"} THEN [pending EXCEPT ![e.path] = "young"] ELSE pending

Due(e) == {f \in File : Touched(e)[f] = "due"}

Take(e, due, cleared) ==
  /\ phase = "watch" /\ ready = {}
  /\ channel' = Tail(channel)
  /\ ready' = due
  /\ pending' = [f \in File |-> IF f \in cleared THEN "none" ELSE Touched(e)[f]]
  /\ UNCHANGED <<indexVars, phase, todo, disk, changes, noise, watched>>

(* Mutants of Receive: a flush empties pending altogether; only a change   *)
(* of a file looks for due entries.                                        *)
ReceiveClearsPending ==
  /\ channel # <<>>
  /\ LET e == Head(channel)
         due == IF e.kind = "Error" THEN {} ELSE Due(e)
     IN  Take(e, due, IF due = {} THEN {} ELSE File)

ReceiveIgnoresOther ==
  /\ channel # <<>>
  /\ LET e == Head(channel)
         due == IF e.kind \in {"Create", "Modify"} THEN Due(e) ELSE {}
     IN  Take(e, due, due)

(* rx.recv() blocks while the channel is empty.  Create and Modify put the *)
(* path into pending; every event but an error looks for due entries, the  *)
(* one just put there being too young.                                     *)
Receive ==
  /\ channel # <<>>
  /\ LET e == Head(channel)
         due == IF e.kind = "Error" THEN {} ELSE Due(e)
     IN  Take(e, due, due)

(* One iteration of cmd_index_incremental: a read error skips the file.    *)
Reindex(f) ==
  /\ f \in ready
  /\ ready' = ready \ {f}
  /\ IF disk[f] \in Content THEN ReindexFile(EventPath(f), disk[f]) ELSE UNCHANGED indexVars
  /\ UNCHANGED <<phase, todo, channel, pending, disk, changes, noise, watched>>

-----------------------------------------------------------------------------
Tool == \/ Collect
        \/ \E f \in File : InitialIndex(f)
        \/ Register
        \/ Receive
        \/ \E f \in File : Reindex(f)

Environment == \/ \E f \in File, c \in DiskState : Write(f, c)
               \/ \E f \in File : Delete(f)
               \/ \E f \in File : Noise([kind |-> "Other", path |-> f])
               \/ Noise([kind |-> "Error"])
               \/ Elapse

WatchNext == Tool \/ Environment

(* The tool's thread runs whenever it is not blocked in recv, and time     *)
(* passes.  Nobody owes the tool another event.                            *)
Fairness == WF_sysVars(Tool) /\ WF_sysVars(Elapse)

WatchSpec == WatchInit /\ [][WatchNext]_sysVars /\ Fairness

-----------------------------------------------------------------------------
(* Properties                                                              *)

(* The digest that the next event about f is compared with.               *)
UpToDate(f) == Digest(Rel(EventPath(f))) = disk[f]

(* Something in the tool still stands for a change of f.                   *)
InFlight(f) ==
  \/ f \in ready
  \/ pending[f] # "none"
  \/ \E i \in DOMAIN channel : channel[i].kind \in {"Create", "Modify"} /\ channel[i].path = f

(* No change made under the watcher's eyes is lost: as long as the digest  *)
(* on record is not that of the file on disk, an event, a pending entry or *)
(* a queued re-index of that file exists, whatever the interleaving of     *)
(* edits with receive, debounce and the read in cmd_index_incremental.     *)
NoChangeLost ==
  \A f \in watched : disk[f] \in Content => UpToDate(f) \/ InFlight(f)

(* A change that is due is picked up when any further event comes in: the  *)
(* debounce holds a file back, it does not drop it.                        *)
DueIsFlushedByNextEvent ==
  \A f \in File :
    (pending[f] = "due" /\ \E i \in DOMAIN channel : channel[i].kind # "Error")
      ~> pending[f] # "due"

(* "Real-time update when a file changes (100 ms debounce)": a change made *)
(* while the tool watches gets into the index.                             *)
ChangeReachesIndex == \A f \in File : (f \in watched) ~> (disk[f] \notin Content \/ UpToDate(f))
=============================================================================
