---------------------------- MODULE AtomicExport ----------------------------
(***************************************************************************)
(* Cancellable exports that replace one output file atomically             *)
(* (src/lokit/io/atomic.py).                                               *)
(*                                                                         *)
(* An asyncio task awaits run_cancellable_export, which runs a synchronous *)
(* exporter on a thread of the loop's executor.  The exporter writes a     *)
(* temporary file beside the target inside `with atomic_output_path(...)`; *)
(* _AtomicOutput.__exit__ flushes, syncs and renames it over the target.   *)
(* All exporters here write the SAME target, the hardest case.             *)
(*                                                                         *)
(* The file system is external: the page cache and the disk hold a prefix  *)
(* of each temporary file's chunks, and the directory is the log of the    *)
(* renames onto the target, of which a prefix is on disk.                  *)
(***************************************************************************)
EXTENDS Naturals, Sequences

CONSTANTS
  Exporters,        \* the exports of a run, each one call of run_cancellable_export
  Chunks,           \* writes an exporter makes to its output
  HasDirectoryFlag, \* whether os has O_DIRECTORY (POSIX) so directories are synced
  MaxCancels,       \* bound: task.cancel() calls per export
  MaxFaults,        \* bound: I/O errors per run
  MaxKills,         \* bound: kills of the process
  MaxOutages        \* bound: losses of power

ASSUME ChunksAssumption == Chunks \in Nat \ {0}
ASSUME FlagAssumption   == HasDirectoryFlag \in BOOLEAN
ASSUME BoundsAssumption ==
  MaxCancels \in Nat /\ MaxFaults \in Nat /\ MaxKills \in Nat /\ MaxOutages \in Nat

VARIABLES
  task,          \* the task awaiting run_cancellable_export
  cancelPending, \* task.cancel() was called and CancelledError is not thrown yet
  event,         \* the threading.Event named cancellation
  worker,        \* the asyncio task around to_thread
  shutdown,      \* the loop is being torn down: it cancels every task
  pc,            \* the exporter thread
  result,        \* how the thread ended
  temp,          \* the directory entry of the temporary file
  handed,        \* chunks handed to the stream
  cached,        \* chunks in the operating system's cache
  stable,        \* chunks on disk
  commits,       \* the renames onto the target, oldest first
  synced,        \* length of the prefix of commits that is on disk
  cancels, faults, kills, outages

taskVars == <<task, cancelPending, event, worker, shutdown, cancels>>
fileVars == <<temp, handed, cached, stable, commits, synced>>
vars == <<taskVars, pc, result, fileVars, faults, kills, outages>>

Ended  == {"returned", "raised", "cancelled", "lost"}
Active == {"awaiting", "quiescing"}
\* places of the thread from which the second cancellation check still lies ahead
BeforeLastCheck ==
  {"queued", "writing", "check_body", "flush", "fsync", "close", "check_close"}
Running == BeforeLastCheck \cup {"replace", "sync_directory", "cleanup"}
Places  == Running \cup {"none", "finished", "dropped", "lost"}

TypeOK ==
  /\ task \in [Exporters -> {"idle"} \cup Active \cup Ended]
  /\ cancelPending \in [Exporters -> BOOLEAN]
  /\ event \in [Exporters -> BOOLEAN]
  /\ worker \in [Exporters -> {"none", "pending", "done", "cancelled"}]
  /\ shutdown \in BOOLEAN
  /\ pc \in [Exporters -> Places]
  /\ result \in [Exporters -> {"none", "ok", "error", "cancelled", "unlink_error"}]
  /\ temp \in [Exporters -> {"none", "present", "gone"}]
  /\ handed \in [Exporters -> 0..Chunks]
  /\ cached \in [Exporters -> 0..Chunks]
  /\ stable \in [Exporters -> 0..Chunks]
  /\ commits \in Seq(Exporters)
  /\ synced \in 0..Len(commits)
  /\ cancels \in [Exporters -> 0..MaxCancels]
  /\ faults \in 0..MaxFaults
  /\ kills \in 0..MaxKills
  /\ outages \in 0..MaxOutages

Init ==
  /\ task = [e \in Exporters |-> "idle"]
  /\ cancelPending = [e \in Exporters |-> FALSE]
  /\ event = [e \in Exporters |-> FALSE]
  /\ worker = [e \in Exporters |-> "none"]
  /\ shutdown = FALSE
  /\ pc = [e \in Exporters |-> "none"]
  /\ result = [e \in Exporters |-> "none"]
  /\ temp = [e \in Exporters |-> "none"]
  /\ handed = [e \in Exporters |-> 0]
  /\ cached = [e \in Exporters |-> 0]
  /\ stable = [e \in Exporters |-> 0]
  /\ commits = <<>>
  /\ synced = 0
  /\ cancels = [e \in Exporters |-> 0]
  /\ faults = 0 /\ kills = 0 /\ outages = 0

Published == {commits[i] : i \in 1..Len(commits)}
OnDisk    == {commits[i] : i \in 1..synced}

-----------------------------------------------------------------------------
(* The task.  `await asyncio.shield(worker)` resumes with the worker's     *)
(* outcome, or with CancelledError when the task itself was cancelled.     *)

Start(e) ==
  /\ task[e] = "idle" /\ ~shutdown
  /\ task' = [task EXCEPT ![e] = "awaiting"]
  /\ worker' = [worker EXCEPT ![e] = "pending"]
  /\ pc' = [pc EXCEPT ![e] = "queued"]
  /\ UNCHANGED <<cancelPending, event, shutdown, cancels, result, fileVars,
                 faults, kills, outages>>

Cancel(e) ==
  /\ task[e] \in Active /\ cancels[e] < MaxCancels
  /\ cancelPending' = [cancelPending EXCEPT ![e] = TRUE]
  /\ cancels' = [cancels EXCEPT ![e] = @ + 1]
  /\ UNCHANGED <<task, event, worker, shutdown, pc, result, fileVars,
                 faults, kills, outages>>

\* await asyncio.shield(worker) completes normally or with the worker's exception
Resume(e) ==
  /\ task[e] = "awaiting" /\ ~cancelPending[e] /\ worker[e] = "done"
  /\ task' = [task EXCEPT ![e] = IF result[e] = "ok" THEN "returned" ELSE "raised"]
  /\ UNCHANGED <<cancelPending, event, worker, shutdown, cancels, pc, result,
                 fileVars, faults, kills, outages>>

\* mutant: `while not worker.cancelled()`
QuiesceLoopMissesDone(e) == IF worker[e] = "cancelled" THEN "cancelled" ELSE "quiescing"

\* mutant: the caller is told at once, without quiescing the worker
QuiesceLoopSkipped(e) == "cancelled"

\* while not worker.done(): the state the quiescing loop leaves the task in
QuiesceLoop(e) == IF worker[e] = "pending" THEN "quiescing" ELSE "cancelled"

\* except CancelledError: cancellation.set(), then _quiesce_cancelled_worker
CatchCancel(e) ==
  /\ task[e] = "awaiting"
  /\ cancelPending[e] \/ worker[e] = "cancelled"
  /\ cancelPending' = [cancelPending EXCEPT ![e] = FALSE]
  /\ event' = [event EXCEPT ![e] = TRUE]
  /\ task' = [task EXCEPT ![e] = QuiesceLoop(e)]
  /\ UNCHANGED <<worker, shutdown, cancels, pc, result, fileVars,
                 faults, kills, outages>>

\* mutant: a single `await asyncio.shield(worker)` instead of the loop
QuiesceOnce(e) ==
  /\ task[e] = "quiescing"
  /\ cancelPending[e] \/ worker[e] # "pending"
  /\ cancelPending' = [cancelPending EXCEPT ![e] = FALSE]
  /\ task' = [task EXCEPT ![e] = "cancelled"]
  /\ UNCHANGED <<event, worker, shutdown, cancels, pc, result, fileVars,
                 faults, kills, outages>>

\* a turn of the quiescing loop: another CancelledError, or the worker's outcome
Quiesce(e) ==
  /\ task[e] = "quiescing"
  /\ cancelPending[e] \/ worker[e] # "pending"
  /\ cancelPending' = [cancelPending EXCEPT ![e] = FALSE]
  /\ task' = [task EXCEPT ![e] = QuiesceLoop(e)]
  /\ UNCHANGED <<event, worker, shutdown, cancels, pc, result, fileVars,
                 faults, kills, outages>>

\* the loop learns that the thread ended
WorkerDone(e) ==
  /\ worker[e] = "pending" /\ pc[e] = "finished"
  /\ worker' = [worker EXCEPT ![e] = "done"]
  /\ UNCHANGED <<task, cancelPending, event, shutdown, cancels, pc, result,
                 fileVars, faults, kills, outages>>

\* asyncio.run ends: every task is cancelled, the worker tasks too
Shutdown ==
  /\ ~shutdown
  /\ \E e \in Exporters : task[e] \in Active
  /\ shutdown' = TRUE
  /\ cancelPending' = [e \in Exporters |-> cancelPending[e] \/ task[e] \in Active]
  /\ UNCHANGED <<task, event, worker, cancels, pc, result, fileVars,
                 faults, kills, outages>>

\* a cancelled worker task drops a job still in the executor's queue; a running
\* thread cannot be stopped and goes on by itself
WorkerCancelled(e) ==
  /\ shutdown /\ worker[e] = "pending"
  /\ worker' = [worker EXCEPT ![e] = "cancelled"]
  /\ pc' = [pc EXCEPT ![e] = IF @ = "queued" THEN "dropped" ELSE @]
  /\ UNCHANGED <<task, cancelPending, event, shutdown, cancels, result, fileVars,
                 faults, kills, outages>>

-----------------------------------------------------------------------------
(* The exporter thread.                                                    *)

\* an OSError raised by the step at hand
IOFault == faults < MaxFaults /\ faults' = faults + 1

Goto(e, place) == pc' = [pc EXCEPT ![e] = place]

\* mutant: no finally block
UnwindWithoutCleanup(e, why) ==
  /\ Goto(e, "finished")
  /\ result' = [result EXCEPT ![e] = why]
  /\ UNCHANGED <<taskVars, fileVars, kills, outages>>

\* the body or __exit__ raises: control reaches the finally block
Unwind(e, why) ==
  /\ Goto(e, "cleanup")
  /\ result' = [result EXCEPT ![e] = why]
  /\ UNCHANGED <<taskVars, fileVars, kills, outages>>

Fail(e) == IOFault /\ Unwind(e, "error")

\* raise_if_cancelled(self._cancellation)
RaiseIfCancelled(e, next) ==
  IF event[e]
    THEN Unwind(e, "cancelled") /\ UNCHANGED faults
    ELSE Goto(e, next) /\ UNCHANGED <<taskVars, result, fileVars, faults, kills, outages>>

\* __enter__ creates the temporary file in the target's directory
Enter(e) ==
  /\ pc[e] = "queued"
  /\ \/ /\ Goto(e, "writing")
        /\ temp' = [temp EXCEPT ![e] = "present"]
        /\ UNCHANGED <<result, faults>>
     \/ /\ IOFault
        /\ Goto(e, "finished")
        /\ result' = [result EXCEPT ![e] = "error"]
        /\ UNCHANGED temp
  /\ UNCHANGED <<taskVars, handed, cached, stable, commits, synced, kills, outages>>

\* the body: the stream passes on what it has buffered when it likes
WriteChunk(e) ==
  /\ pc[e] = "writing" /\ handed[e] < Chunks
  /\ handed' = [handed EXCEPT ![e] = @ + 1]
  /\ \E k \in cached[e]..handed[e] + 1 : cached' = [cached EXCEPT ![e] = k]
  /\ UNCHANGED <<taskVars, pc, result, temp, stable, commits, synced,
                 faults, kills, outages>>

\* the body raises, of itself or because it found the cancellation set
BodyRaises(e) ==
  /\ pc[e] = "writing"
  /\ \/ Fail(e)
     \/ event[e] /\ Unwind(e, "cancelled") /\ UNCHANGED faults

BodyEnds(e) ==
  /\ pc[e] = "writing" /\ handed[e] = Chunks
  /\ Goto(e, "check_body")
  /\ UNCHANGED <<taskVars, result, fileVars, faults, kills, outages>>

CheckAfterBody(e) == pc[e] = "check_body" /\ RaiseIfCancelled(e, "flush")

\* mutant: the second check is missing
CheckAfterCloseMissing(e) ==
  /\ pc[e] = "check_close" /\ Goto(e, "replace")
  /\ UNCHANGED <<taskVars, result, fileVars, faults, kills, outages>>

CheckAfterClose(e) == pc[e] = "check_close" /\ RaiseIfCancelled(e, "replace")

Flush(e) ==
  /\ pc[e] = "flush"
  /\ \/ /\ cached' = [cached EXCEPT ![e] = handed[e]]
        /\ Goto(e, "fsync")
        /\ UNCHANGED <<taskVars, result, temp, handed, stable, commits, synced,
                       faults, kills, outages>>
     \/ Fail(e)

\* mutant: the file is not synced before the rename
FsyncMissing(e) ==
  /\ pc[e] = "fsync" /\ Goto(e, "close")
  /\ UNCHANGED <<taskVars, result, fileVars, faults, kills, outages>>

Fsync(e) ==
  /\ pc[e] = "fsync"
  /\ \/ /\ stable' = [stable EXCEPT ![e] = cached[e]]
        /\ Goto(e, "close")
        /\ UNCHANGED <<taskVars, result, temp, handed, cached, commits, synced,
                       faults, kills, outages>>
     \/ Fail(e)

Close(e) ==
  /\ pc[e] = "close"
  /\ \/ /\ Goto(e, "check_close")
        /\ UNCHANGED <<taskVars, result, fileVars, faults, kills, outages>>
     \/ Fail(e)

\* os.replace(temporary_path, self._path); self._temporary_path = ""
Replace(e) ==
  /\ pc[e] = "replace"
  /\ \/ /\ commits' = Append(commits, e)
        /\ temp' = [temp EXCEPT ![e] = "gone"]
        /\ Goto(e, "sync_directory")
        /\ UNCHANGED <<taskVars, result, handed, cached, stable, synced,
                       faults, kills, outages>>
     \/ Fail(e)

\* mutant: the rename itself is taken to be durable
SyncDirectoryMissing(e) ==
  /\ pc[e] = "sync_directory" /\ Goto(e, "finished")
  /\ result' = [result EXCEPT ![e] = "ok"]
  /\ UNCHANGED <<taskVars, fileVars, faults, kills, outages>>

\* _fsync_directory: nothing to do where os has no O_DIRECTORY
SyncDirectory(e) ==
  /\ pc[e] = "sync_directory"
  /\ Goto(e, "finished")
  /\ \/ /\ synced' = IF HasDirectoryFlag THEN Len(commits) ELSE synced
        /\ result' = [result EXCEPT ![e] = "ok"]
        /\ UNCHANGED faults
     \/ /\ HasDirectoryFlag /\ IOFault
        /\ result' = [result EXCEPT ![e] = "error"]
        /\ UNCHANGED synced
  /\ UNCHANGED <<taskVars, temp, handed, cached, stable, commits, kills, outages>>

\* the finally block after a failure: close the stream and unlink the file
Cleanup(e) ==
  /\ pc[e] = "cleanup"
  /\ Goto(e, "finished")
  /\ \/ /\ temp' = [temp EXCEPT ![e] = "gone"]
        /\ UNCHANGED <<result, faults>>
     \/ /\ IOFault
        /\ result' = [result EXCEPT ![e] = "unlink_error"]
        /\ UNCHANGED temp
  /\ UNCHANGED <<taskVars, handed, cached, stable, commits, synced, kills, outages>>

Thread(e) ==
  \/ Enter(e) \/ WriteChunk(e) \/ BodyRaises(e) \/ BodyEnds(e)
  \/ CheckAfterBody(e) \/ Flush(e) \/ Fsync(e) \/ Close(e) \/ CheckAfterClose(e)
  \/ Replace(e) \/ SyncDirectory(e) \/ Cleanup(e)

-----------------------------------------------------------------------------
(* The environment: the process is killed, or the machine loses power.     *)

LoseProcess ==
  /\ task' = [e \in Exporters |-> IF task[e] \in Active THEN "lost" ELSE task[e]]
  /\ pc' = [e \in Exporters |-> IF pc[e] \in Running THEN "lost" ELSE pc[e]]
  /\ worker' = [e \in Exporters |-> IF worker[e] = "pending" THEN "none" ELSE worker[e]]
  /\ cancelPending' = [e \in Exporters |-> FALSE]
  /\ shutdown' = FALSE
  /\ UNCHANGED <<event, cancels, result, handed, faults>>

\* what reached the operating system survives
Kill ==
  /\ kills < MaxKills /\ kills' = kills + 1
  /\ LoseProcess
  /\ UNCHANGED <<temp, cached, stable, commits, synced, outages>>

\* of a file at least the synced chunks survive, of the directory at least the
\* synced renames; every other entry of the directory may be there or not
PowerLoss ==
  /\ outages < MaxOutages /\ outages' = outages + 1
  /\ LoseProcess
  /\ \E kept \in [Exporters -> 0..Chunks] :
       /\ \A e \in Exporters : kept[e] \in stable[e]..cached[e]
       /\ cached' = kept /\ stable' = kept
  /\ \E n \in synced..Len(commits) :
       /\ commits' = SubSeq(commits, 1, n) /\ synced' = n
       /\ \E there \in [Exporters -> {"none", "present", "gone"}] :
            /\ \A e \in Exporters :
                 \/ there[e] = "none" /\ temp[e] = "none"
                 \/ there[e] = "gone" /\ temp[e] # "none"
                 \/ /\ there[e] = "present" /\ temp[e] # "none"
                    /\ \A i \in 1..n : commits[i] # e
            /\ temp' = there
  /\ UNCHANGED kills

Task(e) == Resume(e) \/ CatchCancel(e) \/ Quiesce(e) \/ WorkerDone(e) \/ WorkerCancelled(e)

Environment ==
  \/ \E e \in Exporters : Start(e) \/ Cancel(e)
  \/ Shutdown \/ Kill \/ PowerLoss

Next ==
  \/ \E e \in Exporters : Task(e) \/ Thread(e)
  \/ Environment

Spec == Init /\ [][Next]_vars

\* the event loop runs what is ready, and the executor's threads make progress
FairSpec ==
  /\ Spec
  /\ \A e \in Exporters : WF_vars(Task(e)) /\ WF_vars(Thread(e))

-----------------------------------------------------------------------------
(* Properties.                                                             *)

\* The file found under the target's name is complete, whatever was
\* interrupted: neither an error, a cancellation, a kill nor a loss of power
\* exposes a part of an export (flush and fsync come before os.replace).
TargetComplete == commits # <<>> => cached[commits[Len(commits)]] = Chunks

\* An export that returned normally is on disk: no later loss of power takes
\* it back (the rename is followed by _fsync_directory).
ReturnedIsDurable ==
  HasDirectoryFlag => \A e \in Exporters : task[e] = "returned" => e \in OnDisk

\* A thread that has ended leaves no temporary file behind, however it ended,
\* unless unlinking it failed or power was lost before the unlink was on disk.
NoOrphanTemp ==
  outages = 0 =>
    \A e \in Exporters :
      pc[e] \in {"finished", "dropped"} /\ temp[e] = "present"
        => result[e] = "unlink_error"

\* The caller sees CancelledError only after its exporter thread has ended,
\* however often it is cancelled meanwhile, unless the loop itself goes away.
CancelledIsQuiet ==
  \A e \in Exporters :
    task[e] = "cancelled" => shutdown \/ pc[e] \in {"finished", "dropped", "lost"}

\* No step replaces the target on behalf of an export whose caller has already
\* been told how it ended, save while the loop is torn down.
NoLateReplace ==
  [][\A e \in Exporters :
       commits' = Append(commits, e) => task[e] \in Active \/ shutdown]_vars

\* A cancellation seen before the stream's close is checked is honoured: that
\* export never replaces the target.
CancellationHonoured ==
  \A e \in Exporters :
    [](event[e] /\ pc[e] \in BeforeLastCheck => [](e \notin Published))

\* Every export ends, cancelled or not, and leaves its caller with an outcome.
ExportEnds ==
  \A e \in Exporters : task[e] = "awaiting" ~> task[e] \in Ended

=============================================================================
