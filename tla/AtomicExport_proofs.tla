------------------------ MODULE AtomicExport_proofs ------------------------
(***************************************************************************)
(* Proofs about AtomicExport, for any set of exporters, any number of      *)
(* chunks and any number of cancellations, faults, kills and outages.      *)
(*                                                                         *)
(* Inv is the inductive invariant.  Its parts say what each place of       *)
(* _AtomicOutput.__exit__ has achieved so far: how much of the temporary   *)
(* file is where (Contents), which renames were made and synced (Renames), *)
(* which directory entry is left (Entries), and how the event loop's view  *)
(* of the thread relates to the thread (Tasks).                            *)
(***************************************************************************)
EXTENDS AtomicExport, SequenceTheorems, TLAPS

Contents ==
  \A e \in Exporters :
    /\ stable[e] <= cached[e] /\ cached[e] <= handed[e]
    /\ pc[e] \in {"check_body", "flush"} => handed[e] = Chunks
    /\ pc[e] = "fsync" => cached[e] = Chunks
    /\ pc[e] \in {"close", "check_close", "replace", "sync_directory"} => stable[e] = Chunks
    /\ e \in Published => stable[e] = Chunks

Renames ==
  \A e \in Exporters :
    /\ e \in Published => pc[e] \in {"sync_directory", "finished", "lost"}
    /\ pc[e] = "sync_directory" => e \in Published
    /\ HasDirectoryFlag /\ (result[e] = "ok" \/ task[e] = "returned") => e \in OnDisk

Entries ==
  \A e \in Exporters :
    /\ task[e] = "idle" => temp[e] = "none"
    /\ pc[e] \in {"queued", "dropped"} => temp[e] = "none"
    /\ pc[e] = "sync_directory" => temp[e] = "gone"
    /\ outages = 0 /\ pc[e] = "finished" /\ temp[e] = "present" => result[e] = "unlink_error"

Tasks ==
  \A e \in Exporters :
    /\ task[e] = "idle" <=> pc[e] = "none"
    /\ task[e] \in Active => worker[e] # "none"
    /\ worker[e] = "done" => pc[e] = "finished"
    /\ worker[e] = "cancelled" => shutdown \/ pc[e] \notin Running
    /\ pc[e] \in Running => task[e] \in Active \/ shutdown

Inv == TypeOK /\ Tasks /\ Contents /\ Renames /\ Entries


-----------------------------------------------------------------------------
(* The renames as a set: what a rename and a loss of power do to it.       *)

\* os.replace adds its export to the renames and syncs none of them.
LEMMA RenameAdds ==
  ASSUME TypeOK, NEW e \in Exporters, commits' = Append(commits, e), UNCHANGED synced
  PROVE  Published' = Published \cup {e} /\ OnDisk' = OnDisk
<1>1. commits \in Seq(Exporters) /\ synced \in 0..Len(commits)
  BY DEF TypeOK
<1>2. Len(commits') = Len(commits) + 1
  BY <1>1
<1>3. \A i \in 1..Len(commits) : commits'[i] = commits[i]
  BY <1>1
<1>4. commits'[Len(commits) + 1] = e
  BY <1>1
<1>5. Published' = Published \cup {e}
  <2>1. Published' \subseteq Published \cup {e}
    <3> SUFFICES ASSUME NEW i \in 1..Len(commits) + 1
                 PROVE  commits'[i] \in Published \cup {e}
      BY <1>2 DEF Published
    <3>1. CASE i \in 1..Len(commits)
      BY <3>1, <1>3 DEF Published
    <3>2. CASE i = Len(commits) + 1
      BY <3>2, <1>4
    <3> QED
      BY <3>1, <3>2, <1>1
  <2>2. Published \subseteq Published'
    <3> SUFFICES ASSUME NEW i \in 1..Len(commits)
                 PROVE  commits[i] \in Published'
      BY DEF Published
    <3>1. i \in 1..Len(commits') /\ commits'[i] = commits[i]
      BY <1>1, <1>2, <1>3
    <3> QED
      BY <3>1 DEF Published
  <2>3. e \in Published'
    <3>1. Len(commits) + 1 \in 1..Len(commits')
      BY <1>1, <1>2
    <3> QED
      BY <3>1, <1>4 DEF Published
  <2> QED
    BY <2>1, <2>2, <2>3
<1>6. OnDisk' = OnDisk
  BY <1>1, <1>3 DEF OnDisk
<1> QED
  BY <1>5, <1>6

\* A loss of power takes renames back, none that was synced.
LEMMA PowerLossKeeps ==
  ASSUME TypeOK, NEW n \in synced..Len(commits),
         commits' = SubSeq(commits, 1, n), synced' = n
  PROVE  /\ commits' \in Seq(Exporters) /\ Len(commits') = n
         /\ Published' \subseteq Published
         /\ OnDisk \subseteq OnDisk'
<1>1. commits \in Seq(Exporters) /\ synced \in 0..Len(commits) /\ n \in 0..Len(commits)
  BY DEF TypeOK
<1>2. commits' \in Seq(Exporters) /\ Len(commits') = n
  BY <1>1, SubSeqProperties
<1>3. \A i \in 1..n : commits'[i] = commits[i]
  BY <1>1, SubSeqProperties
<1>4. Published' \subseteq Published
  BY <1>1, <1>2, <1>3 DEF Published
<1>5. OnDisk \subseteq OnDisk'
  BY <1>1, <1>3 DEF OnDisk
<1> QED
  BY <1>2, <1>4, <1>5


-----------------------------------------------------------------------------
(* Type correctness.                                                       *)

LEMMA PlacesAre ==
  /\ "queued" \in Places /\ "writing" \in Places /\ "check_body" \in Places
  /\ "flush" \in Places /\ "fsync" \in Places /\ "close" \in Places
  /\ "check_close" \in Places /\ "replace" \in Places /\ "sync_directory" \in Places
  /\ "cleanup" \in Places /\ "none" \in Places /\ "finished" \in Places
  /\ "dropped" \in Places /\ "lost" \in Places
  BY DEF Places, Running, BeforeLastCheck

LEMMA TypeInit == Init => TypeOK
<1> SUFFICES ASSUME Init PROVE TypeOK
  OBVIOUS
<1> USE PlacesAre, ChunksAssumption, BoundsAssumption DEF Init
<1>1. shutdown \in BOOLEAN
  OBVIOUS
<1>2. commits \in Seq(Exporters) /\ synced \in 0..Len(commits)
  OBVIOUS
<1> QED
  BY <1>1, <1>2 DEF TypeOK

\* The steps that the thread's actions share.
LEMMA GotoType ==
  ASSUME TypeOK, NEW e \in Exporters, NEW place \in Places, Goto(e, place)
  PROVE  pc' \in [Exporters -> Places]
  BY DEF TypeOK, Goto

LEMMA FaultType ==
  ASSUME TypeOK, IOFault PROVE faults' \in 0..MaxFaults
  BY BoundsAssumption DEF TypeOK, IOFault

LEMMA UnwindType ==
  ASSUME TypeOK, NEW e \in Exporters, NEW why \in {"error", "cancelled"},
         Unwind(e, why), faults' \in 0..MaxFaults
  PROVE  TypeOK'
<1>1. pc' \in [Exporters -> Places]
  BY GotoType, PlacesAre DEF Unwind
<1>2. result' \in [Exporters -> {"none", "ok", "error", "cancelled", "unlink_error"}]
  BY DEF TypeOK, Unwind
<1> QED
  BY <1>1, <1>2 DEF TypeOK, Unwind, taskVars, fileVars

LEMMA FailType ==
  ASSUME TypeOK, NEW e \in Exporters, Fail(e) PROVE TypeOK'
  BY FaultType, UnwindType DEF Fail

LEMMA StepType ==
  ASSUME TypeOK, NEW e \in Exporters, NEW place \in Places, Goto(e, place),
         UNCHANGED <<taskVars, result, fileVars, faults, kills, outages>>
  PROVE  TypeOK'
  BY GotoType DEF TypeOK, taskVars, fileVars

LEMMA CheckType ==
  ASSUME TypeOK, NEW e \in Exporters, NEW place \in Places, RaiseIfCancelled(e, place)
  PROVE  TypeOK'
<1>1. CASE event[e]
  BY <1>1, UnwindType DEF RaiseIfCancelled, TypeOK
<1>2. CASE ~event[e]
  BY <1>2, StepType DEF RaiseIfCancelled
<1> QED
  BY <1>1, <1>2

LEMMA TypeStep == TypeOK /\ [Next]_vars => TypeOK'
<1> SUFFICES ASSUME TypeOK, [Next]_vars PROVE TypeOK'
  OBVIOUS
<1>1. ASSUME NEW e \in Exporters, Task(e) PROVE TypeOK'
  <2>1. CASE Resume(e) \/ CatchCancel(e) \/ Quiesce(e)
    BY <2>1 DEF TypeOK, Resume, CatchCancel, Quiesce, QuiesceLoop, Active, Ended, fileVars
  <2>2. CASE WorkerDone(e)
    BY <2>2 DEF TypeOK, WorkerDone, fileVars
  <2>3. CASE WorkerCancelled(e)
    BY <2>3, PlacesAre DEF TypeOK, WorkerCancelled, fileVars
  <2> QED
    BY <1>1, <2>1, <2>2, <2>3 DEF Task
<1>2. ASSUME NEW e \in Exporters, Enter(e) PROVE TypeOK'
  <2>1. pc' \in [Exporters -> Places] /\ faults' \in 0..MaxFaults
    BY <1>2, GotoType, FaultType, PlacesAre DEF Enter, TypeOK
  <2> QED
    BY <1>2, <2>1 DEF Enter, TypeOK, taskVars
<1>3. ASSUME NEW e \in Exporters, WriteChunk(e) PROVE TypeOK'
  <2>1. handed' \in [Exporters -> 0..Chunks] /\ cached' \in [Exporters -> 0..Chunks]
    BY <1>3, ChunksAssumption DEF WriteChunk, TypeOK
  <2> QED
    BY <1>3, <2>1 DEF WriteChunk, TypeOK, taskVars
<1>4. ASSUME NEW e \in Exporters, BodyRaises(e) PROVE TypeOK'
  BY <1>4, FailType, UnwindType DEF BodyRaises, TypeOK
<1>5. ASSUME NEW e \in Exporters, BodyEnds(e) PROVE TypeOK'
  BY <1>5, StepType, PlacesAre DEF BodyEnds
<1>6. ASSUME NEW e \in Exporters, CheckAfterBody(e) \/ CheckAfterClose(e) PROVE TypeOK'
  BY <1>6, CheckType, PlacesAre DEF CheckAfterBody, CheckAfterClose
<1>7. ASSUME NEW e \in Exporters, Flush(e) PROVE TypeOK'
  <2>1. CASE Fail(e)
    BY <2>1, FailType
  <2>2. CASE cached' = [cached EXCEPT ![e] = handed[e]] /\ Goto(e, "fsync")
    BY <1>7, <2>2, FailType, GotoType, PlacesAre DEF Flush, TypeOK, taskVars
  <2> QED
    BY <1>7, <2>1, <2>2 DEF Flush
<1>8. ASSUME NEW e \in Exporters, Fsync(e) PROVE TypeOK'
  <2>1. CASE Fail(e)
    BY <2>1, FailType
  <2>2. CASE stable' = [stable EXCEPT ![e] = cached[e]] /\ Goto(e, "close")
    BY <1>8, <2>2, FailType, GotoType, PlacesAre DEF Fsync, TypeOK, taskVars
  <2> QED
    BY <1>8, <2>1, <2>2 DEF Fsync
<1>9. ASSUME NEW e \in Exporters, Close(e) PROVE TypeOK'
  BY <1>9, FailType, StepType, PlacesAre DEF Close
<1>10. ASSUME NEW e \in Exporters, Replace(e) PROVE TypeOK'
  <2>1. CASE Fail(e)
    BY <2>1, FailType
  <2>2. CASE commits' = Append(commits, e) /\ Goto(e, "sync_directory") /\ ~Fail(e)
    <3>1. commits' \in Seq(Exporters) /\ Len(commits') = Len(commits) + 1
      BY <2>2, AppendProperties DEF TypeOK
    <3>2. pc' \in [Exporters -> Places]
      BY <2>2, GotoType, PlacesAre
    <3>3. /\ UNCHANGED <<taskVars, result, handed, cached, stable, synced, faults, kills, outages>>
          /\ temp' = [temp EXCEPT ![e] = "gone"]
      BY <1>10, <2>2 DEF Replace
    <3>4. synced' \in 0..Len(commits')
      BY <3>1, <3>3 DEF TypeOK
    <3> QED
      BY <3>1, <3>2, <3>3, <3>4 DEF TypeOK, taskVars
  <2> QED
    BY <1>10, <2>1, <2>2 DEF Replace
<1>11. ASSUME NEW e \in Exporters, SyncDirectory(e) PROVE TypeOK'
  <2>1. pc' \in [Exporters -> Places] /\ faults' \in 0..MaxFaults
    BY <1>11, GotoType, FaultType, PlacesAre DEF SyncDirectory, TypeOK
  <2>2. synced' \in 0..Len(commits')
    BY <1>11 DEF SyncDirectory, TypeOK
  <2> QED
    BY <1>11, <2>1, <2>2 DEF SyncDirectory, TypeOK, taskVars
<1>12. ASSUME NEW e \in Exporters, Cleanup(e) PROVE TypeOK'
  <2>1. pc' \in [Exporters -> Places] /\ faults' \in 0..MaxFaults
    BY <1>12, GotoType, FaultType, PlacesAre DEF Cleanup, TypeOK
  <2> QED
    BY <1>12, <2>1 DEF Cleanup, TypeOK, taskVars
<1>13. ASSUME NEW e \in Exporters, Start(e) \/ Cancel(e) PROVE TypeOK'
  <2>1. CASE Start(e)
    BY <2>1, PlacesAre DEF Start, TypeOK, Active, fileVars
  <2>2. CASE Cancel(e)
    BY <2>2, BoundsAssumption DEF Cancel, TypeOK, fileVars
  <2> QED
    BY <1>13, <2>1, <2>2
<1>14. ASSUME Shutdown PROVE TypeOK'
  <2>1. shutdown' \in BOOLEAN
    BY <1>14 DEF Shutdown
  <2> QED
    BY <1>14, <2>1 DEF Shutdown, TypeOK, fileVars
<1>15. ASSUME LoseProcess
       PROVE  /\ shutdown' \in BOOLEAN
              /\ task' \in [Exporters -> {"idle"} \cup Active \cup Ended]
              /\ pc' \in [Exporters -> Places]
              /\ worker' \in [Exporters -> {"none", "pending", "done", "cancelled"}]
              /\ cancelPending' \in [Exporters -> BOOLEAN]
              /\ UNCHANGED <<event, cancels, result, handed, faults>>
  <2>1. shutdown' \in BOOLEAN
    BY <1>15 DEF LoseProcess
  <2>2. pc' \in [Exporters -> Places]
    BY <1>15, PlacesAre DEF LoseProcess, TypeOK
  <2> QED
    BY <1>15, <2>1, <2>2 DEF LoseProcess, TypeOK, Ended
<1>16. ASSUME Kill PROVE TypeOK'
  BY <1>15, <1>16, BoundsAssumption DEF Kill, TypeOK
<1>17. ASSUME PowerLoss PROVE TypeOK'
  <2>1. PICK n \in synced..Len(commits) : commits' = SubSeq(commits, 1, n) /\ synced' = n
    BY <1>17 DEF PowerLoss
  <2>2. commits' \in Seq(Exporters) /\ Len(commits') = n /\ synced' \in 0..Len(commits')
    BY <2>1, PowerLossKeeps DEF TypeOK
  <2>3. /\ cached' \in [Exporters -> 0..Chunks] /\ stable' \in [Exporters -> 0..Chunks]
        /\ temp' \in [Exporters -> {"none", "present", "gone"}]
    BY <1>17 DEF PowerLoss
  <2>4. kills' \in 0..MaxKills /\ outages' \in 0..MaxOutages
    BY <1>17, BoundsAssumption DEF PowerLoss, TypeOK
  <2>5. LoseProcess
    BY <1>17 DEF PowerLoss
  <2> QED
    BY <1>15, <2>2, <2>3, <2>4, <2>5 DEF TypeOK
<1>18. ASSUME UNCHANGED vars PROVE TypeOK'
  BY <1>18 DEF vars, taskVars, fileVars, TypeOK
<1> QED
  BY <1>1, <1>2, <1>3, <1>4, <1>5, <1>6, <1>7, <1>8, <1>9, <1>10, <1>11, <1>12, <1>13,
     <1>14, <1>16, <1>17, <1>18
     DEF Next, Thread, Environment


-----------------------------------------------------------------------------
(* The event loop and the thread.                                          *)

\* A step of a thread moves that thread on, and nothing of the event loop's.
LEMMA ThreadMoves ==
  ASSUME TypeOK, NEW e \in Exporters, Thread(e)
  PROVE  /\ UNCHANGED taskVars
         /\ pc[e] \in Running
         /\ \E place \in Running \cup {"finished"} : pc' = [pc EXCEPT ![e] = place]
<1> USE DEF Running, BeforeLastCheck, Goto, Unwind, Fail, RaiseIfCancelled
<1>1. CASE Enter(e)
  BY <1>1 DEF Enter
<1>2. CASE WriteChunk(e)
  <2>1. pc[e] = "writing" /\ pc' = pc /\ pc' = [pc EXCEPT ![e] = "writing"]
    BY <1>2 DEF WriteChunk, TypeOK
  <2> QED
    BY <1>2, <2>1 DEF WriteChunk
<1>3. CASE BodyRaises(e) \/ BodyEnds(e)
  BY <1>3 DEF BodyRaises, BodyEnds
<1>4. CASE CheckAfterBody(e) \/ CheckAfterClose(e)
  BY <1>4 DEF CheckAfterBody, CheckAfterClose
<1>5. CASE Flush(e) \/ Fsync(e)
  BY <1>5 DEF Flush, Fsync
<1>6. CASE Close(e) \/ Replace(e)
  BY <1>6 DEF Close, Replace
<1>7. CASE SyncDirectory(e) \/ Cleanup(e)
  BY <1>7 DEF SyncDirectory, Cleanup
<1> QED
  BY <1>1, <1>2, <1>3, <1>4, <1>5, <1>6, <1>7 DEF Thread

LEMMA TasksStep == TypeOK /\ Tasks /\ [Next]_vars => Tasks'
<1> SUFFICES ASSUME TypeOK, Tasks, [Next]_vars PROVE Tasks'
  OBVIOUS
<1> USE PlacesAre DEF Active
<1>1. ASSUME NEW e \in Exporters, Thread(e) PROVE Tasks'
  <2>1. PICK place \in Running \cup {"finished"} : pc' = [pc EXCEPT ![e] = place]
    BY <1>1, ThreadMoves
  <2>2. UNCHANGED <<task, worker, shutdown>> /\ pc[e] \in Running
    BY <1>1, ThreadMoves DEF taskVars
  <2>3. "none" \notin Running /\ "finished" \notin Running
    BY DEF Running, BeforeLastCheck
  <2> QED
    BY <2>1, <2>2, <2>3 DEF Tasks, TypeOK
<1>2. ASSUME NEW e \in Exporters, Task(e) PROVE Tasks'
  BY <1>2 DEF Task, Tasks, TypeOK, Resume, CatchCancel, Quiesce, QuiesceLoop, WorkerDone,
     WorkerCancelled, Running, BeforeLastCheck
<1>3. ASSUME NEW e \in Exporters, Start(e) \/ Cancel(e) PROVE Tasks'
  <2>1. CASE Start(e)
    BY <2>1 DEF Start, Tasks, TypeOK
  <2>2. CASE Cancel(e)
    BY <2>2 DEF Cancel, Tasks
  <2> QED
    BY <1>3, <2>1, <2>2
<1>4. ASSUME Shutdown PROVE Tasks'
  BY <1>4 DEF Shutdown, Tasks
<1>5. ASSUME LoseProcess PROVE Tasks'
  BY <1>5 DEF LoseProcess, Tasks, TypeOK, Running, BeforeLastCheck
<1>6. ASSUME UNCHANGED vars PROVE Tasks'
  BY <1>6 DEF vars, taskVars, Tasks
<1> QED
  BY <1>1, <1>2, <1>3, <1>4, <1>5, <1>6 DEF Next, Environment, Kill, PowerLoss


-----------------------------------------------------------------------------
(* What of the temporary file is where.                                    *)

\* Contents does not mind a step that leaves the files alone and brings no
\* thread to a place that asks for more.
LEMMA ContentsKept ==
  ASSUME TypeOK, Contents,
         UNCHANGED <<handed, cached, stable>>, Published' \subseteq Published,
         \A e \in Exporters :
           pc'[e] = pc[e] \/ pc'[e] \in {"none", "queued", "writing", "cleanup", "finished",
                                         "dropped", "lost"}
  PROVE  Contents'
  BY DEF Contents

LEMMA PublishedKept == UNCHANGED commits => Published' = Published
  BY DEF Published

LEMMA ContentsThread ==
  ASSUME TypeOK, Contents, NEW e \in Exporters, Thread(e)
  PROVE  Contents'
<1>1. CASE Enter(e) \/ BodyRaises(e) \/ SyncDirectory(e) \/ Cleanup(e)
  <2>1. UNCHANGED <<handed, cached, stable, commits>>
    BY <1>1 DEF Enter, BodyRaises, SyncDirectory, Cleanup, Fail, Unwind, fileVars
  <2>2. \A f \in Exporters : pc'[f] = pc[f] \/ pc'[f] \in {"writing", "cleanup", "finished"}
    BY <1>1 DEF Enter, BodyRaises, SyncDirectory, Cleanup, Fail, Unwind, Goto, TypeOK
  <2> QED
    BY <2>1, <2>2, ContentsKept, PublishedKept
<1>2. CASE Unwind(e, "error") \/ Unwind(e, "cancelled")
  <2>1. UNCHANGED <<handed, cached, stable, commits>>
    BY <1>2 DEF Unwind, fileVars
  <2>2. \A f \in Exporters : pc'[f] = pc[f] \/ pc'[f] = "cleanup"
    BY <1>2 DEF Unwind, Goto, TypeOK
  <2> QED
    BY <2>1, <2>2, ContentsKept, PublishedKept
<1>3. CASE WriteChunk(e)
  <2>1. UNCHANGED <<pc, stable, commits>> /\ pc[e] = "writing" /\ handed[e] < Chunks
    BY <1>3 DEF WriteChunk
  <2>2. \E k \in cached[e]..handed[e] + 1 : cached' = [cached EXCEPT ![e] = k]
    BY <1>3 DEF WriteChunk
  <2>3. handed' = [handed EXCEPT ![e] = @ + 1]
    BY <1>3 DEF WriteChunk
  <2> QED
    BY <2>1, <2>2, <2>3, PublishedKept, ChunksAssumption DEF Contents, TypeOK
<1>4. CASE BodyEnds(e)
  <2>1. UNCHANGED <<handed, cached, stable, commits>> /\ handed[e] = Chunks
    BY <1>4 DEF BodyEnds, fileVars
  <2>2. pc' = [pc EXCEPT ![e] = "check_body"]
    BY <1>4 DEF BodyEnds, Goto
  <2> QED
    BY <2>1, <2>2, PublishedKept DEF Contents, TypeOK
<1>5. CASE CheckAfterBody(e) /\ ~event[e]
  <2>1. UNCHANGED <<handed, cached, stable, commits>> /\ pc[e] = "check_body"
    BY <1>5 DEF CheckAfterBody, RaiseIfCancelled, fileVars
  <2>2. pc' = [pc EXCEPT ![e] = "flush"]
    BY <1>5 DEF CheckAfterBody, RaiseIfCancelled, Goto
  <2> QED
    BY <2>1, <2>2, PublishedKept DEF Contents, TypeOK
<1>6. CASE Flush(e) /\ ~Fail(e)
  <2>1. UNCHANGED <<handed, stable, commits>> /\ pc[e] = "flush"
    BY <1>6 DEF Flush
  <2>2. cached' = [cached EXCEPT ![e] = handed[e]] /\ pc' = [pc EXCEPT ![e] = "fsync"]
    BY <1>6 DEF Flush, Goto
  <2> QED
    BY <2>1, <2>2, PublishedKept, ChunksAssumption DEF Contents, TypeOK
<1>7. CASE Fsync(e) /\ ~Fail(e)
  <2>1. UNCHANGED <<handed, cached, commits>> /\ pc[e] = "fsync"
    BY <1>7 DEF Fsync
  <2>2. stable' = [stable EXCEPT ![e] = cached[e]] /\ pc' = [pc EXCEPT ![e] = "close"]
    BY <1>7 DEF Fsync, Goto
  <2> QED
    BY <2>1, <2>2, PublishedKept, ChunksAssumption DEF Contents, TypeOK
<1>8. CASE (Close(e) /\ ~Fail(e)) \/ (CheckAfterClose(e) /\ ~event[e])
  <2>1. UNCHANGED <<handed, cached, stable, commits>> /\ pc[e] \in {"close", "check_close"}
    BY <1>8 DEF Close, CheckAfterClose, RaiseIfCancelled, fileVars
  <2>2. pc' = [pc EXCEPT ![e] = "check_close"] \/ pc' = [pc EXCEPT ![e] = "replace"]
    BY <1>8 DEF Close, CheckAfterClose, RaiseIfCancelled, Goto
  <2> QED
    BY <2>1, <2>2, PublishedKept DEF Contents, TypeOK
<1>9. CASE Replace(e) /\ ~Fail(e)
  <2>1. UNCHANGED <<handed, cached, stable>> /\ pc[e] = "replace"
    BY <1>9 DEF Replace
  <2>2. pc' = [pc EXCEPT ![e] = "sync_directory"]
    BY <1>9 DEF Replace, Goto
  <2>3. Published' = Published \cup {e}
    BY <1>9, RenameAdds DEF Replace
  <2> QED
    BY <2>1, <2>2, <2>3 DEF Contents, TypeOK
<1> QED
  BY <1>1, <1>2, <1>3, <1>4, <1>5, <1>6, <1>7, <1>8, <1>9
     DEF Thread, Fail, CheckAfterBody, CheckAfterClose, Flush, Fsync, Close, Replace,
         RaiseIfCancelled

LEMMA ContentsStep == TypeOK /\ Tasks /\ Contents /\ [Next]_vars => Contents'
<1> SUFFICES ASSUME TypeOK, Tasks, Contents, [Next]_vars PROVE Contents'
  OBVIOUS
<1>1. ASSUME NEW e \in Exporters, Task(e) \/ Start(e) \/ Cancel(e) PROVE Contents'
  <2>1. UNCHANGED <<handed, cached, stable, commits>>
    BY <1>1 DEF Task, Resume, CatchCancel, Quiesce, WorkerDone, WorkerCancelled, Start,
                Cancel, fileVars
  <2>2. \A f \in Exporters : pc'[f] = pc[f] \/ pc'[f] \in {"queued", "dropped"}
    BY <1>1 DEF Task, Resume, CatchCancel, Quiesce, WorkerDone, WorkerCancelled, Start,
                Cancel, TypeOK
  <2> QED
    BY <2>1, <2>2, ContentsKept, PublishedKept
<1>2. ASSUME Shutdown PROVE Contents'
  BY <1>2, ContentsKept, PublishedKept DEF Shutdown, fileVars
<1>3. ASSUME LoseProcess
      PROVE  /\ \A e \in Exporters : pc'[e] = IF pc[e] \in Running THEN "lost" ELSE pc[e]
             /\ UNCHANGED handed
  BY <1>3 DEF LoseProcess
<1>4. ASSUME Kill PROVE Contents'
  BY <1>3, <1>4, ContentsKept, PublishedKept DEF Kill
<1>5. ASSUME PowerLoss PROVE Contents'
  <2>1. PICK n \in synced..Len(commits) : commits' = SubSeq(commits, 1, n) /\ synced' = n
    BY <1>5 DEF PowerLoss
  <2>2. Published' \subseteq Published
    BY <2>1, PowerLossKeeps
  <2>3. PICK kept \in [Exporters -> 0..Chunks] :
          /\ \A e \in Exporters : kept[e] \in stable[e]..cached[e]
          /\ cached' = kept /\ stable' = kept
    BY <1>5 DEF PowerLoss
  <2>4. LoseProcess
    BY <1>5 DEF PowerLoss
  <2>5. \A e \in Exporters : pc'[e] \notin {"check_body", "flush", "fsync", "close",
                                           "check_close", "replace", "sync_directory"}
    BY <1>3, <2>4 DEF Running, BeforeLastCheck
  <2> QED
    BY <1>3, <2>2, <2>3, <2>4, <2>5, ChunksAssumption DEF Contents, TypeOK
<1>6. ASSUME UNCHANGED vars PROVE Contents'
  BY <1>6, PublishedKept DEF vars, fileVars, Contents
<1> QED
  BY <1>1, <1>2, <1>4, <1>5, <1>6, ContentsThread DEF Next, Environment


-----------------------------------------------------------------------------
(* Which renames were made, and which are on disk.                         *)

LEMMA OnDiskKept == UNCHANGED <<commits, synced>> => OnDisk' = OnDisk
  BY DEF OnDisk

\* Renames does not mind a step between places at which no rename is in hand.
LEMMA RenamesKept ==
  ASSUME TypeOK, Renames, NEW e \in Exporters, NEW place \in Places,
         pc[e] \in Running \ {"sync_directory"}, place # "sync_directory",
         pc' = [pc EXCEPT ![e] = place], UNCHANGED <<task, commits, synced>>,
         \A f \in Exporters : result'[f] = result[f] \/ result'[f] # "ok"
  PROVE  Renames'
<1>1. e \notin Published
  BY DEF Renames, Running, BeforeLastCheck
<1>2. Published' = Published /\ OnDisk' = OnDisk
  BY PublishedKept, OnDiskKept
<1> QED
  BY <1>1, <1>2 DEF Renames, TypeOK

LEMMA RenamesThread ==
  ASSUME TypeOK, Renames, NEW e \in Exporters, Thread(e)
  PROVE  Renames'
<1> USE PlacesAre
<1>1. UNCHANGED task /\ pc[e] \in Running
  BY ThreadMoves DEF taskVars
<1>2. CASE Unwind(e, "error") \/ Unwind(e, "cancelled")
  <2>1. CASE pc[e] = "sync_directory"
    BY <2>1, <1>2 DEF Thread, Enter, WriteChunk, BodyRaises, BodyEnds, CheckAfterBody, Flush,
       Fsync, Close, CheckAfterClose, Replace, SyncDirectory, Cleanup, Unwind, Goto, TypeOK
  <2>2. CASE pc[e] # "sync_directory"
    <3>1. UNCHANGED <<commits, synced>> /\ pc' = [pc EXCEPT ![e] = "cleanup"]
      BY <1>2 DEF Unwind, Goto, fileVars
    <3>2. \A f \in Exporters : result'[f] = result[f] \/ result'[f] # "ok"
      BY <1>2 DEF Unwind, TypeOK
    <3> QED
      BY <1>1, <2>2, <3>1, <3>2, RenamesKept
  <2> QED
    BY <2>1, <2>2
<1>3. CASE Enter(e) \/ Cleanup(e)
  <2>1. UNCHANGED <<commits, synced>> /\ pc[e] \in {"queued", "cleanup"}
    BY <1>3 DEF Enter, Cleanup
  <2>2. pc' = [pc EXCEPT ![e] = "writing"] \/ pc' = [pc EXCEPT ![e] = "finished"]
    BY <1>3 DEF Enter, Cleanup, Goto
  <2>3. \A f \in Exporters : result'[f] = result[f] \/ result'[f] # "ok"
    BY <1>3 DEF Enter, Cleanup, TypeOK
  <2> QED
    BY <1>1, <2>1, <2>2, <2>3, RenamesKept
<1>4. CASE WriteChunk(e)
  <2>1. UNCHANGED <<pc, commits, synced, result>>
    BY <1>4 DEF WriteChunk
  <2> QED
    BY <1>1, <2>1, PublishedKept, OnDiskKept DEF Renames
<1>5. CASE BodyEnds(e) \/ ((CheckAfterBody(e) \/ CheckAfterClose(e)) /\ ~event[e])
  <2>1. UNCHANGED <<commits, synced, result>> /\ pc[e] \in {"writing", "check_body", "check_close"}
    BY <1>5 DEF BodyEnds, CheckAfterBody, CheckAfterClose, RaiseIfCancelled, fileVars
  <2>2. \/ pc' = [pc EXCEPT ![e] = "check_body"] \/ pc' = [pc EXCEPT ![e] = "flush"]
        \/ pc' = [pc EXCEPT ![e] = "replace"]
    BY <1>5 DEF BodyEnds, CheckAfterBody, CheckAfterClose, RaiseIfCancelled, Goto
  <2> QED
    BY <1>1, <2>1, <2>2, RenamesKept
<1>6. CASE (Flush(e) \/ Fsync(e) \/ Close(e)) /\ ~Fail(e)
  <2>1. UNCHANGED <<commits, synced, result>> /\ pc[e] \in {"flush", "fsync", "close"}
    BY <1>6 DEF Flush, Fsync, Close, fileVars
  <2>2. \/ pc' = [pc EXCEPT ![e] = "fsync"] \/ pc' = [pc EXCEPT ![e] = "close"]
        \/ pc' = [pc EXCEPT ![e] = "check_close"]
    BY <1>6 DEF Flush, Fsync, Close, Goto
  <2> QED
    BY <1>1, <2>1, <2>2, RenamesKept
<1>7. CASE Replace(e) /\ ~Fail(e)
  <2>1. UNCHANGED <<synced, result>> /\ pc' = [pc EXCEPT ![e] = "sync_directory"]
    BY <1>7 DEF Replace, Goto
  <2>2. Published' = Published \cup {e} /\ OnDisk' = OnDisk
    BY <1>7, RenameAdds DEF Replace
  <2> QED
    BY <1>1, <2>1, <2>2 DEF Renames, TypeOK
<1>8. CASE SyncDirectory(e)
  <2>1. UNCHANGED commits /\ pc[e] = "sync_directory" /\ pc' = [pc EXCEPT ![e] = "finished"]
    BY <1>8 DEF SyncDirectory, Goto
  <2>2. Published' = Published /\ e \in Published
    BY <2>1, PublishedKept DEF Renames
  <2>3. CASE HasDirectoryFlag /\ synced' = Len(commits)
    <3>1. OnDisk' = Published /\ OnDisk \subseteq Published
      BY <2>1, <2>3 DEF OnDisk, Published, TypeOK
    <3>2. \A f \in Exporters \ {e} : result'[f] = result[f]
      BY <1>8 DEF SyncDirectory, TypeOK
    <3> QED
      BY <1>1, <2>1, <2>2, <3>1, <3>2 DEF Renames, TypeOK
  <2>4. CASE UNCHANGED synced /\ (HasDirectoryFlag => result' = [result EXCEPT ![e] = "error"])
    <3>1. OnDisk' = OnDisk
      BY <2>1, <2>4, OnDiskKept
    <3> QED
      BY <1>1, <2>1, <2>2, <2>4, <3>1 DEF Renames, TypeOK
  <2> QED
    BY <1>8, <2>3, <2>4 DEF SyncDirectory
<1> QED
  BY <1>2, <1>3, <1>4, <1>5, <1>6, <1>7, <1>8
     DEF Thread, BodyRaises, Fail, CheckAfterBody, CheckAfterClose, Flush, Fsync, Close, Replace,
         RaiseIfCancelled

LEMMA RenamesStep == TypeOK /\ Tasks /\ Renames /\ [Next]_vars => Renames'
<1> SUFFICES ASSUME TypeOK, Tasks, Renames, [Next]_vars PROVE Renames'
  OBVIOUS
<1>1. ASSUME NEW e \in Exporters, Task(e) \/ Start(e) \/ Cancel(e) PROVE Renames'
  <2>1. UNCHANGED <<commits, synced, result>>
    BY <1>1 DEF Task, Resume, CatchCancel, Quiesce, WorkerDone, WorkerCancelled, Start,
                Cancel, fileVars
  <2>2. \A f \in Exporters :
          pc'[f] = pc[f] \/ (pc[f] \in {"none", "queued"} /\ pc'[f] \in {"queued", "dropped"})
    BY <1>1 DEF Task, Resume, CatchCancel, Quiesce, WorkerDone, WorkerCancelled, Start,
                Cancel, TypeOK, Tasks
  <2>3. \A f \in Exporters : task'[f] = "returned" => task[f] = "returned" \/ result[f] = "ok"
    BY <1>1 DEF Task, Resume, CatchCancel, Quiesce, QuiesceLoop, WorkerDone, WorkerCancelled,
                Start, Cancel, TypeOK
  <2> QED
    BY <2>1, <2>2, <2>3, PublishedKept, OnDiskKept DEF Renames
<1>2. ASSUME Shutdown PROVE Renames'
  BY <1>2, PublishedKept, OnDiskKept DEF Shutdown, fileVars, Renames
<1>3. ASSUME LoseProcess, Published' \subseteq Published, OnDisk \subseteq OnDisk'
      PROVE  Renames'
  <2>1. \A e \in Exporters : pc'[e] = IF pc[e] \in Running THEN "lost" ELSE pc[e]
    BY <1>3 DEF LoseProcess
  <2>2. \A e \in Exporters : task'[e] = "returned" => task[e] = "returned"
    BY <1>3 DEF LoseProcess
  <2>3. UNCHANGED result
    BY <1>3 DEF LoseProcess
  <2> QED
    BY <1>3, <2>1, <2>2, <2>3 DEF Renames, Running
<1>4. ASSUME Kill PROVE Renames'
  BY <1>3, <1>4, PublishedKept, OnDiskKept DEF Kill
<1>5. ASSUME PowerLoss PROVE Renames'
  <2>1. PICK n \in synced..Len(commits) : commits' = SubSeq(commits, 1, n) /\ synced' = n
    BY <1>5 DEF PowerLoss
  <2> QED
    BY <1>3, <1>5, <2>1, PowerLossKeeps DEF PowerLoss
<1>6. ASSUME UNCHANGED vars PROVE Renames'
  BY <1>6, PublishedKept, OnDiskKept DEF vars, taskVars, fileVars, Renames
<1> QED
  BY <1>1, <1>2, <1>4, <1>5, <1>6, RenamesThread DEF Next, Environment


-----------------------------------------------------------------------------
(* Which directory entry the temporary file has left.                      *)

LEMMA EntriesThread ==
  ASSUME TypeOK, Tasks, Entries, NEW e \in Exporters, Thread(e)
  PROVE  Entries'
<1>1. UNCHANGED task /\ pc[e] \in Running /\ task[e] # "idle"
  BY ThreadMoves DEF taskVars, Tasks, Running, BeforeLastCheck
<1>2. UNCHANGED outages
  BY DEF Thread, Enter, WriteChunk, BodyRaises, BodyEnds, CheckAfterBody, Flush, Fsync, Close,
     CheckAfterClose, Replace, SyncDirectory, Cleanup, RaiseIfCancelled, Fail, Unwind
<1>3. CASE Unwind(e, "error") \/ Unwind(e, "cancelled")
  <2>1. UNCHANGED temp /\ pc' = [pc EXCEPT ![e] = "cleanup"]
    BY <1>3 DEF Unwind, Goto, fileVars
  <2>2. \A f \in Exporters \ {e} : result'[f] = result[f]
    BY <1>3 DEF Unwind, TypeOK
  <2> QED
    BY <1>1, <1>2, <2>1, <2>2 DEF Entries, TypeOK
<1>4. CASE Enter(e)
  <2>1. temp[e] = "none"
    BY <1>4 DEF Enter, Entries
  <2>2. CASE pc' = [pc EXCEPT ![e] = "writing"] /\ temp' = [temp EXCEPT ![e] = "present"]
             /\ UNCHANGED result
    BY <1>1, <1>2, <2>1, <2>2 DEF Entries, TypeOK
  <2>3. CASE pc' = [pc EXCEPT ![e] = "finished"] /\ UNCHANGED temp
             /\ result' = [result EXCEPT ![e] = "error"]
    BY <1>1, <1>2, <2>1, <2>3 DEF Entries, TypeOK
  <2> QED
    BY <1>4, <2>2, <2>3 DEF Enter, Goto
<1>5. CASE \/ WriteChunk(e) \/ BodyEnds(e)
           \/ (CheckAfterBody(e) \/ CheckAfterClose(e)) /\ ~event[e]
           \/ (Flush(e) \/ Fsync(e) \/ Close(e)) /\ ~Fail(e)
  <2>1. UNCHANGED <<temp, result>>
    BY <1>5 DEF WriteChunk, BodyEnds, CheckAfterBody, CheckAfterClose, RaiseIfCancelled, Flush,
                Fsync, Close, fileVars
  <2>2. \A f \in Exporters :
          pc'[f] = pc[f] \/ pc'[f] \in {"check_body", "flush", "fsync", "close", "check_close",
                                        "replace"}
    BY <1>5 DEF WriteChunk, BodyEnds, CheckAfterBody, CheckAfterClose, RaiseIfCancelled, Flush,
                Fsync, Close, Goto, TypeOK
  <2> QED
    BY <1>1, <1>2, <2>1, <2>2 DEF Entries
<1>6. CASE Replace(e) /\ ~Fail(e)
  <2>1. /\ UNCHANGED result /\ temp' = [temp EXCEPT ![e] = "gone"]
        /\ pc' = [pc EXCEPT ![e] = "sync_directory"]
    BY <1>6 DEF Replace, Goto
  <2> QED
    BY <1>1, <1>2, <2>1 DEF Entries, TypeOK
<1>7. CASE SyncDirectory(e)
  <2>1. UNCHANGED temp /\ temp[e] = "gone" /\ pc' = [pc EXCEPT ![e] = "finished"]
    BY <1>7 DEF SyncDirectory, Goto, Entries
  <2>2. \A f \in Exporters \ {e} : result'[f] = result[f]
    BY <1>7 DEF SyncDirectory, TypeOK
  <2> QED
    BY <1>1, <1>2, <2>1, <2>2 DEF Entries, TypeOK
<1>8. CASE Cleanup(e)
  <2>1. pc' = [pc EXCEPT ![e] = "finished"]
    BY <1>8 DEF Cleanup, Goto
  <2>2. \/ temp' = [temp EXCEPT ![e] = "gone"] /\ UNCHANGED result
        \/ UNCHANGED temp /\ result' = [result EXCEPT ![e] = "unlink_error"]
    BY <1>8 DEF Cleanup
  <2> QED
    BY <1>1, <1>2, <2>1, <2>2 DEF Entries, TypeOK
<1> QED
  BY <1>3, <1>4, <1>5, <1>6, <1>7, <1>8
     DEF Thread, BodyRaises, Fail, CheckAfterBody, CheckAfterClose, Flush, Fsync, Close, Replace,
         RaiseIfCancelled

LEMMA EntriesStep == TypeOK /\ Tasks /\ Entries /\ [Next]_vars => Entries'
<1> SUFFICES ASSUME TypeOK, Tasks, Entries, [Next]_vars PROVE Entries'
  OBVIOUS
<1>1. ASSUME NEW e \in Exporters, Task(e) \/ Start(e) \/ Cancel(e) PROVE Entries'
  <2>1. UNCHANGED <<temp, outages, result>>
    BY <1>1 DEF Task, Resume, CatchCancel, Quiesce, WorkerDone, WorkerCancelled, Start,
                Cancel, fileVars
  <2>2. \A f \in Exporters :
          pc'[f] = pc[f] \/ (task[f] = "idle" /\ pc'[f] = "queued")
                         \/ (pc[f] = "queued" /\ pc'[f] = "dropped")
    BY <1>1 DEF Task, Resume, CatchCancel, Quiesce, WorkerDone, WorkerCancelled, Start,
                Cancel, TypeOK
  <2>3. \A f \in Exporters : task'[f] = "idle" => task[f] = "idle"
    BY <1>1 DEF Task, Resume, CatchCancel, Quiesce, QuiesceLoop, WorkerDone, WorkerCancelled,
                Start, Cancel, TypeOK
  <2> QED
    BY <2>1, <2>2, <2>3 DEF Entries
<1>2. ASSUME Shutdown PROVE Entries'
  BY <1>2 DEF Shutdown, fileVars, Entries
<1>3. ASSUME LoseProcess
      PROVE  /\ \A e \in Exporters : pc'[e] = IF pc[e] \in Running THEN "lost" ELSE pc[e]
             /\ \A e \in Exporters : task'[e] = "idle" => task[e] = "idle"
             /\ UNCHANGED result
  BY <1>3 DEF LoseProcess
<1>4. ASSUME Kill PROVE Entries'
  <2>1. UNCHANGED <<temp, outages>> /\ LoseProcess
    BY <1>4 DEF Kill
  <2> QED
    BY <1>3, <2>1 DEF Entries, Running, BeforeLastCheck
<1>5. ASSUME PowerLoss PROVE Entries'
  <2>1. LoseProcess /\ outages' = outages + 1
    BY <1>5 DEF PowerLoss
  <2>2. \A e \in Exporters : temp[e] = "none" => temp'[e] = "none"
    BY <1>5 DEF PowerLoss
  <2>3. outages' # 0
    BY <2>1, BoundsAssumption DEF TypeOK
  <2> QED
    BY <1>3, <2>1, <2>2, <2>3 DEF Entries, Running, BeforeLastCheck
<1>6. ASSUME UNCHANGED vars PROVE Entries'
  BY <1>6 DEF vars, taskVars, fileVars, Entries
<1> QED
  BY <1>1, <1>2, <1>4, <1>5, <1>6, EntriesThread DEF Next, Environment

-----------------------------------------------------------------------------
(* The theorems.                                                           *)

LEMMA InvInit == Init => Inv
<1> SUFFICES ASSUME Init PROVE Inv
  OBVIOUS
<1>1. TypeOK
  BY TypeInit
<1>2. Published = {} /\ OnDisk = {}
  BY DEF Init, Published, OnDisk
<1>3. Tasks
  BY DEF Init, Tasks, Active, Running, BeforeLastCheck
<1>4. Contents
  <2>1. \A e \in Exporters : stable[e] = 0 /\ cached[e] = 0 /\ handed[e] = 0 /\ pc[e] = "none"
    BY DEF Init
  <2>2. \A e \in Exporters : stable[e] <= cached[e] /\ cached[e] <= handed[e]
    <3>1. 0 <= 0
      OBVIOUS
    <3> QED
      BY <2>1, <3>1
  <2> QED
    BY <1>2, <2>1, <2>2 DEF Contents
<1>5. Renames
  BY <1>2 DEF Init, Renames
<1>6. Entries
  BY DEF Init, Entries
<1> QED
  BY <1>1, <1>3, <1>4, <1>5, <1>6 DEF Inv

LEMMA InvStep == Inv /\ [Next]_vars => Inv'
  BY TypeStep, TasksStep, ContentsStep, RenamesStep, EntriesStep DEF Inv

\* The inductive invariant holds in every behaviour of the exports.
THEOREM Invariant == Spec => []Inv
  BY InvInit, InvStep, PTL DEF Spec

\* Every variable of the exports keeps its type.
THEOREM TypeCorrect == Spec => []TypeOK
<1>1. Inv => TypeOK
  BY DEF Inv
<1> QED
  BY <1>1, Invariant, PTL

\* Whatever is interrupted, the file under the target's name is complete: a
\* rename is made only of a file that is wholly on disk, and no later step takes
\* a published file's chunks back.
THEOREM TargetIsComplete == Spec => []TargetComplete
<1>1. Inv => TargetComplete
  <2> SUFFICES ASSUME Inv, commits # <<>>
               PROVE  cached[commits[Len(commits)]] = Chunks
    BY DEF TargetComplete
  <2> DEFINE e == commits[Len(commits)]
  <2>1. Len(commits) \in 1..Len(commits)
    BY DEF Inv, TypeOK
  <2>2. e \in Exporters /\ e \in Published
    BY <2>1 DEF Inv, TypeOK, Published
  <2>3. stable[e] = Chunks /\ stable[e] <= cached[e] /\ cached[e] \in 0..Chunks
    BY <2>2 DEF Inv, Contents, TypeOK
  <2> HIDE DEF e
  <2> QED
    BY <2>3, ChunksAssumption DEF e
<1> QED
  BY <1>1, Invariant, PTL

\* An export that returned normally is on disk where directories can be synced,
\* and stays there through every later loss of power.
THEOREM ReturnedExportIsDurable == Spec => []ReturnedIsDurable
<1>1. Inv => ReturnedIsDurable
  BY DEF Inv, Renames, ReturnedIsDurable
<1> QED
  BY <1>1, Invariant, PTL

\* A thread that ended leaves no temporary file, unless unlinking it failed.
THEOREM NoTemporaryFileLeft == Spec => []NoOrphanTemp
<1>1. Inv => NoOrphanTemp
  BY DEF Inv, Entries, NoOrphanTemp
<1> QED
  BY <1>1, Invariant, PTL

\* CancelledError reaches the caller only when the thread has ended, or the loop
\* is being torn down.
THEOREM CancellationIsQuiet == Spec => []CancelledIsQuiet
<1>1. Inv => CancelledIsQuiet
  BY DEF Inv, TypeOK, Places, Tasks, Active, CancelledIsQuiet
<1> QED
  BY <1>1, Invariant, PTL

-----------------------------------------------------------------------------
(* The action properties.                                                  *)

\* Only the rename of its own thread publishes an export.
LEMMA OnlyReplacePublishes ==
  ASSUME TypeOK, [Next]_vars, NEW e \in Exporters, commits' = Append(commits, e)
  PROVE  Replace(e) /\ ~Fail(e)
<1>1. commits \in Seq(Exporters) /\ Len(commits') = Len(commits) + 1
  BY AppendProperties DEF TypeOK
<1>2. commits' # commits
  BY <1>1
<1>3. ~PowerLoss
  <2> SUFFICES ASSUME PowerLoss PROVE FALSE
    OBVIOUS
  <2>1. PICK n \in synced..Len(commits) : commits' = SubSeq(commits, 1, n) /\ synced' = n
    BY DEF PowerLoss
  <2>2. Len(commits') = n /\ n <= Len(commits)
    BY <2>1, PowerLossKeeps DEF TypeOK
  <2> QED
    BY <1>1, <2>2 DEF TypeOK
<1>4. PICK f \in Exporters : Replace(f) /\ ~Fail(f)
  BY <1>2, <1>3
     DEF Next, Thread, Task, Environment, Enter, WriteChunk, BodyRaises, BodyEnds,
         CheckAfterBody, Flush, Fsync, Close, CheckAfterClose, Replace, SyncDirectory, Cleanup,
         RaiseIfCancelled, Fail, Unwind, Resume, CatchCancel, Quiesce, WorkerDone,
         WorkerCancelled, Start, Cancel, Shutdown, Kill, fileVars, vars
<1>5. commits' = Append(commits, f)
  BY <1>4 DEF Replace
<1>6. e = f
  <2>1. Append(commits, e)[Len(commits) + 1] = e /\ Append(commits, f)[Len(commits) + 1] = f
    BY <1>1, AppendProperties
  <2> QED
    BY <1>5, <2>1
<1> QED
  BY <1>4, <1>6

\* No thread replaces the target for a caller who has been told the outcome.
THEOREM NoReplaceAfterAnswer == Spec => NoLateReplace
<1>1. ASSUME Inv, [Next]_vars
      PROVE  \A e \in Exporters :
               commits' = Append(commits, e) => task[e] \in Active \/ shutdown
  <2> SUFFICES ASSUME NEW e \in Exporters, commits' = Append(commits, e)
               PROVE  task[e] \in Active \/ shutdown
    OBVIOUS
  <2>1. pc[e] = "replace"
    BY <1>1, OnlyReplacePublishes DEF Inv, Replace
  <2> QED
    BY <1>1, <2>1 DEF Inv, Tasks, Running
<1> QED
  BY <1>1, Invariant, PTL DEF Spec, NoLateReplace

\* An export whose cancellation was seen in time.
Doomed(e) ==
  event[e] /\ pc[e] \notin {"replace", "sync_directory"} /\ e \notin Published

LEMMA DoomedStays ==
  ASSUME NEW e \in Exporters, Inv, Doomed(e), [Next]_vars
  PROVE  Doomed(e)'
<1> USE DEF Inv
<1>1. event'[e]
  BY DEF Doomed, TypeOK, Next, Thread, Task, Environment, Enter, WriteChunk, BodyRaises,
         BodyEnds, CheckAfterBody, Flush, Fsync, Close, CheckAfterClose, Replace, SyncDirectory,
         Cleanup, RaiseIfCancelled, Fail, Unwind, Resume, CatchCancel, Quiesce, WorkerDone,
         WorkerCancelled, Start, Cancel, Shutdown, Kill, PowerLoss, LoseProcess, taskVars, vars
<1>2. pc'[e] \notin {"replace", "sync_directory"}
  <2>1. CASE Thread(e)
    BY <2>1 DEF Doomed, TypeOK, Thread, Enter, WriteChunk, BodyRaises, BodyEnds, CheckAfterBody,
       Flush, Fsync, Close, CheckAfterClose, Replace, SyncDirectory, Cleanup, RaiseIfCancelled,
       Fail, Unwind, Goto
  <2>2. ASSUME NEW f \in Exporters \ {e}, Thread(f) PROVE pc'[e] = pc[e]
    BY <2>2, ThreadMoves DEF TypeOK
  <2>3. ASSUME NEW f \in Exporters, Task(f) \/ Start(f) \/ Cancel(f)
        PROVE  pc'[e] = pc[e] \/ pc'[e] \in {"queued", "dropped"}
    BY <2>3 DEF Task, Resume, CatchCancel, Quiesce, WorkerDone, WorkerCancelled, Start, Cancel,
       TypeOK
  <2>4. ASSUME LoseProcess PROVE pc'[e] = pc[e] \/ pc'[e] = "lost"
    BY <2>4 DEF LoseProcess
  <2> QED
    BY <2>1, <2>2, <2>3, <2>4 DEF Doomed, Next, Environment, Shutdown, Kill, PowerLoss, vars
<1>3. e \notin Published'
  <2>1. CASE UNCHANGED commits
    BY <2>1, PublishedKept DEF Doomed
  <2>2. CASE PowerLoss
    <3>1. PICK n \in synced..Len(commits) : commits' = SubSeq(commits, 1, n) /\ synced' = n
      BY <2>2 DEF PowerLoss
    <3> QED
      BY <3>1, PowerLossKeeps DEF Doomed
  <2>3. ASSUME NEW f \in Exporters, Replace(f), ~Fail(f) PROVE e \notin Published'
    <3>1. Published' = Published \cup {f} /\ pc[f] = "replace"
      BY <2>3, RenameAdds DEF Replace
    <3> QED
      BY <3>1 DEF Doomed
  <2> QED
    BY <2>1, <2>2, <2>3
       DEF Next, Thread, Task, Environment, Enter, WriteChunk, BodyRaises, BodyEnds,
           CheckAfterBody, Flush, Fsync, Close, CheckAfterClose, Replace, SyncDirectory, Cleanup,
           RaiseIfCancelled, Fail, Unwind, Resume, CatchCancel, Quiesce, WorkerDone,
           WorkerCancelled, Start, Cancel, Shutdown, Kill, fileVars, vars
<1> QED
  BY <1>1, <1>2, <1>3 DEF Doomed

\* A cancellation seen before the second check is honoured: the export never
\* replaces the target.
THEOREM CancellationIsHonoured == Spec => CancellationHonoured
<1> SUFFICES ASSUME NEW e \in Exporters
             PROVE  Spec => [](event[e] /\ pc[e] \in BeforeLastCheck => [](e \notin Published))
  BY DEF CancellationHonoured
<1>1. Inv /\ event[e] /\ pc[e] \in BeforeLastCheck => Doomed(e)
  BY DEF Inv, Renames, Doomed, BeforeLastCheck
<1>2. Inv /\ Doomed(e) /\ [Next]_vars => Doomed(e)'
  BY DoomedStays
<1>3. Doomed(e) => e \notin Published
  BY DEF Doomed
<1> QED
  BY <1>1, <1>2, <1>3, Invariant, PTL DEF Spec
=============================================================================
