---------------------------- MODULE TargetCommit ----------------------------
(***************************************************************************)
(* The export of an Office document in several target locales              *)
(* (src/lokit/office/backend.py: _write_target_outputs, _write_output and  *)
(* _commit_target_outputs).                                                *)
(*                                                                         *)
(* Every locale's file is first written to a staging directory beside the  *)
(* output directory.  An output directory that does not exist is made by   *)
(* renaming the staging directory; else each file is moved in by itself,   *)
(* the file it replaces is kept in .backups of the staging directory, and  *)
(* an error or a cancellation undoes the moves in reverse.                 *)
(*                                                                         *)
(* Locales are numbered in the order of the targets.  One export is        *)
(* modelled; a rename is one step, and the process can die between any two.*)
(***************************************************************************)
EXTENDS Naturals

CONSTANTS
  Locales,    \* number of target locales
  MaxFaults,  \* bound: errors raised by the file system or the documents
  MaxKills    \* bound: kills of the process

ASSUME LocalesAssumption == Locales \in Nat \ {0}
ASSUME BoundsAssumption == MaxFaults \in Nat /\ MaxKills \in Nat

VARIABLES
  pc,         \* where the export is
  next,       \* the locale in hand
  staged,     \* locales whose file is in the staging directory
  staging,    \* the staging directory
  directory,  \* whether the output directory exists
  before,     \* what the output directory held for each locale at first
  dest,       \* what it holds now
  backups,    \* locales whose old file is in .backups
  committed,  \* number of locales in the list committed
  cancelled,  \* the cancellation event
  lateFault,  \* an error occurred while undoing or removing
  faults, kills

vars == <<pc, next, staged, staging, directory, before, dest, backups, committed,
          cancelled, lateFault, faults, kills>>

Targets == 1..Locales
Absent  == [t \in Targets |-> "absent"]
New     == [t \in Targets |-> "new"]
Places  == {"start", "locale", "write", "validate", "commit", "make", "made", "backup",
            "install", "restore", "unlink", "put_back", "discard", "finish"}
Ended   == {"returned", "raised", "killed"}

TypeOK ==
  /\ pc \in Places \cup Ended
  /\ next \in 1..Locales + 1
  /\ staged \subseteq Targets
  /\ staging \in {"none", "present", "gone"}
  /\ directory \in BOOLEAN
  /\ before \in [Targets -> {"absent", "old", "other"}]
  /\ dest \in [Targets -> {"absent", "old", "other", "new"}]
  /\ backups \subseteq Targets
  /\ committed \in 0..Locales
  /\ cancelled \in BOOLEAN
  /\ lateFault \in BOOLEAN
  /\ faults \in 0..MaxFaults
  /\ kills \in 0..MaxKills

Init ==
  /\ pc = "start" /\ next = 1
  /\ staged = {} /\ staging = "none"
  /\ directory \in BOOLEAN
  /\ before \in IF directory THEN [Targets -> {"absent", "old", "other"}] ELSE {Absent}
  /\ dest = before
  /\ backups = {} /\ committed = 0
  /\ cancelled = FALSE /\ lateFault = FALSE
  /\ faults = 0 /\ kills = 0

-----------------------------------------------------------------------------
Fault == faults < MaxFaults /\ faults' = faults + 1

\* raise_if_cancelled, or an error: the export goes to where it is handled
Raises(handler) ==
  /\ \/ cancelled /\ UNCHANGED faults
     \/ Fault
  /\ pc' = handler

NoRaise(place) == ~cancelled /\ pc' = place /\ UNCHANGED faults

fileVars == <<staged, staging, directory, dest, backups>>

-----------------------------------------------------------------------------
(* _write_target_outputs and _write_output.                                *)

Start ==
  /\ pc = "start"
  /\ \/ /\ pc' = "locale" /\ staging' = "present" /\ UNCHANGED faults
     \/ /\ Fault /\ pc' = "raised" /\ UNCHANGED staging
  /\ UNCHANGED <<next, staged, directory, before, dest, backups, committed, cancelled,
                 lateFault, kills>>

\* the next locale's document is selected; its temporary file, which goes with
\* the staging directory, is created
NextLocale ==
  /\ pc = "locale"
  /\ \/ next <= Locales /\ NoRaise("write")
     \/ next = Locales + 1 /\ NoRaise("commit")
     \/ Raises("discard")
  /\ UNCHANGED <<next, fileVars, before, committed, cancelled, lateFault, kills>>

\* the worker, or the rewriting in Python, fills the temporary file
Write ==
  /\ pc = "write"
  /\ NoRaise("validate") \/ Raises("discard")
  /\ UNCHANGED <<next, fileVars, before, committed, cancelled, lateFault, kills>>

\* the package is validated and renamed into the staging directory
Validate ==
  /\ pc = "validate"
  /\ \/ NoRaise("locale") /\ staged' = staged \cup {next} /\ next' = next + 1
     \/ Raises("discard") /\ UNCHANGED <<staged, next>>
  /\ UNCHANGED <<staging, directory, before, dest, backups, committed, cancelled, lateFault, kills>>

-----------------------------------------------------------------------------
(* _commit_target_outputs.                                                 *)

\* a missing output directory is made; in a present one every file replaced is
\* regular, and mkdir .backups
Commit ==
  /\ pc = "commit"
  /\ \/ ~directory /\ NoRaise("make") /\ UNCHANGED next
     \/ ~directory /\ Raises("discard") /\ UNCHANGED next
     \/ /\ directory /\ \A t \in Targets : dest[t] # "other"
        /\ pc' = "backup" /\ next' = 1 /\ UNCHANGED faults
     \/ /\ directory /\ \E t \in Targets : dest[t] = "other"
        /\ pc' = "discard" /\ UNCHANGED <<next, faults>>
     \/ directory /\ Fault /\ pc' = "discard" /\ UNCHANGED next
  /\ UNCHANGED <<fileVars, before, committed, cancelled, lateFault, kills>>

\* os.replace(staging_directory, output_path)
MakeDirectory ==
  /\ pc = "make"
  /\ \/ /\ pc' = "made" /\ directory' = TRUE /\ staging' = "gone" /\ dest' = New
        /\ UNCHANGED faults
     \/ /\ Fault /\ pc' = "discard" /\ UNCHANGED <<directory, staging, dest>>
  /\ UNCHANGED <<next, staged, before, backups, committed, cancelled, lateFault, kills>>

\* the last check; a cancelled export removes the directory again, errors ignored
MadeDirectory ==
  /\ pc = "made"
  /\ \/ ~cancelled /\ pc' = "finish" /\ UNCHANGED <<directory, dest, lateFault, faults>>
     \/ /\ cancelled /\ pc' = "raised"
        /\ directory' = FALSE /\ dest' = Absent /\ UNCHANGED <<lateFault, faults>>
     \/ /\ cancelled /\ pc' = "raised"
        /\ Fault /\ lateFault' = TRUE
        /\ \E left \in SUBSET Targets :
             dest' = [t \in Targets |-> IF t \in left THEN "new" ELSE "absent"]
        /\ UNCHANGED directory
  /\ UNCHANGED <<next, staged, staging, before, backups, committed, cancelled, kills>>

\* mutant: no check after the last locale
BackUpUnchecked ==
  /\ pc = "backup"
  /\ \/ /\ next <= Locales /\ NoRaise("install")
        /\ IF dest[next] = "absent"
             THEN UNCHANGED <<dest, backups>>
             ELSE dest' = [dest EXCEPT ![next] = "absent"] /\ backups' = backups \cup {next}
     \/ /\ next = Locales + 1 /\ pc' = "finish" /\ UNCHANGED <<dest, backups, faults>>
     \/ /\ next <= Locales /\ Raises("unlink") /\ UNCHANGED <<dest, backups>>
  /\ UNCHANGED <<next, staged, staging, directory, before, committed, cancelled,
                 lateFault, kills>>

\* mutant: the old file is overwritten, not backed up
BackUpMissing ==
  /\ pc = "backup"
  /\ \/ next <= Locales /\ NoRaise("install")
     \/ next = Locales + 1 /\ NoRaise("finish")
     \/ Raises("unlink")
  /\ UNCHANGED <<dest, backups>>
  /\ UNCHANGED <<next, staged, staging, directory, before, committed, cancelled,
                 lateFault, kills>>

\* a turn of the loop: the check, then a present file is moved to the backups
BackUp ==
  /\ pc = "backup"
  /\ \/ /\ next <= Locales /\ NoRaise("install")
        /\ IF dest[next] = "absent"
             THEN UNCHANGED <<dest, backups>>
             ELSE dest' = [dest EXCEPT ![next] = "absent"] /\ backups' = backups \cup {next}
     \/ /\ next = Locales + 1 /\ NoRaise("finish") /\ UNCHANGED <<dest, backups>>
     \/ /\ Raises("unlink") /\ UNCHANGED <<dest, backups>>
  /\ UNCHANGED <<next, staged, staging, directory, before, committed, cancelled,
                 lateFault, kills>>

\* os.replace(source, destination); committed.append
Install ==
  /\ pc = "install"
  /\ \/ /\ pc' = "backup"
        /\ dest' = [dest EXCEPT ![next] = "new"]
        /\ staged' = staged \ {next} /\ committed' = next /\ next' = next + 1
        /\ UNCHANGED faults
     \/ /\ Fault /\ pc' = IF next \in backups THEN "restore" ELSE "unlink"
        /\ UNCHANGED <<dest, staged, committed, next>>
  /\ UNCHANGED <<staging, directory, before, backups, cancelled, lateFault, kills>>

\* an error of an undoing step: the loop over committed ends with it
UndoFails == Fault /\ lateFault' = TRUE

PutBack(t) == dest' = [dest EXCEPT ![t] = "old"] /\ backups' = backups \ {t}

\* mutant: the inner handler is missing
RestoreMissing ==
  /\ pc = "restore" /\ pc' = "unlink"
  /\ UNCHANGED <<next, staged, staging, directory, before, dest, backups, committed,
                 cancelled, lateFault, faults, kills>>

\* the locale in hand gets its old file back, and the others are undone
Restore ==
  /\ pc = "restore" /\ pc' = "unlink"
  /\ \/ PutBack(next) /\ UNCHANGED <<lateFault, faults>>
     \/ UndoFails /\ UNCHANGED <<dest, backups>>
  /\ UNCHANGED <<next, staged, staging, directory, before, committed, cancelled, kills>>

\* for destination, backup in reversed(committed): the new file is unlinked
Unlink ==
  /\ pc = "unlink"
  /\ \/ /\ committed = 0 /\ pc' = "discard" /\ UNCHANGED <<dest, lateFault, faults, committed>>
     \/ /\ committed > 0
        /\ dest' = [dest EXCEPT ![committed] = "absent"]
        /\ IF committed \in backups
             THEN pc' = "put_back" /\ UNCHANGED committed
             ELSE pc' = "unlink" /\ committed' = committed - 1
        /\ UNCHANGED <<lateFault, faults>>
     \/ /\ committed > 0 /\ UndoFails /\ pc' = "discard" /\ UNCHANGED <<dest, committed>>
  /\ UNCHANGED <<next, staged, staging, directory, before, backups, cancelled, kills>>

\* os.replace(backup, destination)
PutBackCommitted ==
  /\ pc = "put_back"
  /\ \/ /\ PutBack(committed) /\ pc' = "unlink" /\ committed' = committed - 1
        /\ UNCHANGED <<lateFault, faults>>
     \/ /\ UndoFails /\ pc' = "discard" /\ UNCHANGED <<dest, backups, committed>>
  /\ UNCHANGED <<next, staged, staging, directory, before, cancelled, kills>>

-----------------------------------------------------------------------------
(* The end of the `with tempfile.TemporaryDirectory` block.                *)

\* everything in the staging directory is removed, its backups too
RemoveStaging == staging' = "gone" /\ staged' = {} /\ backups' = {}

\* mutant: a cancelled export leaves its staging directory
DiscardUnlessCancelled ==
  /\ pc = "discard" /\ pc' = "raised"
  /\ IF cancelled THEN UNCHANGED <<staging, staged, backups>> ELSE RemoveStaging
  /\ UNCHANGED <<next, directory, before, dest, committed, cancelled, lateFault, faults, kills>>

\* on an exception, which an error of the removal only replaces
Discard ==
  /\ pc = "discard" /\ pc' = "raised"
  /\ \/ RemoveStaging /\ UNCHANGED <<lateFault, faults>>
     \/ UndoFails /\ UNCHANGED <<staging, staged, backups>>
  /\ UNCHANGED <<next, directory, before, dest, committed, cancelled, kills>>

\* after the commit, whose files stay even if the removal raises
Finish ==
  /\ pc = "finish"
  /\ \/ pc' = "returned" /\ RemoveStaging /\ UNCHANGED <<lateFault, faults>>
     \/ pc' = "raised" /\ staging = "present" /\ UndoFails /\ UNCHANGED <<staging, staged, backups>>
  /\ UNCHANGED <<next, directory, before, dest, committed, cancelled, kills>>

-----------------------------------------------------------------------------
Cancel ==
  /\ pc \notin Ended /\ ~cancelled
  /\ cancelled' = TRUE
  /\ UNCHANGED <<pc, next, fileVars, before, committed, lateFault, faults, kills>>

Kill ==
  /\ pc \notin Ended /\ kills < MaxKills
  /\ kills' = kills + 1
  /\ pc' = "killed"
  /\ UNCHANGED <<next, fileVars, before, committed, cancelled, lateFault, faults>>

Export ==
  \/ Start \/ NextLocale \/ Write \/ Validate
  \/ Commit \/ MakeDirectory \/ MadeDirectory \/ BackUp \/ Install
  \/ Restore \/ Unlink \/ PutBackCommitted \/ Discard \/ Finish

Next == Export \/ Cancel \/ Kill

Spec == Init /\ [][Next]_vars

\* the exporting thread makes progress
FairSpec == Spec /\ WF_vars(Export)

-----------------------------------------------------------------------------
(* Properties.                                                             *)

\* The export is all or nothing for its caller: when it returns every locale's
\* file is new, and when it raises the directory is as it was before, unless an
\* error struck while it was being undone or while the staging was removed.
AllOrNothing ==
  /\ pc = "returned" => dest = New
  /\ pc = "raised" /\ ~lateFault => dest = before

\* No old file is lost before all the new ones are in place: it is still under
\* its own name or in .backups, at every instant, so also after a kill.
OriginalsSurvive ==
  \/ dest = New \/ lateFault
  \/ \A t \in Targets : before[t] = "old" => dest[t] = "old" \/ t \in backups

\* A cancellation set before the last check is honoured: the export raises.
CancellationHonoured ==
  [](cancelled /\ pc \notin {"finish", "returned"} => [](pc # "returned"))

\* The export ends, and leaves no staging directory behind unless removing it
\* failed or the process was killed.
EndsWithoutStaging ==
  <>(pc \in Ended /\ (pc = "killed" \/ lateFault \/ staging # "present"))
=============================================================================
