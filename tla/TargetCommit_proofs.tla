------------------------- MODULE TargetCommit_proofs -------------------------
(***************************************************************************)
(* Proofs about TargetCommit, for any number of locales, faults and kills. *)
(*                                                                         *)
(* The invariant gives, at each place of the commit, the state of every    *)
(* locale: replaced with its old file kept, in hand, or untouched.  It says *)
(* nothing of the files once an error struck while they were put back.     *)
(***************************************************************************)
EXTENDS TargetCommit, TLAPS

Committed(t) == dest[t] = "new" /\ (t \in backups <=> before[t] = "old")
InHand(t)    == dest[t] = "absent" /\ (t \in backups <=> before[t] = "old")
Untouched(t) == dest[t] = before[t] /\ t \notin backups

Preparing  == {"start", "locale", "write", "validate", "commit", "make"}
Installing == {"backup", "install", "restore"}
Undoing    == {"unlink", "put_back"}

\* the locale whose file is away between its two renames, or 0
Away ==
  IF pc \in {"install", "restore"} THEN next ELSE IF pc = "put_back" THEN committed ELSE 0

Prepared ==
  /\ pc \in Preparing => dest = before /\ backups = {} /\ committed = 0
  /\ pc \in Preparing /\ ~directory => before = Absent
  /\ pc = "make" => ~directory
  /\ pc = "made" => before = Absent

Positions ==
  /\ pc \in Installing => committed = next - 1
  /\ pc \in {"write", "validate", "install", "restore"} => next <= Locales
  /\ pc = "restore" => next \in backups
  /\ pc = "put_back" => committed > 0 /\ committed \in backups
  /\ pc \in Installing \cup Undoing => \A t \in Targets : before[t] # "other"

Files ==
  pc \in Installing \cup Undoing /\ ~lateFault =>
    \A t \in Targets :
      /\ t <= committed /\ t # Away => Committed(t)
      /\ t = Away => InHand(t)
      /\ t > committed /\ t # Away => Untouched(t)

Outcome ==
  /\ lateFault => pc \in Undoing \cup {"discard", "raised", "killed"}
  /\ pc \in {"made", "finish", "returned"} => dest = New
  /\ pc \in {"discard", "raised"} /\ ~lateFault => dest = before

Inv == TypeOK /\ Prepared /\ Positions /\ Files /\ Outcome /\ OriginalsSurvive

\* The start makes the staging directory only.
LEMMA StartKeeps == ASSUME Inv, Start PROVE Inv'
<1> USE LocalesAssumption, BoundsAssumption DEF Inv, Start, Fault, Places, Ended,
      Targets, Absent, New
<1>1. TypeOK'
  BY DEF TypeOK
<1>2. Prepared'
  BY DEF Prepared, Preparing
<1>3. Positions'
  BY DEF Positions, Installing, Undoing
<1>4. Files'
  BY DEF Files, Installing, Undoing
<1>5. Outcome'
  BY DEF Prepared, Outcome, Preparing, Undoing
<1>6. OriginalsSurvive'
  BY <1>1, <1>2, <1>3, <1>4, <1>5 DEF OriginalsSurvive
<1> QED BY <1>1, <1>2, <1>3, <1>4, <1>5, <1>6

\* The loop over the locales moves no file of the output directory.
LEMMA NextLocaleKeeps == ASSUME Inv, NextLocale PROVE Inv'
<1> USE LocalesAssumption, BoundsAssumption DEF Inv, NextLocale, Raises, NoRaise, Fault,
      fileVars, Places, Ended, Targets, Absent, New
<1>1. TypeOK'
  BY DEF TypeOK
<1>2. Prepared'
  BY DEF Prepared, Preparing
<1>3. Positions'
  BY DEF Positions, Installing, Undoing
<1>4. Files'
  BY DEF Files, Installing, Undoing
<1>5. Outcome'
  BY DEF Prepared, Outcome, Preparing, Undoing
<1>6. OriginalsSurvive'
  BY <1>1, <1>2, <1>3, <1>4, <1>5 DEF OriginalsSurvive
<1> QED BY <1>1, <1>2, <1>3, <1>4, <1>5, <1>6

\* Nor does writing a temporary file,
LEMMA WriteKeeps == ASSUME Inv, Write PROVE Inv'
<1> USE LocalesAssumption, BoundsAssumption DEF Inv, Write, Raises, NoRaise, Fault,
      fileVars, Places, Ended, Targets, Absent, New
<1>1. TypeOK'
  BY DEF TypeOK
<1>2. Prepared'
  BY DEF Prepared, Preparing
<1>3. Positions'
  BY DEF Positions, Installing, Undoing
<1>4. Files'
  BY DEF Files, Installing, Undoing
<1>5. Outcome'
  BY DEF Prepared, Outcome, Preparing, Undoing
<1>6. OriginalsSurvive'
  BY <1>1, <1>2, <1>3, <1>4, <1>5 DEF OriginalsSurvive
<1> QED BY <1>1, <1>2, <1>3, <1>4, <1>5, <1>6

\* or renaming it into the staging directory.
LEMMA ValidateKeeps == ASSUME Inv, Validate PROVE Inv'
<1> USE LocalesAssumption, BoundsAssumption DEF Inv, Validate, Raises, NoRaise, Fault,
      Places, Ended, Targets, Absent, New
<1>1. TypeOK'
  <2>1. directory' \in BOOLEAN /\ cancelled' \in BOOLEAN
    BY DEF TypeOK
  <2>2. lateFault' \in BOOLEAN
    BY DEF TypeOK
  <2>3. pc' \in Places \cup Ended /\ staging' \in {"none", "present", "gone"}
    BY DEF TypeOK
  <2>4. dest' \in [Targets -> {"absent", "old", "other", "new"}]
    BY DEF TypeOK
  <2>5. next' \in 1..Locales + 1 /\ committed' \in 0..Locales
    BY DEF TypeOK, Positions
  <2>6. staged' \subseteq Targets
    <3>1. next <= Locales => next \in Targets
      BY DEF TypeOK
    <3> QED BY <3>1 DEF TypeOK, Positions
  <2>7. backups' \subseteq Targets
    <3>1. next <= Locales => next \in Targets
      BY DEF TypeOK
    <3> QED BY <3>1 DEF TypeOK
  <2>8. faults' \in 0..MaxFaults
    BY DEF TypeOK
  <2> QED BY <2>1, <2>2, <2>3, <2>4, <2>5, <2>6, <2>7, <2>8 DEF TypeOK
<1>2. Prepared'
  BY DEF Prepared, Preparing
<1>3. Positions'
  BY DEF Positions, Installing, Undoing
<1>4. Files'
  BY DEF Files, Installing, Undoing
<1>5. Outcome'
  BY DEF Prepared, Outcome, Preparing, Undoing
<1>6. OriginalsSurvive'
  BY <1>1, <1>2, <1>3, <1>4, <1>5 DEF OriginalsSurvive
<1> QED BY <1>1, <1>2, <1>3, <1>4, <1>5, <1>6

\* The commit begins with every file untouched, and all regular in a directory that exists.
LEMMA CommitKeeps == ASSUME Inv, Commit PROVE Inv'
<1> USE LocalesAssumption, BoundsAssumption DEF Inv, Commit, Raises, NoRaise, Fault,
      fileVars, Places, Ended, Targets, Absent, New
<1>1. TypeOK'
  BY DEF TypeOK
<1>2. Prepared'
  BY DEF Prepared, Preparing
<1>3. Positions'
  BY DEF Prepared, Positions, Preparing, Installing, Undoing
<1>4. Files'
  BY DEF Prepared, Files, Away, Untouched, Preparing
<1>5. Outcome'
  BY DEF Prepared, Outcome, Preparing, Undoing
<1>6. OriginalsSurvive'
  BY <1>1, <1>2, <1>3, <1>4, <1>5 DEF OriginalsSurvive
<1> QED BY <1>1, <1>2, <1>3, <1>4, <1>5, <1>6

\* A new directory holds every new file.
LEMMA MakeDirectoryKeeps == ASSUME Inv, MakeDirectory PROVE Inv'
<1> USE LocalesAssumption, BoundsAssumption DEF Inv, MakeDirectory, Fault, Places,
      Ended, Targets, Absent, New
<1>1. TypeOK'
  <2>1. directory' \in BOOLEAN /\ cancelled' \in BOOLEAN
    BY DEF TypeOK
  <2>2. lateFault' \in BOOLEAN
    BY DEF TypeOK
  <2>3. pc' \in Places \cup Ended /\ staging' \in {"none", "present", "gone"}
    BY DEF TypeOK
  <2>4. dest' \in [Targets -> {"absent", "old", "other", "new"}]
    BY DEF TypeOK
  <2>5. next' \in 1..Locales + 1 /\ committed' \in 0..Locales
    BY DEF TypeOK
  <2>6. staged' \subseteq Targets
    <3>1. next <= Locales => next \in Targets
      BY DEF TypeOK
    <3> QED BY <3>1 DEF TypeOK
  <2>7. backups' \subseteq Targets
    <3>1. next <= Locales => next \in Targets
      BY DEF TypeOK
    <3> QED BY <3>1 DEF TypeOK
  <2>8. faults' \in 0..MaxFaults
    BY DEF TypeOK
  <2> QED BY <2>1, <2>2, <2>3, <2>4, <2>5, <2>6, <2>7, <2>8 DEF TypeOK
<1>2. Prepared'
  BY DEF Prepared, Preparing
<1>3. Positions'
  BY DEF Positions, Installing, Undoing
<1>4. Files'
  BY DEF Files, Installing, Undoing
<1>5. Outcome'
  BY DEF Prepared, Outcome, Preparing, Undoing
<1>6. OriginalsSurvive'
  BY <1>1, <1>2, <1>3, <1>4, <1>5 DEF OriginalsSurvive
<1> QED BY <1>1, <1>2, <1>3, <1>4, <1>5, <1>6

\* A cancelled export leaves no directory, as before.
LEMMA MadeDirectoryKeeps == ASSUME Inv, MadeDirectory PROVE Inv'
<1> USE LocalesAssumption, BoundsAssumption DEF Inv, MadeDirectory, Fault, Places,
      Ended, Targets, Absent, New
<1>1. TypeOK'
  <2>1. directory' \in BOOLEAN /\ cancelled' \in BOOLEAN
    BY DEF TypeOK
  <2>2. lateFault' \in BOOLEAN
    BY DEF TypeOK
  <2>3. pc' \in Places \cup Ended /\ staging' \in {"none", "present", "gone"}
    BY DEF TypeOK
  <2>4. dest' \in [Targets -> {"absent", "old", "other", "new"}]
    BY DEF TypeOK
  <2>5. next' \in 1..Locales + 1 /\ committed' \in 0..Locales
    BY DEF TypeOK
  <2>6. staged' \subseteq Targets
    <3>1. next <= Locales => next \in Targets
      BY DEF TypeOK
    <3> QED BY <3>1 DEF TypeOK
  <2>7. backups' \subseteq Targets
    <3>1. next <= Locales => next \in Targets
      BY DEF TypeOK
    <3> QED BY <3>1 DEF TypeOK
  <2>8. faults' \in 0..MaxFaults
    BY DEF TypeOK
  <2> QED BY <2>1, <2>2, <2>3, <2>4, <2>5, <2>6, <2>7, <2>8 DEF TypeOK
<1>2. Prepared'
  BY DEF Prepared, Preparing
<1>3. Positions'
  BY DEF Positions, Installing, Undoing
<1>4. Files'
  BY DEF Files, Installing, Undoing
<1>5. Outcome'
  BY DEF Prepared, Outcome, Undoing
<1>6. OriginalsSurvive'
  BY <1>1, <1>2, <1>3, <1>4, <1>5 DEF OriginalsSurvive, Prepared
<1> QED BY <1>1, <1>2, <1>3, <1>4, <1>5, <1>6

\* The locale in hand loses its old file to the backups; after the last locale all are new.
LEMMA BackUpKeeps == ASSUME Inv, BackUp PROVE Inv'
<1> USE LocalesAssumption, BoundsAssumption DEF Inv, BackUp, Raises, NoRaise, Fault,
      Places, Ended, Targets, Absent, New
<1>1. TypeOK'
  <2>1. directory' \in BOOLEAN /\ cancelled' \in BOOLEAN
    BY DEF TypeOK
  <2>2. lateFault' \in BOOLEAN
    BY DEF TypeOK
  <2>3. pc' \in Places \cup Ended /\ staging' \in {"none", "present", "gone"}
    BY DEF TypeOK
  <2>4. dest' \in [Targets -> {"absent", "old", "other", "new"}]
    BY DEF TypeOK
  <2>5. next' \in 1..Locales + 1 /\ committed' \in 0..Locales
    BY DEF TypeOK
  <2>6. staged' \subseteq Targets
    <3>1. next <= Locales => next \in Targets
      BY DEF TypeOK
    <3> QED BY <3>1 DEF TypeOK
  <2>7. backups' \subseteq Targets
    <3>1. next <= Locales => next \in Targets
      BY DEF TypeOK
    <3> QED BY <3>1 DEF TypeOK
  <2>8. faults' \in 0..MaxFaults
    BY DEF TypeOK
  <2> QED BY <2>1, <2>2, <2>3, <2>4, <2>5, <2>6, <2>7, <2>8 DEF TypeOK
<1>2. Prepared'
  BY DEF Prepared, Preparing
<1>3. Positions'
  BY DEF Positions, Installing
<1>4. Files'
  BY DEF TypeOK, Positions, Files, Away, Committed, InHand, Untouched, Installing
<1>5. Outcome'
  BY DEF TypeOK, Positions, Files, Outcome, Away, Committed, Installing, Undoing
<1>6. OriginalsSurvive'
  BY <1>1, <1>2, <1>3, <1>4, <1>5 DEF OriginalsSurvive, TypeOK, Positions, Files,
      InHand, Untouched, Installing
<1> QED BY <1>1, <1>2, <1>3, <1>4, <1>5, <1>6

\* The locale in hand becomes committed, or its file stays away.
LEMMA InstallKeeps == ASSUME Inv, Install PROVE Inv'
<1> USE LocalesAssumption, BoundsAssumption DEF Inv, Install, Fault, Places, Ended,
      Targets, Absent, New
<1>1. TypeOK'
  <2>1. directory' \in BOOLEAN /\ cancelled' \in BOOLEAN
    BY DEF TypeOK
  <2>2. lateFault' \in BOOLEAN
    BY DEF TypeOK
  <2>3. pc' \in Places \cup Ended /\ staging' \in {"none", "present", "gone"}
    BY DEF TypeOK
  <2>4. dest' \in [Targets -> {"absent", "old", "other", "new"}]
    BY DEF TypeOK
  <2>5. next' \in 1..Locales + 1 /\ committed' \in 0..Locales
    BY DEF TypeOK, Positions
  <2>6. staged' \subseteq Targets
    <3>1. next <= Locales => next \in Targets
      BY DEF TypeOK
    <3> QED BY <3>1 DEF TypeOK
  <2>7. backups' \subseteq Targets
    <3>1. next <= Locales => next \in Targets
      BY DEF TypeOK
    <3> QED BY <3>1 DEF TypeOK
  <2>8. faults' \in 0..MaxFaults
    BY DEF TypeOK
  <2> QED BY <2>1, <2>2, <2>3, <2>4, <2>5, <2>6, <2>7, <2>8 DEF TypeOK
<1>2. Prepared'
  BY DEF Prepared, Preparing
<1>3. Positions'
  BY DEF TypeOK, Positions, Installing
<1>4. Files'
  BY DEF TypeOK, Positions, Files, Away, Committed, InHand, Untouched, Installing
<1>5. Outcome'
  BY DEF Outcome, Undoing
<1>6. OriginalsSurvive'
  BY <1>1, <1>2, <1>3, <1>4, <1>5 DEF OriginalsSurvive, TypeOK, Files, Committed,
      InHand, Installing
<1> QED BY <1>1, <1>2, <1>3, <1>4, <1>5, <1>6

\* The locale in hand is untouched again.
LEMMA RestoreKeeps == ASSUME Inv, Restore PROVE Inv'
<1> USE LocalesAssumption, BoundsAssumption DEF Inv, Restore, Fault, UndoFails, PutBack,
      Places, Ended, Targets, Absent, New
<1>1. TypeOK'
  <2>1. directory' \in BOOLEAN /\ cancelled' \in BOOLEAN
    BY DEF TypeOK
  <2>2. lateFault' \in BOOLEAN
    BY DEF TypeOK
  <2>3. pc' \in Places \cup Ended /\ staging' \in {"none", "present", "gone"}
    BY DEF TypeOK
  <2>4. dest' \in [Targets -> {"absent", "old", "other", "new"}]
    BY DEF TypeOK
  <2>5. next' \in 1..Locales + 1 /\ committed' \in 0..Locales
    BY DEF TypeOK
  <2>6. staged' \subseteq Targets
    <3>1. next <= Locales => next \in Targets
      BY DEF TypeOK
    <3> QED BY <3>1 DEF TypeOK
  <2>7. backups' \subseteq Targets
    <3>1. next <= Locales => next \in Targets
      BY DEF TypeOK
    <3> QED BY <3>1 DEF TypeOK
  <2>8. faults' \in 0..MaxFaults
    BY DEF TypeOK
  <2> QED BY <2>1, <2>2, <2>3, <2>4, <2>5, <2>6, <2>7, <2>8 DEF TypeOK
<1>2. Prepared'
  BY DEF Prepared, Preparing
<1>3. Positions'
  BY DEF Positions, Installing
<1>4. Files'
  BY DEF TypeOK, Positions, Files, Away, Committed, InHand, Untouched, Installing
<1>5. Outcome'
  BY DEF Outcome, Undoing
<1>6. OriginalsSurvive'
  BY <1>1, <1>2, <1>3, <1>4, <1>5 DEF OriginalsSurvive, TypeOK, Positions, Files,
      InHand, Untouched, Installing
<1> QED BY <1>1, <1>2, <1>3, <1>4, <1>5, <1>6

\* The last committed locale loses its new file; with none committed all are untouched.
LEMMA UnlinkKeeps == ASSUME Inv, Unlink PROVE Inv'
<1> USE LocalesAssumption, BoundsAssumption DEF Inv, Unlink, Fault, UndoFails, Places,
      Ended, Targets, Absent, New
<1>1. TypeOK'
  <2>1. directory' \in BOOLEAN /\ cancelled' \in BOOLEAN
    BY DEF TypeOK
  <2>2. lateFault' \in BOOLEAN
    BY DEF TypeOK
  <2>3. pc' \in Places \cup Ended /\ staging' \in {"none", "present", "gone"}
    BY DEF TypeOK
  <2>4. dest' \in [Targets -> {"absent", "old", "other", "new"}]
    BY DEF TypeOK
  <2>5. next' \in 1..Locales + 1 /\ committed' \in 0..Locales
    BY DEF TypeOK
  <2>6. staged' \subseteq Targets
    <3>1. next <= Locales => next \in Targets
      BY DEF TypeOK
    <3> QED BY <3>1 DEF TypeOK
  <2>7. backups' \subseteq Targets
    <3>1. next <= Locales => next \in Targets
      BY DEF TypeOK
    <3> QED BY <3>1 DEF TypeOK
  <2>8. faults' \in 0..MaxFaults
    BY DEF TypeOK
  <2> QED BY <2>1, <2>2, <2>3, <2>4, <2>5, <2>6, <2>7, <2>8 DEF TypeOK
<1>2. Prepared'
  BY DEF Prepared, Preparing
<1>3. Positions'
  BY DEF Positions, Installing, Undoing
<1>4. Files'
  BY DEF TypeOK, Positions, Files, Away, Committed, InHand, Untouched, Undoing
<1>5. Outcome'
  BY DEF TypeOK, Files, Outcome, Away, Untouched, Undoing
<1>6. OriginalsSurvive'
  BY <1>1, <1>2, <1>3, <1>4, <1>5 DEF OriginalsSurvive, TypeOK, Files, Committed,
      InHand, Untouched, Undoing
<1> QED BY <1>1, <1>2, <1>3, <1>4, <1>5, <1>6

\* The last committed locale is untouched again.
LEMMA PutBackCommittedKeeps == ASSUME Inv, PutBackCommitted PROVE Inv'
<1> USE LocalesAssumption, BoundsAssumption DEF Inv, PutBackCommitted, Fault, UndoFails,
      PutBack, Places, Ended, Targets, Absent, New
<1>1. TypeOK'
  <2>1. directory' \in BOOLEAN /\ cancelled' \in BOOLEAN
    BY DEF TypeOK
  <2>2. lateFault' \in BOOLEAN
    BY DEF TypeOK
  <2>3. pc' \in Places \cup Ended /\ staging' \in {"none", "present", "gone"}
    BY DEF TypeOK
  <2>4. dest' \in [Targets -> {"absent", "old", "other", "new"}]
    BY DEF TypeOK
  <2>5. next' \in 1..Locales + 1 /\ committed' \in 0..Locales
    BY DEF TypeOK, Positions
  <2>6. staged' \subseteq Targets
    <3>1. next <= Locales => next \in Targets
      BY DEF TypeOK
    <3> QED BY <3>1 DEF TypeOK
  <2>7. backups' \subseteq Targets
    <3>1. next <= Locales => next \in Targets
      BY DEF TypeOK
    <3> QED BY <3>1 DEF TypeOK
  <2>8. faults' \in 0..MaxFaults
    BY DEF TypeOK
  <2> QED BY <2>1, <2>2, <2>3, <2>4, <2>5, <2>6, <2>7, <2>8 DEF TypeOK
<1>2. Prepared'
  BY DEF Prepared, Preparing
<1>3. Positions'
  BY DEF Positions, Installing, Undoing
<1>4. Files'
  BY DEF TypeOK, Positions, Files, Away, Committed, InHand, Untouched, Undoing
<1>5. Outcome'
  BY DEF Outcome, Undoing
<1>6. OriginalsSurvive'
  BY <1>1, <1>2, <1>3, <1>4, <1>5 DEF OriginalsSurvive, TypeOK, Files, Committed,
      InHand, Untouched, Undoing
<1> QED BY <1>1, <1>2, <1>3, <1>4, <1>5, <1>6

\* The staging directory goes when no file in it is needed.
LEMMA DiscardKeeps == ASSUME Inv, Discard PROVE Inv'
<1> USE LocalesAssumption, BoundsAssumption DEF Inv, Discard, Fault, UndoFails,
      RemoveStaging, Places, Ended, Targets, Absent, New
<1>1. TypeOK'
  <2>1. directory' \in BOOLEAN /\ cancelled' \in BOOLEAN
    BY DEF TypeOK
  <2>2. lateFault' \in BOOLEAN
    BY DEF TypeOK
  <2>3. pc' \in Places \cup Ended /\ staging' \in {"none", "present", "gone"}
    BY DEF TypeOK
  <2>4. dest' \in [Targets -> {"absent", "old", "other", "new"}]
    BY DEF TypeOK
  <2>5. next' \in 1..Locales + 1 /\ committed' \in 0..Locales
    BY DEF TypeOK
  <2>6. staged' \subseteq Targets
    <3>1. next <= Locales => next \in Targets
      BY DEF TypeOK
    <3> QED BY <3>1 DEF TypeOK
  <2>7. backups' \subseteq Targets
    <3>1. next <= Locales => next \in Targets
      BY DEF TypeOK
    <3> QED BY <3>1 DEF TypeOK
  <2>8. faults' \in 0..MaxFaults
    BY DEF TypeOK
  <2> QED BY <2>1, <2>2, <2>3, <2>4, <2>5, <2>6, <2>7, <2>8 DEF TypeOK
<1>2. Prepared'
  BY DEF Prepared, Preparing
<1>3. Positions'
  BY DEF Positions, Installing, Undoing
<1>4. Files'
  BY DEF Files, Installing, Undoing
<1>5. Outcome'
  BY DEF Outcome
<1>6. OriginalsSurvive'
  BY <1>1, <1>2, <1>3, <1>4, <1>5 DEF OriginalsSurvive, Outcome
<1> QED BY <1>1, <1>2, <1>3, <1>4, <1>5, <1>6

\* It also goes after success.
LEMMA FinishKeeps == ASSUME Inv, Finish PROVE Inv'
<1> USE LocalesAssumption, BoundsAssumption DEF Inv, Finish, Fault, UndoFails,
      RemoveStaging, Places, Ended, Targets, Absent, New
<1>1. TypeOK'
  <2>1. directory' \in BOOLEAN /\ cancelled' \in BOOLEAN
    BY DEF TypeOK
  <2>2. lateFault' \in BOOLEAN
    BY DEF TypeOK
  <2>3. pc' \in Places \cup Ended /\ staging' \in {"none", "present", "gone"}
    BY DEF TypeOK
  <2>4. dest' \in [Targets -> {"absent", "old", "other", "new"}]
    BY DEF TypeOK
  <2>5. next' \in 1..Locales + 1 /\ committed' \in 0..Locales
    BY DEF TypeOK
  <2>6. staged' \subseteq Targets
    <3>1. next <= Locales => next \in Targets
      BY DEF TypeOK
    <3> QED BY <3>1 DEF TypeOK
  <2>7. backups' \subseteq Targets
    <3>1. next <= Locales => next \in Targets
      BY DEF TypeOK
    <3> QED BY <3>1 DEF TypeOK
  <2>8. faults' \in 0..MaxFaults
    BY DEF TypeOK
  <2> QED BY <2>1, <2>2, <2>3, <2>4, <2>5, <2>6, <2>7, <2>8 DEF TypeOK
<1>2. Prepared'
  BY DEF Prepared, Preparing
<1>3. Positions'
  BY DEF Positions, Installing, Undoing
<1>4. Files'
  BY DEF Files, Installing, Undoing
<1>5. Outcome'
  BY DEF Outcome, Undoing
<1>6. OriginalsSurvive'
  BY <1>1, <1>2, <1>3, <1>4, <1>5 DEF OriginalsSurvive, Outcome
<1> QED BY <1>1, <1>2, <1>3, <1>4, <1>5, <1>6

\* A cancellation moves nothing.
LEMMA CancelKeeps == ASSUME Inv, Cancel PROVE Inv'
<1> USE LocalesAssumption, BoundsAssumption DEF Inv, Cancel, fileVars, Places, Ended,
      Targets, Absent, New
<1>1. TypeOK'
  BY DEF TypeOK
<1>2. Prepared'
  BY DEF Prepared
<1>3. Positions'
  BY DEF Positions
<1>4. Files'
  BY DEF Files, Away, Committed, InHand, Untouched
<1>5. Outcome'
  BY DEF Outcome
<1>6. OriginalsSurvive'
  BY <1>1, <1>2, <1>3, <1>4, <1>5 DEF OriginalsSurvive
<1> QED BY <1>1, <1>2, <1>3, <1>4, <1>5, <1>6

\* A kill moves nothing: every old file is where it was.
LEMMA KillKeeps == ASSUME Inv, Kill PROVE Inv'
<1> USE LocalesAssumption, BoundsAssumption DEF Inv, Kill, fileVars, Places, Ended,
      Targets, Absent, New
<1>1. TypeOK'
  BY DEF TypeOK
<1>2. Prepared'
  BY DEF Prepared, Preparing
<1>3. Positions'
  BY DEF Positions, Installing, Undoing
<1>4. Files'
  BY DEF Files, Installing, Undoing
<1>5. Outcome'
  BY DEF Outcome
<1>6. OriginalsSurvive'
  BY <1>1, <1>2, <1>3, <1>4, <1>5 DEF OriginalsSurvive
<1> QED BY <1>1, <1>2, <1>3, <1>4, <1>5, <1>6

-----------------------------------------------------------------------------
(* Theorems.                                                               *)

\* In every behaviour each locale is, at each place of _commit_target_outputs,
\* replaced, in hand or untouched, as Inv says.
THEOREM Invariant == Spec => []Inv
<1>1. Init => Inv
  <2> SUFFICES ASSUME Init PROVE Inv
    OBVIOUS
  <2> USE LocalesAssumption, BoundsAssumption DEF Init, Targets, Absent
  <2>1. TypeOK
    <3>1. before \in [Targets -> {"absent", "old", "other"}]
      OBVIOUS
    <3>2. directory \in BOOLEAN /\ cancelled \in BOOLEAN /\ lateFault \in BOOLEAN
      OBVIOUS
    <3> QED
      BY <3>1, <3>2 DEF TypeOK, Places
  <2>2. Prepared
    BY DEF Prepared, Preparing
  <2>3. Positions /\ Files
    BY DEF Positions, Files, Installing, Undoing
  <2>4. Outcome /\ OriginalsSurvive
    BY DEF Outcome, OriginalsSurvive
  <2> QED
    BY <2>1, <2>2, <2>3, <2>4 DEF Inv
<1>2. Inv /\ [Next]_vars => Inv'
  <2> SUFFICES ASSUME Inv, [Next]_vars PROVE Inv'
    OBVIOUS
  <2>1. CASE UNCHANGED vars
    BY <2>1 DEF vars, Inv, TypeOK, Prepared, Positions, Files, Outcome, OriginalsSurvive,
      Away, Committed, InHand, Untouched
  <2>2. CASE Export
    BY <2>2, StartKeeps, NextLocaleKeeps, WriteKeeps, ValidateKeeps, CommitKeeps,
      MakeDirectoryKeeps, MadeDirectoryKeeps, BackUpKeeps, InstallKeeps, RestoreKeeps,
      UnlinkKeeps, PutBackCommittedKeeps, DiscardKeeps, FinishKeeps DEF Export
  <2>3. CASE Cancel \/ Kill
    BY <2>3, CancelKeeps, KillKeeps
  <2> QED
    BY <2>1, <2>2, <2>3 DEF Next
<1> QED
  BY <1>1, <1>2, PTL DEF Spec

\* Every variable keeps its type, for any number of locales, faults and kills.
THEOREM TypeCorrect == Spec => []TypeOK
<1>1. Inv => TypeOK
  BY DEF Inv
<1> QED
  BY <1>1, Invariant, PTL

\* An export that returns has replaced the files of all locales, and one that
\* raises has left the directory as it was, unless undoing it failed.
THEOREM ExportIsAllOrNothing == Spec => []AllOrNothing
<1>1. Inv => AllOrNothing
  BY DEF Inv, Outcome, AllOrNothing
<1> QED
  BY <1>1, Invariant, PTL

\* No old file is lost before all the new ones are in place, kills included.
THEOREM OldFilesSurvive == Spec => []OriginalsSurvive
<1>1. Inv => OriginalsSurvive
  BY DEF Inv
<1> QED
  BY <1>1, Invariant, PTL

\* A cancellation set before the last check makes the export raise.
THEOREM CancellationIsHonoured == Spec => CancellationHonoured
<1> DEFINE Doomed == cancelled /\ pc \notin {"finish", "returned"}
<1>1. Doomed /\ [Next]_vars => Doomed'
  BY DEF Next, vars, Export, Start, NextLocale, Write, Validate, Commit, MakeDirectory,
    MadeDirectory, BackUp, Install, Restore, Unlink, PutBackCommitted, Discard, Finish,
    Cancel, Kill, Raises, NoRaise, UndoFails
<1>2. Doomed => pc # "returned"
  OBVIOUS
<1> QED
  BY <1>1, <1>2, PTL DEF Spec, CancellationHonoured
=============================================================================
