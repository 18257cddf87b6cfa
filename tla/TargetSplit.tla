---------------------------- MODULE TargetSplit -----------------------------
(***************************************************************************)
(* StreamingTargetSplit (data/targets.py): a stream is read once and given *)
(* back as one stream per locale, over files in a directory of its own.    *)
(* A few locales asked for by name are written as the units come; all      *)
(* others are found while the units go to one master file, and selected    *)
(* from it.  "input" is the stream and the request.                        *)
(***************************************************************************)
EXTENDS Targets

CONSTANTS
  Streams,     \* [units, locale, locales, requested, missing, failAt]
  MaxDirect,   \* locales that are written directly
  MaxLocales   \* locales of one split

VARIABLES input, job
vars == <<input, job>>

\* The stream is one of units, whose translations are there; it ends, or fails on a unit or after them.
StreamsAssumption == \A s \in Streams :
  /\ s.units \in Seq(Range(s.units)) /\ s.failAt \in 0..Len(s.units) + 1
  /\ \A u \in Range(s.units) : \A locale \in DOMAIN u.targets : u.targets[locale] # Absent

Limit == IF input.failAt = 0 THEN Len(input.units) ELSE input.failAt - 1
Legacy == LegacyTargetLocale(input.locale, input.locales)

Idle == [pc |-> "idle", caller |-> "unread", directory |-> FALSE, cancelled |-> FALSE, taken |-> 0, writers |-> {}, written |-> <<>>,
         found |-> {}, master |-> <<>>, todo |-> {}, parts |-> <<>>, active |-> {}]
Init == input \in Streams /\ job = Idle

Known == input.locales \cup (IF input.locale = Absent THEN {} ELSE {input.locale})

Validated(locales) == Cardinality(locales) <= MaxLocales
Direct == input.requested # {} /\ Cardinality(input.requested) <= MaxDirect

\* __enter__: the locales are known and few, or a master file is written first
Enter ==
  /\ job.pc = "idle"
  /\ job' = IF ~Validated(input.requested) THEN [job EXCEPT !.pc = "refused"]
            ELSE IF Direct
              THEN [job EXCEPT !.pc = "direct", !.caller = "reading", !.directory = TRUE, !.writers = input.requested,
                               !.written = [l \in input.requested |-> <<>>]]
            ELSE [job EXCEPT !.pc = "master", !.directory = TRUE, !.found = input.requested \cup Known]
  /\ UNCHANGED input

\* The master file is there, and the caller's stream is asked for its first unit
Begin ==
  /\ job.pc = "master" /\ job.caller = "unread" /\ ~job.cancelled
  /\ job' = [job EXCEPT !.caller = "reading", !.writers = {"master"}]
  /\ UNCHANGED input

\* One unit to the writer of every locale
WriteDirect ==
  /\ job.pc = "direct" /\ ~job.cancelled /\ job.taken < Limit
  /\ LET u == input.units[job.taken + 1] IN
     job' = [job EXCEPT !.taken = @ + 1,
               !.written = [l \in DOMAIN @ |-> IF Kept(u, l, Legacy, input.missing) THEN Append(@[l], CloneIn(u, l, Legacy)) ELSE @[l]]]
  /\ UNCHANGED input

DiscoverRequested ==   \* mutant: the locales of the units are not noted
  /\ job.pc = "master" /\ job.caller = "reading" /\ ~job.cancelled /\ job.taken < Limit
  /\ job' = [job EXCEPT !.taken = @ + 1, !.master = Append(@, input.units[job.taken + 1])]
  /\ UNCHANGED input

\* One unit to the master file; its locales are noted
Discover ==
  /\ job.pc = "master" /\ job.caller = "reading" /\ ~job.cancelled /\ job.taken < Limit
  /\ LET u == input.units[job.taken + 1]
         found == job.found \cup DOMAIN u.targets
     IN /\ Validated(found)
        /\ job' = [job EXCEPT !.taken = @ + 1, !.found = found, !.master = Append(@, u)]
  /\ UNCHANGED input
Opened(parts) == [job EXCEPT !.pc = "open", !.caller = "closed", !.writers = {}, !.parts = parts]
FinishReading ==
  /\ job.pc \in {"direct", "master"} /\ job.caller = "reading" /\ ~job.cancelled /\ job.taken = Limit /\ input.failAt = 0
  /\ LET locales == IF input.requested # {} THEN input.requested ELSE job.found IN
     /\ Validated(locales)
     /\ job' = IF job.pc = "direct" THEN Opened(job.written)
               ELSE IF locales = {} THEN Opened(<<>>)
               ELSE [job EXCEPT !.pc = "project", !.caller = "closed", !.writers = {}, !.todo = locales]
  /\ UNCHANGED input

\* One locale out of the master file, read by Rust
Project ==
  /\ job.pc = "project" /\ ~job.cancelled
  /\ \E l \in job.todo :
       LET part == ReadTarget(job.master, l, Legacy, input.missing)
           parts == [m \in {l} \cup DOMAIN job.written |-> IF m = l THEN part ELSE job.written[m]]
       IN job' = IF job.todo = {l} THEN Opened(parts) ELSE [job EXCEPT !.todo = @ \ {l}, !.written = parts]
  /\ UNCHANGED input

\* The export that splits is cancelled, the caller's stream fails, it has too many locales, or a
\* file cannot be written.  A stream that was asked for nothing is left as it is: closing the
\* generator that would read it (_discovering_items) runs nothing before it is started.
Spooling == job.pc \in {"direct", "master", "project"}
Fail ==
  /\ Spooling
  /\ job' = [job EXCEPT !.pc = "failed", !.caller = IF @ = "unread" THEN @ ELSE "closed",
                        !.directory = FALSE, !.writers = {}, !.written = <<>>]
  /\ UNCHANGED input
Cancel == Spooling /\ ~job.cancelled /\ job' = [job EXCEPT !.cancelled = TRUE] /\ UNCHANGED input

\* A part is read from its file, over a reader that lives until it ends or the split is closed
StartPart ==
  /\ job.pc = "open"
  /\ \E l \in DOMAIN job.parts \ job.active : job' = [job EXCEPT !.active = @ \cup {l}]
  /\ UNCHANGED input
EndPart ==
  /\ job.pc = "open"
  /\ \E l \in job.active : job' = [job EXCEPT !.active = @ \ {l}]
  /\ UNCHANGED input
Close ==
  /\ job.pc = "open"
  /\ job' = [job EXCEPT !.pc = "closed", !.directory = FALSE, !.active = {}, !.parts = <<>>]
  /\ UNCHANGED input

Next == Enter \/ Begin \/ WriteDirect \/ Discover \/ FinishReading \/ Project \/ Fail \/ Cancel \/ StartPart \/ EndPart \/ Close
Spec == Init /\ [][Next]_vars

-----------------------------------------------------------------------------
\* However the stream is split, in one pass or over a master file that Rust reads, the parts
\* are those of the same document in memory (split_targets).
SplitIsSelection == job.pc = "open" => job.parts = SplitTargets(input, input.requested, input.missing)

\* A split that is closed or failed has left no file and no reader, and one that has read the
\* caller's stream, or any of it, has closed it.  The stream is left open by a split that fails
\* over a master file before it asked for the first unit.
SplitReleases ==
  /\ job.pc \in {"failed", "closed"} => ~job.directory /\ job.active = {}
  /\ job.pc \in {"failed", "open", "closed"} => job.writers = {}
  /\ job.pc \in {"open", "closed"} => job.caller = "closed"
  /\ job.pc = "failed" => job.caller = "closed" \/ (job.caller = "unread" /\ ~Direct /\ job.taken = 0)
=============================================================================
