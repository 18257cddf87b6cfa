----------------------------- MODULE OfficeExport ---------------------------
(***************************************************************************)
(* office/backend.py: an Office file is read into a document, or lazily    *)
(* through a stream that looks one unit ahead, and written again from its  *)
(* source with the translations, by the worker or in Python.  A source or  *)
(* an output that is a handle goes through a temporary file; translations  *)
(* for Python wait in a spool.  Any step may fail, and each with block and *)
(* finally clause gives back what it holds.                                *)
(***************************************************************************)
EXTENDS OfficePackage

CONSTANTS
  Absent,
  Inputs,         \* [package, engine, lazy, source, sink, import, export, missing, extras, failAt, faulty]
  Translate(_)    \* what a caller makes of a text, Absent if nothing

VARIABLES input, job
vars == <<input, job>>

\* The units that can be read: failAt is the part, in the order of reading, that cannot be
Extracted(engine, package, options, failAt) ==
  LET Sound(parts) == SubSeq(parts, 1, IF failAt = 0 THEN Len(parts) ELSE failAt - 1)
      UnitsOf(parts) == FlattenSeq([k \in DOMAIN parts |-> ExtractPart(engine, package, parts[k], options)])
  IN UnitsOf(Sound(PartsOf(package, options)))
Units == Extracted(input.engine, input.package, input.import, input.failAt)
IsBroken == input.failAt \in 1 .. Len(PartsOf(input.package, input.import))

\* The translations of some units, the last of an identifier, and one that nobody asked for
Rows(units) ==
  FoldLeft(LAMBDA rows, u : IF Translate(u.text) = Absent THEN rows ELSE (u.id :> Translate(u.text)) @@ rows,
           IF input.stray THEN <<"nowhere", "p", "0", "">> :> <<"T">> ELSE [id \in {} |-> <<>>], units)

Init ==
  /\ input \in Inputs
  /\ job = [pc |-> IF input.lazy THEN "read" ELSE "import", held |-> {}, items |-> "fresh", read |-> 0, early |-> FALSE,
            rows |-> [id \in {} |-> <<>>], entry |-> 1, parts |-> <<>>, consumed |-> {}, missing |-> {}, extra |-> {}, sink |-> "old",
            stuck |-> {}]

Temporary(what, kind) == IF kind = "handle" THEN {what} ELSE {}
Move(pc) == job' = [job EXCEPT !.pc = pc]

\* What an error leaves behind: the clauses around each place give back the rest.  A stream
\* that the spool has not asked for anything stays as its caller left it, and a file that was
\* replaced stays replaced
Failed(place) ==
  LET mine == IF place = "pull" THEN {} ELSE job.held \cap {"import"}
  IN [job EXCEPT !.pc = "failed", !.held = mine, !.items = IF place = "pull" THEN "closed" ELSE @]

-----------------------------------------------------------------------------
\* import_document: the units become a dictionary
ImportDocument ==
  /\ job.pc = "import"
  /\ job' = IF IsBroken THEN Failed("import")
            ELSE [job EXCEPT !.pc = "export", !.rows = Rows(Units), !.read = Len(Units)]
  /\ UNCHANGED input

\* extract: the first pull opens the source; each looks one unit ahead, and an error there
\* takes the unit in hand with it
Got(count) ==
  IF IsBroken /\ job.read + 1 >= count THEN "broken" ELSE IF job.read = count THEN "ended" ELSE "unit"
Opened == IF job.items = "fresh" THEN Temporary("import", input.source) ELSE {}

Pull ==
  /\ job.pc = "read" /\ job.items # "closed"
  /\ LET Pulled(got) ==
           IF got = "unit" THEN [job EXCEPT !.items = "open", !.held = @ \cup Opened, !.read = @ + 1, !.early = TRUE]
           ELSE [job EXCEPT !.items = "closed", !.held = @ \ {"import"}, !.early = TRUE, !.pc = IF got = "broken" THEN "failed" ELSE "export"]
     IN job' = Pulled(Got(Len(Units)))
  /\ UNCHANGED input
\* A caller exports a stream from wherever it has read it to, or closes it
AskExport == job.pc = "read" /\ Move("export") /\ UNCHANGED input
CloseStream ==
  /\ job.items = "open" /\ job.pc \in {"read", "failed"}
  /\ job' = [job EXCEPT !.items = "closed", !.held = @ \ {"import"}]
  /\ UNCHANGED input

-----------------------------------------------------------------------------
(* reinsert and _write_output *)
MaterializeSource ==
  /\ job.pc = "export"
  /\ job' = [job EXCEPT !.pc = "output", !.held = @ \cup Temporary("source", input.source)]
  /\ UNCHANGED input

ByWorker == input.engine = "worker" /\ ~input.lazy
MakeOutput ==
  /\ job.pc = "output"
  /\ job' = [job EXCEPT !.pc = IF ByWorker THEN "entry" ELSE "spool", !.held = @ \cup {"output"}]
  /\ UNCHANGED input

\* _TranslationSpool: a dictionary is there, a stream is read to its end
OpenSpool ==
  /\ job.pc = "spool"
  /\ job' = [job EXCEPT !.pc = IF input.lazy THEN "pull" ELSE "entry", !.held = @ \cup {"spool"}, !.rows = IF input.lazy THEN Rows(<<>>) ELSE @]
  /\ UNCHANGED input
SpoolUnit ==
  /\ job.pc = "pull"
  /\ LET Told(rows, u) == IF Translate(u.text) = Absent THEN rows ELSE (u.id :> Translate(u.text)) @@ rows
         Pulled(got) ==
           IF got = "unit" THEN [job EXCEPT !.items = "open", !.held = @ \cup Opened, !.read = @ + 1, !.rows = Told(@, Units[job.read + 1])]
           ELSE IF got = "broken" THEN Failed("pull")
           ELSE [job EXCEPT !.pc = "entry", !.items = "closed", !.held = @ \ {"import"}]
     IN job' = Pulled(IF job.items = "closed" THEN "ended" ELSE Got(Len(Units)))
  /\ UNCHANGED input
\* _rewrite_package, or the worker: one entry of the package after the other
Entries == input.package.parts
RewriteEntry ==
  /\ job.pc = "entry" /\ job.entry <= Len(Entries)
  /\ LET Rewritten(done) ==
           IF done.missing # {} /\ input.missing = "error" THEN Failed("entry")
           ELSE [job EXCEPT !.entry = @ + 1, !.parts = Append(@, [Entries[job.entry] EXCEPT !.nodes = done.nodes]),
                            !.consumed = @ \cup done.consumed,
                            !.missing = IF input.missing = "warn" THEN @ \cup done.missing ELSE @]
     IN job' = Rewritten(RewritePart(IF ByWorker THEN "worker" ELSE "python", input.package, Entries[job.entry], job.rows, input.export))
  /\ UNCHANGED input

CountExtras ==
  /\ job.pc = "entry" /\ job.entry > Len(Entries)
  /\ LET extra == DOMAIN job.rows \ job.consumed IN
     job' = IF extra # {} /\ input.extras = "error" THEN Failed("entry")
            ELSE [job EXCEPT !.pc = "deliver", !.extra = extra, !.held = @ \ {"spool"}]
  /\ UNCHANGED input

\* A path is replaced at once; a handle gets the bytes piece by piece
Deliver ==
  /\ job.pc = "deliver"
  /\ job' = IF input.sink = "path" THEN [job EXCEPT !.pc = "leave", !.sink = "new", !.held = @ \ {"output"}]
            ELSE IF job.sink = "old" THEN [job EXCEPT !.sink = "part"]
            ELSE [job EXCEPT !.pc = "leave", !.sink = "new"]
  /\ UNCHANGED input
LeaveSource ==
  /\ job.pc = "leave"
  /\ job' = [job EXCEPT !.pc = "done", !.held = @ \ {"source", "output"}]
  /\ UNCHANGED input

\* A limit, an error of the file system, or a cancellation; the size of what was delivered may
\* not be told, and a temporary file may not let itself be removed
Fail ==
  /\ input.faulty /\ job.pc \in {"export", "output", "spool", "pull", "entry", "deliver", "leave"}
  /\ \E stuck \in SUBSET (job.held \cap {"source", "output"}) :
       LET failed == Failed(job.pc) IN job' = [failed EXCEPT !.held = @ \cup stuck, !.stuck = stuck]
  /\ UNCHANGED input

Next ==
  \/ ImportDocument \/ Pull \/ AskExport \/ CloseStream
  \/ MaterializeSource \/ MakeOutput \/ OpenSpool \/ SpoolUnit
  \/ RewriteEntry \/ CountExtras \/ Deliver \/ LeaveSource \/ Fail

Spec == Init /\ [][Next]_vars

-----------------------------------------------------------------------------
\* Where reading the output again need not give the translations: alternative texts of DOCX,
\* which are never put back; those of PPTX that the rewriting of paragraphs before them has
\* moved; a paragraph with an equation, which Python reads and does not replace; and
\* a paragraph of DOCX that contains another, or is in one (backend.py 1165, 2190, 1181, 2117)
NodesOf(u, parts) == (CHOOSE p \in ToSet(parts) : p.name = u.part).nodes
AltAt(nodes) == InOrder({n \in DOMAIN nodes : nodes[n].title # <<>> \/ nodes[n].descr # <<>>}, Len(nodes))
ParagraphOf(u, nodes) == {i \in Tagged(nodes, {"p"}) : u.kind = "p" /\ ToString(Cardinality({j \in Tagged(nodes, {"p"}) : j < i})) = u.id[3]}

IsNeverPutBack(u) == input.package.format = "docx" /\ u.kind = "alt"
IsMoved(u) ==
  LET was == AltAt(NodesOf(u, Entries))
      is == AltAt(NodesOf(u, job.parts))
  IN u.kind = "alt" /\ \E k \in DOMAIN was : ToString(was[k] - 1) = u.id[3] /\ is[k] # was[k]
HasEquation(u) ==
  LET nodes == NodesOf(u, Entries) IN \E i \in ParagraphOf(u, nodes) : Below(nodes, i) \cap Tagged(nodes, {"m:t"}) # {}
IsNested(u) ==
  LET nodes == NodesOf(u, Entries)
  IN \E i \in ParagraphOf(u, nodes) : \E j \in Tagged(nodes, {"p"}) : i \in Below(nodes, j) \/ j \in Below(nodes, i)
IsLost(u) == IsNeverPutBack(u) \/ IsMoved(u) \/ HasEquation(u) \/ IsNested(u)

Wanted(u) == IF u.id \in DOMAIN job.rows THEN job.rows[u.id] ELSE u.text
Again(package) == Extracted("python", package, input.export, 0)

\* The output, read again, gives unit for unit the translations, and the text of the source
\* where there is none; a part that is not asked for, or has no translation, is as it was;
\* a translation is reported as extra, and a unit as missing, exactly if it is.
IsTranslationOf(after, before, lost) ==
  LET known == {before[n].id : n \in DOMAIN before} IN
  /\ Len(after) = Len(before)
  /\ \A n \in DOMAIN before \ lost : after[n].text = Wanted(before[n])
  /\ \A n \in DOMAIN Entries : (\A u \in ToSet(before) : u.part = Entries[n].name => u.id \notin DOMAIN job.rows) => job.parts[n] = Entries[n]
  /\ lost = {} => /\ job.extra = DOMAIN job.rows \ known
                  /\ input.missing = "warn" => job.missing = known \ DOMAIN job.rows
OfficeFaithful ==
  job.pc = "done" =>
    LET Faithful(before) ==
          IsTranslationOf(Again([input.package EXCEPT !.parts = job.parts]), before, {n \in DOMAIN before : IsLost(before[n])})
    IN Faithful(Again(input.package))

\* Nothing temporary outlives an export, but for the source of a stream that its caller has
\* begun to read and the export has not, and what the file system does not remove; and a file
\* that is replaced is replaced by a whole one, also by an export that fails after that.
OfficeReleases ==
  job.pc \in {"done", "failed"} =>
    /\ job.held \subseteq job.stuck \cup (IF job.early /\ job.items = "open" THEN {"import"} ELSE {})
    /\ job.pc = "done" => job.sink = "new" /\ job.stuck = {}
    /\ input.sink = "path" => job.sink = "old" \/ (job.sink = "new" /\ Len(job.parts) = Len(Entries))

\* Python and the worker read the same units, but for what is lost anyway.
OfficeRoutesAgree ==
  job.pc = "import" \/ (job.pc = "read" /\ job.read = 0) =>
    LET Read(engine) == Extracted(engine, input.package, input.import, 0)
        Agree(units) == Read("worker") = SelectSeq(units, LAMBDA u : ~IsNeverPutBack(u)) \/ \E u \in ToSet(units) : HasEquation(u)
    IN Agree(Read("python"))
=============================================================================
