----------------------------- MODULE Importing ------------------------------
(***************************************************************************)
(* importers.py with the readers under it: one call of an entry point on   *)
(* one file.  A document is collected unit by unit, by Rust or in Python,  *)
(* and units that are the targets of one XLIFF segment are merged; a       *)
(* stream is read as its consumer asks, and closed when it likes.  "input" *)
(* is what the reader of the file delivers, failAt the unit it fails on.   *)
(***************************************************************************)
EXTENDS EntryPoints, FiniteSets, SequencesExt

CONSTANTS
  Absent,   \* no target, no locale, no identity
  Files,    \* [reader, units, declared, failAt, more]: declared are the locales of the header
  Batch     \* units read at once

VARIABLES input, job
vars == <<input, job>>

\* A file has a sequence of units; its reader may fail on one of them, or after the last.
TableReaders == {"csv", "xlsx"}
\* The readers whose header, layout or selection says of which locales there are texts.  Nothing
\* compares the header of a .lokit or a legacy JSON file with its units, and TMX and XLIFF say it as they go.
HeaderReaders == TableReaders \cup {"html", "json_i18n", "idml", "po"}
Distinct(units) == \A i, j \in DOMAIN units : units[i].id = units[j].id => i = j
IsUnit(u) == DOMAIN u = {"id", "name", "source", "target", "targets"} /\ IsFiniteSet(DOMAIN u.targets)
\* No two units of a file have the same identifier (IdResolver).  A text without a locale is in
\* a file whose header names all the locales there are: a segment of XLIFF has one text, a table
\* one target column, and a PO file that others are added to none (mode "source").
OwnTextIsPlain(f, u) ==
  /\ DOMAIN f.more = {} /\ \A w \in ToSet(f.units) : DOMAIN w.targets \subseteq f.declared
  /\ f.reader \in TableReaders \cup {"xliff"} => DOMAIN u.targets = {}
  /\ f.reader \in TableReaders => Cardinality(f.declared) = 1
\* The other PO files have the same entry under the same identifier: those with a context are
\* numbered (PoExtractor._unit_id), so they have to be in the same order.
SameEntries(f, l) ==
  /\ f.more[l] \in Seq(ToSet(f.more[l])) /\ Distinct(f.more[l])
  /\ \A u \in ToSet(f.more[l]) : IsUnit(u) /\ DOMAIN u.targets = {}
  /\ \A u \in ToSet(f.units) : DOMAIN u.targets = {}
  /\ \A u \in ToSet(f.more[l]), w \in ToSet(f.units) \cup UNION {ToSet(f.more[k]) : k \in DOMAIN f.more} :
       u.id = w.id => u.source = w.source
FilesAssumption ==
  /\ Batch \in Nat \ {0}
  /\ \A f \in Files :
       /\ f.units \in Seq(ToSet(f.units)) /\ f.failAt \in 0..Len(f.units) + 1
       /\ IsFiniteSet(f.declared) /\ Distinct(f.units)
       /\ \A u \in ToSet(f.units) : IsUnit(u) /\ (u.target # Absent => OwnTextIsPlain(f, u))
       /\ f.reader \in HeaderReaders => \A u \in ToSet(f.units) : DOMAIN u.targets \subseteq f.declared
       /\ \A l \in DOMAIN f.more : SameEntries(f, l)

-----------------------------------------------------------------------------
(* What the functions of importers.py do: which reader they need, what they give, *)
(* how units are merged ("each" while collecting, "end" afterwards, "last" wins), *)
(* whether the file is open, or a first unit read, before the caller has a stream, *)
(* whether closing that stream closes the reader whatever was read of it, whether  *)
(* a reader of its own reads the header, and whether the metadata follow the       *)
(* reader, are those of the header, or are not given.                              *)
Document(reader, takes) ==
  [reader |-> reader, gives |-> "document", native |-> FALSE, merge |-> "each", eager |-> FALSE, primed |-> FALSE,
   closes |-> FALSE, probe |-> FALSE, metadata |-> "header", takes |-> takes \cup {"markup"}]
Gives(kind, reader, takes) == [Document(reader, takes) EXCEPT !.gives = kind]
Bridge(reader, takes) == [Gives("bridge", reader, takes) EXCEPT !.metadata = "none"]
Primed(reader, takes) == [Gives("stream", reader, takes) EXCEPT !.primed = TRUE]

LokitImporters ==
  "import_lokit" :> Document("lokit", {"progress"}) @@
  "import_lokit_async" :> Bridge("lokit", {}) @@
  "stream_lokit" :> [Gives("stream", "lokit", {}) EXCEPT !.eager = TRUE]
LegacyImporters ==
  "import_lokit_json" :> Document("lokit_json", {"progress"}) @@
  "import_lokit_json_async" :> Bridge("lokit_json", {}) @@
  "stream_lokit_json" :> Gives("stream", "lokit_json", {})
TmxImporters == "import_tmx" :> [Document("tmx", Languages \cup {"progress"}) EXCEPT !.native = TRUE, !.metadata = "reader"]
TmxParallelImporters ==
  "import_tmx_parallel" :> [Document("tmx", Languages \cup {"options", "progress"}) EXCEPT !.probe = TRUE] @@
  "stream_tmx_parallel" :> [Gives("stream", "tmx", Languages \cup {"options"}) EXCEPT !.probe = TRUE]
TmxAsyncImporters ==
  "import_tmx_async" :> Bridge("tmx", Languages) @@
  "import_tmx_batches_async" :> [Gives("batches", "tmx", Languages \cup {"batch"}) EXCEPT !.metadata = "none"]
XliffImporters ==
  "import_xliff" :> [Document("xliff", {"progress"}) EXCEPT !.native = TRUE, !.merge = "end", !.metadata = "reader"] @@
  "import_xliff_async" :> Bridge("xliff", {})
TmxStream == "stream_tmx" :> [Gives("stream", "tmx", Languages) EXCEPT !.eager = TRUE, !.closes = TRUE, !.metadata = "reader"]
XliffStream == "stream_xliff" :> [Gives("stream", "xliff", {}) EXCEPT !.eager = TRUE, !.closes = TRUE, !.metadata = "reader"]
TmxConversions == [f \in {"convert_tmx_to_tmx", "convert_tmx_to_xliff", "convert_tmx_to_csv"} |->
  [Gives("file", "tmx", {"languages"}) EXCEPT !.native = f # "convert_tmx_to_csv", !.metadata = "reader"]]
CsvConversion == "convert_csv_to_xliff" :> Document("csv", {"locales", "progress"})
XlsxConversion == "convert_xlsx_to_xliff" :> Document("xlsx", {"locales", "progress"})
CsvImporters ==
  "import_csv" :> Document("csv", Tables \cup {"progress"}) @@
  "stream_csv" :> Primed("csv", Tables)
CsvTargetImporters ==
  "import_csv_targets" :> Gives("documents", "csv", Tables \cup {"progress"}) @@
  "import_csv_async" :> Bridge("csv", Tables)
XlsxImporters ==
  "import_xlsx" :> Document("xlsx", Tables \cup {"sheet", "progress"}) @@
  "stream_xlsx" :> Primed("xlsx", Tables \cup {"sheet"})
XlsxTargetImporters ==
  "import_xlsx_targets" :> Gives("documents", "xlsx", Tables \cup {"sheet", "progress"}) @@
  "import_xlsx_async" :> Bridge("xlsx", Tables \cup {"sheet"})
HtmlImporters ==
  "import_html" :> Document("html", {"locales", "progress"}) @@
  "import_html_async" :> Bridge("html", {"locales"}) @@
  "stream_html" :> Primed("html", {"locales"})
PoImporters == "import_po" :> [Document("po", {"locales", "mode", "progress"}) EXCEPT !.merge = "last"]
PoTargetImporters ==
  "import_po_targets" :> [Gives("po_targets", "po", {"locales", "files", "progress"}) EXCEPT !.merge = "last"]
PoStreams ==
  "import_po_async" :> Bridge("po", {"locales", "mode"}) @@
  "stream_po" :> [Gives("stream", "po", {"locales", "mode"}) EXCEPT !.eager = TRUE, !.closes = TRUE]
JsonImporters ==
  "import_json_i18n" :> Document("json_i18n", {"locales", "files", "progress"}) @@
  "import_json_i18n_async" :> Bridge("json_i18n", {"locales", "files"}) @@
  "stream_json_i18n" :> Primed("json_i18n", {"locales", "files"})
IdmlImporters ==
  "import_idml" :> Document("idml", {"locales", "progress"}) @@
  "import_idml_async" :> Bridge("idml", {"locales"}) @@
  "stream_idml" :> Primed("idml", {"locales"})

Importers ==
  LokitImporters @@ LegacyImporters @@ TmxImporters @@ TmxParallelImporters @@ TmxAsyncImporters @@ XliffImporters @@
  TmxStream @@ XliffStream @@ TmxConversions @@ CsvConversion @@ XlsxConversion @@ CsvImporters @@ CsvTargetImporters @@
  XlsxImporters @@ XlsxTargetImporters @@ HtmlImporters @@ PoImporters @@ PoTargetImporters @@ PoStreams @@
  JsonImporters @@ IdmlImporters

\* A file is detected by its content; only the markup options go further (import_file, stream_file)
ImportDetected(format) == "import_" \o format
StreamDetected(format) == "stream_" \o format
Importer(name, format) ==
  CASE name = "import_file" -> ImportDetected(format)
    [] name \in {"stream_file", "import_file_async"} -> StreamDetected(format)
    [] OTHER -> name

\* What the table says of all functions: one that reads ahead, or writes a file, opens its reader
\* only then; one that gives a document per column reads a table; a document has metadata, and that
\* of XLIFF those of its reader; and a caller's options are those of the function that is called.
ImportersAssumption ==
  /\ \A name \in DOMAIN Importers :
       LET t == Importers[name] IN
       /\ t.primed \/ t.gives = "file" => ~t.eager
       /\ t.primed => t.gives = "stream"
       /\ t.gives = "documents" => t.reader \in TableReaders
       /\ t.merge \in {"each", "end", "last"} /\ t.metadata \in {"reader", "header", "none"}
       /\ t.gives \in {"document", "documents", "po_targets"} => t.metadata # "none"
       /\ name = "import_xliff" => t.reader = "xliff" /\ t.metadata = "reader" /\ t.gives = "document"
       /\ \A p \in DOMAIN Readers : name = Importer(Readers[p].to, t.reader) => Readers[p].passes \subseteq t.takes

-----------------------------------------------------------------------------
(* Units and documents; a document is the sequence of its units *)
Translations(u, locale) ==
  {<<u.source, l, u.targets[l]>> : l \in {k \in DOMAIN u.targets : u.targets[k] # Absent}} \cup
  (IF u.target = Absent THEN {} ELSE {<<u.source, locale, u.target>>})

\* The units that carry the same XLIFF segment, each for locales of its own
CanMergeAnyTarget(existing, incoming) ==   \* mutant: merges although both have the locale
  /\ existing.target = Absent /\ incoming.target = Absent
  /\ DOMAIN existing.targets \cup DOMAIN incoming.targets # {}
CanMerge(existing, incoming) ==
  /\ existing.target = Absent /\ incoming.target = Absent
  /\ DOMAIN existing.targets \cup DOMAIN incoming.targets # {}
  /\ DOMAIN existing.targets \cap DOMAIN incoming.targets = {}
Updated(targets, others) ==
  [l \in DOMAIN targets \cup DOMAIN others |-> IF l \in DOMAIN others THEN others[l] ELSE targets[l]]
Merged(existing, incoming) ==
  [existing EXCEPT !.source = IF @ = "" THEN incoming.source ELSE @,
                   !.targets = Updated(@, incoming.targets),
                   !.target = IF @ = Absent THEN incoming.target ELSE @]

Segments(doc, u) == {i \in DOMAIN doc : /\ u.name # Absent /\ doc[i].name = u.name /\ doc[i].source = u.source
                                       /\ CanMerge(doc[i], u)}
First(S) == CHOOSE i \in S : \A j \in S : i <= j
At(doc, id) == {i \in DOMAIN doc : doc[i].id = id}
Store(doc, u) == IF At(doc, u.id) = {} THEN Append(doc, u) ELSE [doc EXCEPT ![First(At(doc, u.id))] = Merged(@, u)]
Replace(doc, u) == IF At(doc, u.id) = {} THEN Append(doc, u) ELSE [doc EXCEPT ![First(At(doc, u.id))] = u]
Collect(doc, u) ==
  IF Segments(doc, u) # {} THEN [doc EXCEPT ![First(Segments(doc, u))] = Merged(@, u)] ELSE Store(doc, u)

\* Rust merges only once it has seen a second locale, and then only targets
Materialize(doc, u, locales) ==
  IF input.reader = "xliff" /\ Cardinality(locales) > 1 /\ Segments(doc, u) # {}
    THEN [doc EXCEPT ![First(Segments(doc, u))].targets = Updated(@, u.targets)] ELSE Replace(doc, u)

MergeIdentities(doc) == FoldLeft(Collect, <<>>, doc)

\* The only locale of a document moves into the units
CollapseTarget(doc, locale) ==
  [i \in DOMAIN doc |->
     [doc[i] EXCEPT !.target = IF locale \in DOMAIN doc[i].targets THEN doc[i].targets[locale] ELSE @,
                    !.targets = <<>>]]
CollapseTargets(doc) ==
  [i \in DOMAIN doc |->
     IF Cardinality(DOMAIN doc[i].targets) = 1
       THEN [doc[i] EXCEPT !.target = doc[i].targets[CHOOSE l \in DOMAIN doc[i].targets : TRUE], !.targets = <<>>]
       ELSE doc[i]]

TargetLocale(locales) == IF Cardinality(locales) = 1 THEN CHOOSE l \in locales : TRUE ELSE Absent
BuildXliff(doc, locales) ==
  LET merged == IF Cardinality(locales) > 1 THEN MergeIdentities(doc) ELSE doc
  IN IF Cardinality(locales) = 1 THEN CollapseTarget(merged, TargetLocale(locales)) ELSE merged

-----------------------------------------------------------------------------
(* Reading: locales become known with the batch that has them *)
Limit == IF input.failAt = 0 THEN Len(input.units) ELSE input.failAt - 1
LocalesOf(n) == input.declared \cup UNION {DOMAIN input.units[i].targets : i \in 1..n}
Fetched == IF job.pulled < job.fetched THEN job.fetched
           ELSE IF job.fetched + Batch > Limit THEN Limit ELSE job.fetched + Batch
KnownAtOpen(n) == input.declared   \* mutant: the metadata are those of the header
Known(n) ==
  CASE job.traits.metadata = "reader" -> LocalesOf(n)
    [] job.traits.metadata = "header" -> input.declared
    [] OTHER -> {}

Idle == [pc |-> "idle", importer |-> "", traits |-> Document("", {}), given |-> {}, rule |-> "each", readers |-> {}, begun |-> FALSE,
         fetched |-> 0, pulled |-> 0, locales |-> {}, doc |-> <<>>, docs |-> <<>>, pending |-> <<>>, out |-> <<>>, left |-> {}]

Init == input \in Files /\ job = Idle

\* The call: what is opened before the caller gets its structure
Call(p, progress) ==
  LET name == Importer(Readers[p].to, input.reader)  t == Importers[name] IN
  /\ job.pc = "idle" /\ name \in DOMAIN Importers /\ t.reader = input.reader
  /\ t.gives = "po_targets" <=> DOMAIN input.more # {}
  /\ progress \in (IF "progress" \in Readers[p].passes THEN BOOLEAN ELSE {TRUE})
  /\ job' = [job EXCEPT
       !.pc = CASE t.gives = "file" -> "convert"
                [] t.gives \in {"stream", "bridge", "batches"} -> IF t.primed THEN "prime" ELSE "open"
                [] OTHER -> IF t.native /\ ~progress THEN "native" ELSE "collect",
       !.importer = name, !.traits = t, !.given = Readers[p].passes, !.rule = t.merge,
       !.locales = IF t.primed \/ t.metadata = "none" THEN {} ELSE input.declared,
       !.readers = (IF t.eager THEN {"main"} ELSE {}) \cup (IF t.probe THEN {"header"} ELSE {})]
  /\ UNCHANGED input

\* Rust reads the whole document, or declines it
TryNative ==
  /\ job.pc = "native"
  /\ \E rule \in {"native", job.rule} : job' = [job EXCEPT !.pc = "collect", !.rule = rule]
  /\ UNCHANGED input

\* A row of a table is a unit in the document of every target column, which there is without rows too
CellText(u, l) == IF l \in DOMAIN u.targets THEN u.targets[l] ELSE u.target
TakeRow(docs, u) ==
  [l \in input.declared |->
     Store(IF l \in DOMAIN docs THEN docs[l] ELSE <<>>, [u EXCEPT !.target = CellText(u, l), !.targets = <<>>])]

EveryColumn(docs) == [l \in input.declared |-> IF l \in DOMAIN docs THEN docs[l] ELSE <<>>]

TakeInto(doc, u, locales) ==
  CASE job.rule = "native" -> Materialize(doc, u, locales)
    [] job.rule = "each" -> Collect(doc, u)
    [] job.rule = "end" -> Store(doc, u)
    [] job.rule = "last" -> Replace(doc, u)

Reading == job.pc \in {"collect", "open", "export"}
\* One unit more: into the document, or to the consumer
Take ==
  /\ Reading /\ job.pulled < Limit
  /\ LET u == input.units[job.pulled + 1]  locales == Known(Fetched)
         batch == Append(job.pending, u)
     IN job' = [job EXCEPT !.readers = @ \cup {"main"}, !.begun = TRUE, !.fetched = Fetched, !.pulled = @ + 1, !.locales = locales,
                           !.doc = IF job.pc = "collect" /\ job.traits.gives # "documents" THEN TakeInto(@, u, locales) ELSE @,
                           !.docs = IF job.traits.gives = "documents" THEN TakeRow(@, u) ELSE @,
                           !.pending = IF job.traits.gives # "batches" \/ Len(batch) = Batch THEN <<>> ELSE batch,
                           !.out = IF job.pc = "collect" THEN @
                                   ELSE IF job.traits.gives # "batches" THEN Append(@, u)
                                   ELSE IF Len(batch) = Batch THEN @ \o batch ELSE @]
  /\ UNCHANGED input

\* What the caller gets of a file read to its end
Built(doc, locales) ==
  CASE job.importer # "import_xliff" -> doc
    [] job.importer = "import_xliff" /\ job.rule # "native" -> BuildXliff(doc, locales)
    [] OTHER -> IF Cardinality(locales) = 1 THEN CollapseTargets(doc) ELSE doc

Finish ==
  /\ Reading /\ job.pulled = Limit /\ input.failAt = 0
  /\ job' = [job EXCEPT !.pc = IF job.traits.gives = "po_targets" THEN "targets" ELSE "done",
                        !.readers = @ \ {"main"}, !.begun = TRUE, !.locales = Known(Limit), !.left = DOMAIN input.more,
                        !.doc = Built(@, Known(Limit)), !.docs = IF job.traits.gives = "documents" THEN EveryColumn(@) ELSE @, !.out = @ \o job.pending, !.pending = <<>>]
  /\ UNCHANGED input

\* The reader fails: what was read before is delivered first
ReaderFails ==
  /\ Reading /\ job.pulled = Limit /\ input.failAt > 0
  /\ job' = [job EXCEPT !.pc = "failed", !.readers = @ \ {"main"}, !.doc = <<>>, !.docs = <<>>, !.out = @ \o job.pending, !.pending = <<>>]
  /\ UNCHANGED input

\* One unit is read before the caller has the stream, so that its metadata are there
Prime ==
  /\ job.pc = "prime"
  /\ job' = IF Limit > 0 THEN [job EXCEPT !.pc = "open", !.readers = {"main"}, !.fetched = Fetched, !.locales = Known(Fetched)]
            ELSE [job EXCEPT !.pc = IF input.failAt = 0 THEN "open" ELSE "failed", !.locales = Known(0)]
  /\ UNCHANGED input

\* Closing a generator that was never asked for a unit does nothing
Close ==
  /\ job.pc = "open"
  /\ job' = [job EXCEPT !.pc = "closed", !.readers = IF job.traits.closes \/ job.begun THEN @ \ {"main"} ELSE @, !.pending = <<>>]
  /\ UNCHANGED input

\* TMX to a file: by Rust, or a stream whose units are counted on their way to the exporter
Convert ==
  /\ job.pc = "convert"
  /\ \/ /\ job.traits.native
        /\ job' = IF input.failAt = 0 THEN [job EXCEPT !.pc = "done", !.locales = LocalesOf(Limit), !.out = input.units]
                  ELSE [job EXCEPT !.pc = "failed"]
     \/ job' = [job EXCEPT !.pc = "export", !.readers = {"main"}]
  /\ UNCHANGED input

\* The wrapper that counts has no close: the reader stays open
ExporterFails ==
  /\ job.pc = "export" /\ job.begun
  /\ job' = [job EXCEPT !.pc = "broken"]
  /\ UNCHANGED input

\* PO: the targets of every other file under the ids of the source file
AddTarget(doc, u, l) ==
  LET d == IF At(doc, u.id) = {} THEN Append(doc, [u EXCEPT !.target = Absent]) ELSE doc
  IN [d EXCEPT ![First(At(d, u.id))].targets = Updated(@, [k \in {l} |-> u.target])]
WithTargets(doc, added, l) == FoldLeft(LAMBDA d, u : AddTarget(d, u, l), doc, added)
AddTargets(l) ==
  /\ job.pc = "targets" /\ l \in job.left
  /\ job' = [job EXCEPT !.doc = WithTargets(@, input.more[l], l), !.left = @ \ {l}, !.locales = @ \cup {l},
                        !.pc = IF job.left = {l} THEN "done" ELSE @]
  /\ UNCHANGED input

Next ==
  \/ \E p \in DOMAIN Readers, progress \in BOOLEAN : Call(p, progress)
  \/ TryNative \/ Take \/ Finish \/ ReaderFails \/ Prime \/ Close \/ Convert \/ ExporterFails
  \/ \E l \in job.left : AddTargets(l)

Spec == Init /\ [][Next]_vars

-----------------------------------------------------------------------------
AllTranslations(units, locale) == UNION {Translations(units[i], locale) : i \in DOMAIN units}
FileTranslations ==
  AllTranslations(input.units, TargetLocale(input.declared)) \cup
  UNION {AllTranslations(input.more[l], l) : l \in DOMAIN input.more}

\* Whatever entry point reads a file, its caller gets the same translations, every unit
\* once and no other: a document by Rust or by Python, merged or not (importers.py).
RoutesAgree ==
  /\ job.pc # "idle" => job.given \subseteq job.traits.takes
  /\ job.pc = "done" /\ job.traits.gives \in {"document", "po_targets"} =>
       /\ AllTranslations(job.doc, TargetLocale(job.locales)) = FileTranslations
       /\ \A i, j \in DOMAIN job.doc : job.doc[i].id = job.doc[j].id => i = j
       /\ {u.source : u \in ToSet(job.doc)} = {u.source : u \in ToSet(input.units)} \cup
            UNION {{u.source : u \in ToSet(input.more[l])} : l \in DOMAIN input.more}
  /\ job.pc = "done" /\ job.traits.gives = "documents" =>
       \A l \in input.declared : AllTranslations(job.docs[l], l) = {t \in FileTranslations : t[2] = l}

\* At a normal end, the consumer of a stream or a file has had all units, once and in their
\* order, and before an error every unit that came before it.
UnitsDelivered ==
  /\ job.pc = "done" /\ job.traits.gives \in {"stream", "bridge", "batches", "file"} => job.out = input.units
  /\ job.pc = "failed" /\ job.traits.gives \in {"stream", "bridge", "batches"} => job.out = SubSeq(input.units, 1, input.failAt - 1)

\* A caller that holds a document or a stream finds in its metadata every locale of the units it
\* has, whichever batch had them: those of TMX and XLIFF follow the reader, and those that are
\* taken once, with the first unit, are taken after the header.  The .lokit and legacy JSON files
\* and the parallel reader of TMX have the locales of the header alone, whatever their units say.
Told == job.traits.metadata = "reader" \/ (job.traits.metadata = "header" /\ job.traits.reader \in HeaderReaders)
MetadataComplete ==
  /\ Told /\ job.pc \in {"open", "export", "closed", "broken", "done"} => LocalesOf(job.pulled) \subseteq job.locales
  /\ Told /\ job.pc = "done" => LocalesOf(Limit) \cup DOMAIN input.more \subseteq job.locales

\* When a call is over no reader is open, but for what is left to the garbage collector:
\* the header's reader of the parallel import, a stream closed before its first unit,
\* and a conversion whose exporter failed.
LeftOpen ==
  (IF job.traits.probe THEN {"header"} ELSE {}) \cup
  (IF job.pc = "broken" \/ (job.pc = "closed" /\ ~job.begun /\ ~job.traits.closes) THEN {"main"} ELSE {})
ReadersClosed == job.pc \in {"done", "failed", "closed", "broken"} => job.readers \subseteq LeftOpen
=============================================================================
