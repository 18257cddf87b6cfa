----------------------------- MODULE Exporting ------------------------------
(***************************************************************************)
(* One call of an exporter (exporters/*.py) on a document or on a stream:  *)
(* by Rust where it can (parsers/interchange.py, office/native.py), or in  *)
(* Python over a view whose metadata are those of the document when the    *)
(* call begins.  "input" is the document, with what its reader knows of    *)
(* its locales when it is opened; what is written are triples of a unit,   *)
(* the locale it is written under and the text.                            *)
(***************************************************************************)
EXTENDS Targets, WritePoints

CONSTANTS
  Documents,   \* [kind, from, units, opened, complex, failAt]
  Chosen       \* a locale that the caller may set on a stream before exporting it

VARIABLES input, job
vars == <<input, job>>

\* What is exported is a list of units, whose translations are there; a stream ends, or fails on
\* a unit or after them.  A document in memory names the locales it has translations for, an Office
\* file has none, and a file has a text without a locale where no one locale is known
\* (parsers/interchange.py, office/native.py, lib.rs).
UnitFields == {"id", "target", "status", "usage", "tags", "targets"}
KnownBefore(d, i) == d.opened \cup UNION {DOMAIN d.units[j].targets : j \in 1..i - 1}
DocumentsAssumption ==
  /\ Chosen # Absent
  /\ \A d \in Documents :
       /\ d.units \in Seq(Range(d.units)) /\ d.failAt \in 0..Len(d.units) + 1
       /\ IsFiniteSet(d.opened) /\ Absent \notin d.opened
       /\ \A u \in Range(d.units) :
            /\ UnitFields \subseteq DOMAIN u /\ IsFiniteSet(DOMAIN u.targets) /\ Absent \notin DOMAIN u.targets
            /\ \A l \in DOMAIN u.targets : u.targets[l] # Absent
       /\ d.kind = "document" => d.failAt = 0 /\ \A u \in Range(d.units) : DOMAIN u.targets \subseteq d.opened
       /\ d.kind = "office" => \A u \in Range(d.units) : DOMAIN u.targets = {}
       /\ d.kind = "interchange" => \A i \in DOMAIN d.units : d.units[i].target # Absent => Cardinality(KnownBefore(d, i)) # 1

Batch == 2     \* units that the reader of a stream reads at once
Limit == IF input.failAt = 0 THEN Len(input.units) ELSE input.failAt - 1

\* The metadata of a document: a locale of its own if there is one, and all of them
Meta(locales) == [locale |-> LegacyTargetLocale(Absent, locales), locales |-> locales]
LocalesOf(n) == input.opened \cup UNION {DOMAIN input.units[i].targets : i \in 1..n}
Fetched(n) == IF n = 0 THEN 0 ELSE LET m == ((n + Batch - 1) \div Batch) * Batch IN IF m > Limit THEN Limit ELSE m
MetaAfter(n) == Meta(IF input.kind = "interchange" THEN LocalesOf(Fetched(n)) ELSE input.opened)

Idle == [pc |-> "idle", format |-> "", group |-> FALSE, path |-> "", route |-> "", chosen |-> Absent, meta |-> MetaAfter(0),
         view |-> MetaAfter(0), peeked |-> 0, taken |-> 0, content |-> {}]
Init == input \in Documents /\ job = Idle

-----------------------------------------------------------------------------
(* What is written of the units "us" for the metadata "v" *)
Text(u, locale, text) == IF text = Absent \/ locale = Absent THEN {} ELSE {<<u.id, locale, text>>}
Each(us, Of(_)) == UNION {Of(us[i]) : i \in DOMAIN us}
Own(us, locale) == Each(us, LAMBDA u : Text(u, locale, u.target))
Localized(us) == Each(us, LAMBDA u : UNION {Text(u, l, u.targets[l].text) : l \in DOMAIN u.targets})

TmxText(us, v) == Own(us, v.locale) \cup Localized(us)
LokitText(us, v) == Own(us, v.locale) \cup Localized(us)

\* The translation of the locale of the file, the one without, or the only one there is
XliffSelected(u, locale) ==
  IF locale \in DOMAIN u.targets THEN u.targets[locale].text
  ELSE IF u.target = Absent /\ Cardinality(DOMAIN u.targets) = 1 THEN u.targets[CHOOSE l \in DOMAIN u.targets : TRUE].text
  ELSE u.target
XliffSingle(us, locale) == Each(us, LAMBDA u : Text(u, locale, XliffSelected(u, locale)))
Parts(us, v) == SplitTargets([locale |-> v.locale, locales |-> v.locales, units |-> us], {}, TRUE)
XliffText(us, v) ==
  IF v.locale # Absent THEN XliffSingle(us, v.locale)
  ELSE LET parts == Parts(us, v) IN UNION {XliffSingle(parts[l], l) : l \in DOMAIN parts}

\* Tables have a column for every locale of the metadata
Columns(v) == IF v.locales # {} THEN v.locales ELSE {v.locale} \ {Absent}
TextOf(us, l) == Each(us, LAMBDA u : Text(u, l, TargetText(u, l)))
TableText(us, v) == UNION {TextOf(us, l) : l \in Columns(v)}
JsonText(us, v) == UNION {TextOf(us, l) : l \in (IF v.locale # Absent THEN {v.locale} ELSE Columns(v))}

\* One file, or one per locale
PerLocale(v) == v.locale = Absent /\ v.locales # {}
PartText(us, v, locales) == LET parts == Parts(us, v) IN UNION {Own(parts[l], l) : l \in locales}
PoText(us, v) == IF PerLocale(v) THEN PartText(us, v, v.locales) ELSE TextOf(us, v.locale)
HtmlText(us, v) == IF PerLocale(v) THEN PartText(us, v, v.locales) ELSE Own(us, v.locale)
IdmlText(us, v) == IF PerLocale(v) THEN PartText(us, v, v.locales) ELSE Own(us, v.locale)
\* A split that finds a locale the metadata do not have stops where its file should be
Strays(format, us, v) == format \in {"po", "html"} /\ PerLocale(v) /\ Cardinality(DOMAIN Parts(us, v)) > Cardinality(v.locales)

Written(format, us, v) ==
  CASE format = "tmx" -> TmxText(us, v)
    [] format = "xliff" -> XliffText(us, v)
    [] format = "lokit" -> LokitText(us, v)
    [] format = "csv" -> TableText(us, v)
    [] format = "json" -> JsonText(us, v)
    [] format = "po" -> PoText(us, v)
    [] format = "html" -> HtmlText(us, v)
    [] format = "idml" -> IdmlText(us, v)

-----------------------------------------------------------------------------
Streamed == input.kind # "document"
\* The caller reads a unit, or sets a locale, before the stream is exported
Peek ==
  /\ job.pc = "idle" /\ Streamed /\ job.peeked < Limit /\ job.peeked < 1
  /\ job' = [job EXCEPT !.peeked = @ + 1, !.taken = @ + 1,
                        !.meta = IF job.chosen = Absent THEN MetaAfter(job.taken + 1) ELSE [MetaAfter(job.taken + 1) EXCEPT !.locale = job.chosen]]
  /\ UNCHANGED input
Choose ==
  /\ job.pc = "idle" /\ Streamed /\ job.chosen = Absent /\ job.meta.locale # Chosen
  /\ job' = [job EXCEPT !.chosen = Chosen, !.meta.locale = Chosen]
  /\ UNCHANGED input

\* The functions of exporters/*.py and the format they write
XmlExporters ==
  [n \in {"export_tmx", "export_tmx_async", "export_tmx_from_json"} |-> "tmx"] @@
  [n \in {"export_xliff", "export_xliff_async", "export_xliff_from_json", "export_xliff_from_json_async"} |-> "xliff"]
TableExporters == [n \in {"export_csv", "export_csv_async", "export_xlsx", "export_xlsx_async"} |-> "csv"]
LokitExporters == [n \in {"export_lokit", "export_lokit_async"} |-> "lokit"]
JsonExporters == [n \in {"export_json_i18n", "export_json_i18n_async"} |-> "json"]
PoExporters == [n \in {"export_po", "export_po_async"} |-> "po"]
HtmlExporters == [n \in {"export_html", "export_html_async"} |-> "html"]
IdmlExporters == [n \in {"export_idml", "export_idml_async"} |-> "idml"]
FormatNames == {"tmx", "xliff", "csv", "lokit", "json", "po", "html", "idml"}
Formats == XmlExporters @@ TableExporters @@ LokitExporters @@ JsonExporters @@ PoExporters @@ HtmlExporters @@ IdmlExporters

FormatsAssumption == \A exporter \in DOMAIN Formats : Formats[exporter] \in FormatNames

\* Rust is tried for XML; a stream must be untouched and its metadata those it was opened with
Native(format, group, resolve) ==
  /\ format \in {"tmx", "xliff"} /\ resolve /\ ~group
  /\ Streamed => job.peeked = 0 /\ job.chosen = Absent /\ input.kind \in {"interchange", "office"}
  /\ input.kind = "office" => format = "xliff"
Write(writer, group, resolve, path) ==
  /\ job.pc = "idle" /\ Writers[writer].to \in DOMAIN Formats
  /\ writer \in DOMAIN FromJson => input.kind = "iterator"
  /\ group => "group" \in Writers[writer].passes
  /\ ~resolve => "resolve" \in Writers[writer].passes
  /\ LET format == Formats[Writers[writer].to] IN
     /\ path = "directory" => format \in {"po", "json", "html", "idml"}
     /\ job' = [job EXCEPT !.pc = IF Native(format, group, resolve) THEN "native" ELSE "python",
                           !.format = format, !.group = group, !.path = path]
  /\ UNCHANGED input

Done(content, route) == [job EXCEPT !.pc = "done", !.route = route, !.content = content]
Failed == [job EXCEPT !.pc = "failed"]
Declined(meta) == [job EXCEPT !.pc = "python", !.route = "declined", !.meta = meta]

\* A document in memory: one locale, and simple units
NativeBase ==
  /\ job.pc = "native" /\ input.kind = "document"
  /\ LET one == Cardinality(job.meta.locales) <= 1 /\ (job.format = "xliff" => job.meta.locale # Absent) IN
     job' = IF ~one \/ input.complex THEN Declined(job.meta)
            ELSE IF job.format = "tmx" /\ job.meta.locale = Absent /\ \E i \in DOMAIN input.units : input.units[i].target # Absent THEN Failed
            ELSE Done(IF job.format = "tmx" THEN TmxText(input.units, job.meta) ELSE XliffSingle(input.units, job.meta.locale), "native")
  /\ UNCHANGED input

\* The file of a stream: copied, or converted by a second reader, whose locales are those
\* of the header while it writes.  If Rust declines, the file is read once more for the metadata.
Supported(m) == Cardinality(m.locales) <= 1 /\ (input.from # job.format => m.locale # Absent)
ConvertText == IF job.format = "tmx" THEN TmxText(input.units, MetaAfter(0))
               ELSE IF MetaAfter(0).locale = Absent THEN {} ELSE XliffSingle(input.units, MetaAfter(0).locale)
RefreshNothing == job.meta   \* mutant: the metadata stay those of the header
Refresh == MetaAfter(Limit)
NativeConvert(copied) ==
  /\ job.pc = "native" /\ input.kind = "interchange"
  /\ copied => input.from = job.format
  /\ job' = IF ~copied /\ ~Supported(MetaAfter(0)) /\ input.failAt = 0 THEN Declined(Refresh)
            ELSE IF input.failAt > 0 THEN Failed
            ELSE IF copied THEN Done(Localized(input.units), "copied")
            ELSE IF input.complex \/ ~Supported(MetaAfter(Limit)) THEN Declined(Refresh)
            ELSE Done(ConvertText, "native")
  /\ UNCHANGED input

\* An Office stream is read by Rust through the iterator; it is declined before the first unit
NativeOffice ==
  /\ job.pc = "native" /\ input.kind = "office"
  /\ LET declines == Cardinality(job.meta.locales) > 1 \/ (job.meta.locale = Absent /\ job.meta.locales # {}) IN
     job' = IF declines THEN Declined(job.meta)
            ELSE IF input.failAt > 0 \/ input.complex THEN Failed
            ELSE Done(XliffSingle(input.units, job.meta.locale), "native")
  /\ UNCHANGED input

\* The view is taken before a unit is read; several locales need a directory
ManyLocales(v) == IF job.format = "json" THEN v.locale = Absent /\ Cardinality(Columns(v)) > 1 ELSE PerLocale(v)
Prepare ==
  /\ job.pc = "python"
  /\ job' = IF job.format \in {"po", "json", "html", "idml"} /\ ManyLocales(job.meta) /\ job.path = "file"
              THEN [job EXCEPT !.pc = "refused"] ELSE [job EXCEPT !.pc = "read", !.view = job.meta]
  /\ UNCHANGED input

Pull ==
  /\ job.pc = "read" /\ job.taken < Limit
  /\ job' = [job EXCEPT !.taken = @ + 1]
  /\ UNCHANGED input
Units == SubSeq(input.units, job.peeked + 1, Limit)
Commit ==
  /\ job.pc = "read" /\ job.taken = Limit /\ input.failAt = 0
  /\ job' = IF Strays(job.format, Units, job.view) THEN Failed ELSE Done(Written(job.format, Units, job.view), IF job.route = "" THEN "python" ELSE job.route)
  /\ UNCHANGED input

\* The reader fails
ReaderFails ==
  /\ job.pc = "read" /\ job.taken = Limit /\ input.failAt > 0
  /\ job' = Failed
  /\ UNCHANGED input

Next ==
  \/ Peek \/ Choose
  \/ \E w \in DOMAIN Writers, group, resolve \in BOOLEAN, path \in {"file", "directory"} : Write(w, group, resolve, path)
  \/ NativeBase \/ NativeOffice \/ Prepare \/ Pull \/ Commit \/ ReaderFails
  \/ \E copied \in BOOLEAN : NativeConvert(copied)
Spec == Init /\ [][Next]_vars

-----------------------------------------------------------------------------
Exported == IF job.route \in {"native", "copied"} THEN input.units ELSE Units
TrueMeta(v) == UNION {DOMAIN Exported[i].targets : i \in DOMAIN Exported} \subseteq v.locales /\ v = Meta(v.locales)
\* XLIFF that Rust converts after a first file without a target language has no targets
KnownLoss == job.route = "native" /\ input.kind = "interchange" /\ job.format = "xliff" /\ MetaAfter(0).locale = Absent
OnlyOwn == job.format \in {"html", "idml"} /\ ~PerLocale(job.view)

\* Every translation is written, under its own locale and no other, when the metadata that
\* the writer sees are true; they are for a document, and for a stream that Rust declined.
\* TMX, .lokit and a split XLIFF keep every translation whatever the metadata are, and a
\* locale that the caller chose gets its translations, and nothing is written that the caller
\* has read from the stream before.
ExportKeepsTranslations == job.pc = "done" =>
  LET all == Localized(Exported)
      true == job.view.locale # Chosen /\ TrueMeta(IF job.route = "native" THEN job.meta ELSE job.view)
  IN /\ (job.route = "declined" \/ input.kind = "document") => TrueMeta(job.meta)
     /\ (true \/ job.format \in {"tmx", "lokit"} \/ (job.format = "xliff" /\ job.view.locale = Absent)) /\ ~KnownLoss /\ ~OnlyOwn =>
          all \subseteq job.content
     /\ true => \A t \in job.content : t \in all \/ \E i \in DOMAIN Exported : t[1] = Exported[i].id /\ t[3] = Exported[i].target
     /\ true => \A i \in DOMAIN Exported : DOMAIN Exported[i].targets = {} => Text(Exported[i], job.view.locale, Exported[i].target) \subseteq job.content
     /\ \A t \in job.content : /\ \E i \in DOMAIN Units : Units[i].id = t[1]
                               /\ job.chosen = Chosen /\ job.format = "xliff" => t[2] = Chosen
     /\ job.chosen = Chosen /\ job.format \in {"tmx", "xliff", "po", "json"} => {t \in all : t[2] = Chosen} \subseteq job.content
=============================================================================
