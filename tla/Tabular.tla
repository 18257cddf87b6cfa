------------------------------- MODULE Tabular ------------------------------
(***************************************************************************)
(* tabular.py and the readers and writers of CSV and XLSX tables: which    *)
(* columns a document is written to, and which columns of a table are read *)
(* as what.  One behaviour writes a document row by row and reads the      *)
(* table again.  A cell is a text, "" when empty; columns count from 1, a  *)
(* column that is not there is 0.                                          *)
(***************************************************************************)
EXTENDS Targets, FiniteSetsExt, TLC

CONSTANTS
  Tables,      \* [doc, write, read]: a document, how it is written and how it is read
  Language,    \* the canonical locale of the header names that are locales
  Base         \* the language of a locale

VARIABLES input, job
vars == <<input, job>>

Roles == {"id", "source", "target", "status", "comment"}
Canonical(name) == IF name \in DOMAIN Language THEN Language[name] ELSE name
Cell(row, column) == IF column \in DOMAIN row THEN row[column] ELSE ""
OrEmpty(text) == IF text = Absent THEN "" ELSE text
OrAbsent(text) == IF text = "" THEN Absent ELSE text

-----------------------------------------------------------------------------
\* The names of the columns that are written, and what a unit has under each
Locales(doc) == IF doc.locales # <<>> THEN doc.locales ELSE IF doc.target # Absent THEN <<doc.target>> ELSE <<>>
SourceName(doc, o) ==
  IF o.sourceName # "" THEN o.sourceName ELSE IF o.style = "locale" /\ doc.source # "" THEN doc.source ELSE "source"
TargetName(doc, o) ==
  IF o.targetName # "" THEN o.targetName ELSE IF o.style = "locale" /\ doc.target # Absent THEN doc.target ELSE "target"
TargetNameAlone(doc, o, locale) ==   \* mutant: the style of the header is forgotten
  IF Len(Locales(doc)) = 1 THEN TargetName(doc, o) ELSE o.prefixed[locale]
TargetNameFor(doc, o, locale) ==
  IF Len(Locales(doc)) = 1 THEN TargetName(doc, o) ELSE IF o.style = "locale" THEN locale ELSE o.prefixed[locale]
TargetNames(doc, o) ==
  IF Len(Locales(doc)) > 1 /\ o.targetName = ""
    THEN [i \in DOMAIN Locales(doc) |-> TargetNameFor(doc, o, Locales(doc)[i])] ELSE <<TargetName(doc, o)>>

Fieldnames(doc, o) ==
  IF o.order # <<>> THEN o.order
  ELSE (IF "id" \in o.include THEN <<"id">> ELSE <<>>) \o <<SourceName(doc, o)>> \o
       (IF "target" \in o.include /\ Locales(doc) # <<>> THEN TargetNames(doc, o) ELSE <<>>) \o
       (IF "status" \in o.include THEN <<"status">> ELSE <<>>) \o (IF "comment" \in o.include THEN <<"comment">> ELSE <<>>)

\* The status of the row: that of a translation before that of the unit, when no locale is selected
KnownStatuses(u) == {u.targets[l].status : l \in DOMAIN u.targets} \ {"unknown"}
StatusCell(doc, u) ==
  LET status == IF doc.target = Absent /\ KnownStatuses(u) # {} THEN CHOOSE s \in KnownStatuses(u) : TRUE ELSE u.status
  IN IF status = "unknown" THEN "" ELSE status

\* Of two entries with one name the later one is written
Value(doc, o, u, name) ==
  LET named == {i \in DOMAIN Locales(doc) : name \in {Locales(doc)[i], TargetNameFor(doc, o, Locales(doc)[i])}}
      known == doc.target = Absent /\ KnownStatuses(u) # {}
  IN CASE named # {} /\ ~(name = "status" /\ known) -> OrEmpty(TargetText(u, Locales(doc)[Max(named)]))
       [] named = {} /\ name = "comment" -> u.comment
       [] name = "status" /\ (named = {} \/ known) -> StatusCell(doc, u)
       [] named = {} /\ name \in {"target", TargetName(doc, o)} \ {"comment", "status"} -> OrEmpty(u.target)
       [] named = {} /\ name \in {"source", SourceName(doc, o)} \ {"comment", "status", "target", TargetName(doc, o)} -> u.source
       [] named = {} /\ name = "id" /\ "id" \notin {SourceName(doc, o), TargetName(doc, o)} -> u.id
       [] OTHER -> ""
Record(doc, o, u) == LET fields == Fieldnames(doc, o) IN [i \in DOMAIN fields |-> Value(doc, o, u, fields[i])]

-----------------------------------------------------------------------------
\* The layout of a table by its first row, and what the caller says of its columns
MetadataColumns(cells) ==
  [r \in Roles \cap Range(cells) |-> Min({i \in DOMAIN cells : cells[i] = r})]
LanguageCells(cells) == {i \in DOMAIN cells \ Range(MetadataColumns(cells)) : cells[i] \in DOMAIN Language}
LanguageColumns(cells) ==
  LET found == LanguageCells(cells)
  IN [l \in {Language[cells[i]] : i \in found} |-> Max({i \in found : Language[cells[i]] = l})]
HasHeader(cells, o) ==
  \/ o.header = "present"
  \/ o.header = "auto" /\ (DOMAIN MetadataColumns(cells) # {} \/ LanguageCells(cells) # {})

Under(cells, name) == {i \in DOMAIN cells : cells[i] = name}
Selected(selector, cells) ==
  CASE selector.mode = "index" -> selector.index
    [] selector.mode = "name" /\ Under(cells, selector.name) # {} -> Min(Under(cells, selector.name))
    [] OTHER -> 0
SelectorRaises(selector, cells, o) ==
  \/ selector.mode = "index" /\ selector.index \notin DOMAIN cells
  \/ selector.mode = "name" /\ (~HasHeader(cells, o) \/ Under(cells, selector.name) = {})

\* A locale is found by its name, or as the only one of its language
MatchLocale(locale, columns) ==
  LET same == {l \in DOMAIN columns : Base[l] = Base[Canonical(locale)]} IN
  IF locale \in {"", Absent} THEN 0
  ELSE IF Canonical(locale) \in DOMAIN columns THEN columns[Canonical(locale)]
  ELSE IF Cardinality(same) = 1 THEN columns[CHOOSE l \in same : TRUE] ELSE 0

SourceColumn(cells, o) ==
  LET meta == MetadataColumns(cells)
      languages == LanguageColumns(cells)
      plain == DOMAIN cells \ Range(meta)
      selected == Selected(o.source, cells)
  IN IF selected > 0 THEN selected
     ELSE IF ~HasHeader(cells, o) THEN 1
     ELSE IF MatchLocale(o.sourceLocale, languages) > 0 THEN MatchLocale(o.sourceLocale, languages)
     ELSE IF "source" \in DOMAIN meta THEN meta["source"]
     ELSE IF DOMAIN languages # {} THEN languages[Language[cells[Min(LanguageCells(cells))]]]
     ELSE IF plain # {} THEN Min(plain) ELSE 1

TargetColumns(cells, o) ==
  LET meta == MetadataColumns(cells)
      languages == LanguageColumns(cells)
      name(l) == IF l = "" /\ o.targetLocale # Absent THEN o.targetLocale ELSE l
  IN IF DOMAIN o.targets # {}
       THEN [l \in {Canonical(name(s)) : s \in DOMAIN o.targets} |->
               Selected(o.targets[CHOOSE s \in DOMAIN o.targets : Canonical(name(s)) = l], cells)]
     ELSE IF ~HasHeader(cells, o) THEN <<>>
     ELSE IF o.targetLocale # Absent
       THEN IF MatchLocale(o.targetLocale, languages) > 0 THEN Canonical(o.targetLocale) :> MatchLocale(o.targetLocale, languages)
            ELSE IF "target" \in DOMAIN meta THEN o.targetLocale :> meta["target"] ELSE <<>>
     ELSE IF "target" \in DOMAIN meta THEN "" :> meta["target"]
     ELSE [l \in {k \in DOMAIN languages : languages[k] # SourceColumn(cells, o)} |-> languages[l]]

TargetLocale(o, columns) ==
  IF o.targetLocale # Absent THEN Canonical(o.targetLocale)
  ELSE IF Cardinality(DOMAIN columns) = 1 THEN OrAbsent(CHOOSE l \in DOMAIN columns : TRUE) ELSE Absent
SourceLocale(cells, o) ==
  LET here == {l \in DOMAIN LanguageColumns(cells) : LanguageColumns(cells)[l] = SourceColumn(cells, o)}
  IN IF here # {} THEN CHOOSE l \in here : TRUE ELSE Canonical(o.sourceLocale)
OptionalColumn(selector, role, cells, o) ==
  IF selector.mode # "auto" THEN Selected(selector, cells)
  ELSE IF HasHeader(cells, o) /\ role \in DOMAIN MetadataColumns(cells) THEN MetadataColumns(cells)[role] ELSE 0

Layout(cells, o) ==
  LET targets == TargetColumns(cells, o)
      columns == [source |-> SourceColumn(cells, o), id |-> OptionalColumn(o.id, "id", cells, o),
                  status |-> OptionalColumn(o.status, "status", cells, o), comment |-> OptionalColumn(o.comment, "comment", cells, o)]
  IN [columns |-> columns, targets |-> targets, header |-> HasHeader(cells, o), asData |-> o.asData,
      source |-> SourceLocale(cells, o), target |-> TargetLocale(o, targets),
      extra |-> IF HasHeader(cells, o) /\ o.preserve
                  THEN {i \in DOMAIN cells : i \notin Range(columns) \cup Range(targets)} ELSE {}]
LayoutRaises(cells, o) ==
  \/ o.header = "present" /\ cells = <<>>
  \/ \E s \in Range(o.targets) : s.mode \in {"auto", "absent"}
  \/ o.strict /\ \E i, j \in LanguageCells(cells) : i # j /\ Language[cells[i]] = Language[cells[j]]
  \/ \E s \in {o.source, o.id, o.status, o.comment} \cup Range(o.targets) : SelectorRaises(s, cells, o)

\* One row as the unit of one locale, or of all
MakeData(row, layout, n, locale) ==
  LET status == Cell(row, layout.columns.status)
      id == Cell(row, layout.columns.id)
  IN [id |-> IF id = "" THEN n ELSE id, source |-> Cell(row, layout.columns.source),
      target |-> IF locale \in DOMAIN layout.targets THEN OrAbsent(Cell(row, layout.targets[locale])) ELSE Absent,
      targets |-> IF locale = Absent
        THEN [l \in DOMAIN layout.targets \ {""} |-> OrAbsent(Cell(row, layout.targets[l]))] ELSE <<>>,
      status |-> IF status = "" THEN "unknown" ELSE status, comment |-> Cell(row, layout.columns.comment),
      extra |-> {Cell(row, i) : i \in layout.extra} \ {""}]

-----------------------------------------------------------------------------
Init == input \in Tables /\ job = [pc |-> "write", rows |-> <<>>, layout |-> Absent, next |-> 1, units |-> <<>>]

WriteHeader ==
  /\ job.pc = "write" /\ job.rows = <<>> /\ input.write.header
  /\ job' = [job EXCEPT !.rows = <<Fieldnames(input.doc, input.write)>>]
  /\ UNCHANGED input
Written == IF input.write.header THEN Len(job.rows) - 1 ELSE Len(job.rows)
WriteUnit ==
  /\ job.pc = "write" /\ Written \in 0..Len(input.doc.units) - 1
  /\ job' = [job EXCEPT !.rows = Append(@, Record(input.doc, input.write, input.doc.units[Written + 1]))]
  /\ UNCHANGED input
\* The first row says the layout; an empty table has no units
Resolve ==
  /\ job.pc = "write" /\ Written = Len(input.doc.units)
  /\ LET cells == Head(job.rows)
         layout == Layout(cells, input.read)
     IN job' = IF job.rows = <<>> THEN [job EXCEPT !.pc = "end"]
               ELSE IF LayoutRaises(cells, input.read) THEN [job EXCEPT !.pc = "raised"]
               ELSE [job EXCEPT !.pc = "read", !.layout = layout, !.next = IF layout.header /\ ~layout.asData THEN 2 ELSE 1]
  /\ UNCHANGED input
ReadUnit(row) ==
  IF input.read.split THEN [l \in DOMAIN job.layout.targets |-> MakeData(row, job.layout, job.next, l)]
  ELSE MakeData(row, job.layout, job.next, job.layout.target)
ReadRow ==
  /\ job.pc = "read"
  /\ job' = IF job.next > Len(job.rows) THEN [job EXCEPT !.pc = "end"]
            ELSE [job EXCEPT !.next = @ + 1, !.units = Append(@, ReadUnit(job.rows[job.next]))]
  /\ UNCHANGED input
Next == WriteHeader \/ WriteUnit \/ Resolve \/ ReadRow
Spec == Init /\ [][Next]_vars

-----------------------------------------------------------------------------
ReadText(read, locale) ==
  IF input.read.split THEN IF locale \in DOMAIN read THEN read[locale].target ELSE Absent
  ELSE IF job.layout.target = locale THEN read.target
  ELSE IF locale \in DOMAIN read.targets THEN read.targets[locale] ELSE Absent

\* The header says what is in the columns: it has the locales, or the reader knows the only
\* one; "target_de", one column for several locales and a table of texts do not say it, and
\* Indonesian has the name of the unit's id.  The column "target" is found under the locale
\* as the caller spells it, and read under the canonical one.
Titled(doc, w, r) ==
  /\ w.header /\ w.order = <<>> /\ w.targetName = "" /\ "target" \in w.include
  /\ Range(Locales(doc)) \cap Roles = {}
  /\ w.style = "locale" \/ (Len(Locales(doc)) = 1 /\ r.targetLocale # Absent /\ Canonical(r.targetLocale) = r.targetLocale)
\* A locale that has no column takes the only one of its language: that of the source, too.
SourceIsOnlyOne(doc, w, locale) ==
  locale \notin Range(Fieldnames(doc, w)) \cup {Absent} /\ doc.source # "" /\ Base[Canonical(locale)] = Base[doc.source]

\* What is written under the names of the document is read back under them: every unit once,
\* its own texts, every translation in its locale, and no source text as a translation.
Same(read, u) == read.id = u.id /\ read.source = u.source /\ read.status = u.status /\ read.comment = u.comment
LayoutReadsBack ==
  /\ input.read.header = "auto" /\ job.pc \in {"end", "raised"} /\ (job.layout.header => input.write.header) =>
       /\ job.pc = "end" /\ Len(job.units) = Len(input.doc.units)
       /\ Titled(input.doc, input.write, input.read) =>
            \A i \in DOMAIN job.units :
              /\ input.write.include = Roles \ {"source"} /\ ~input.read.split => Same(job.units[i], input.doc.units[i])
              /\ \A l \in Range(Locales(input.doc)) :
                   input.read.targetLocale \in {l, Absent} =>
                     ReadText(job.units[i], Canonical(l)) = TargetText(input.doc.units[i], l)
       /\ ~SourceIsOnlyOne(input.doc, input.write, input.read.targetLocale) =>
            \A i \in DOMAIN job.units : \A l \in DOMAIN Base : ReadText(job.units[i], l) \notin {u.source : u \in Range(input.doc.units)}
  /\ input.read.header # "auto" /\ job.pc = "end" =>
       \A i \in DOMAIN input.doc.units : \A l \in DOMAIN input.read.targets :
         l \in Range(Locales(input.doc)) => ReadText(job.units[i], l) = TargetText(input.doc.units[i], l)
=============================================================================
