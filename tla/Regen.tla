------------------------------- MODULE Regen --------------------------------
(***************************************************************************)
(* exporters/regen.py: the file a document was read from is written again, *)
(* record by record, with the translations of the document in place of its *)
(* own.  Nothing but the identifiers says which unit belongs to a record:  *)
(* the readers give them, and the regeneration gives them a second time.   *)
(* A record has keys, each the place of a text (a column, a language as    *)
(* the file spells it, an index of msgstr).  An identifier is a sequence   *)
(* of its parts, and a text says where it comes from.                      *)
(***************************************************************************)
EXTENDS Targets, Integers

CONSTANTS
  Originals,   \* [format, records, imported, locale, streamed, v2]: imported is the locale
               \* the reader was asked for, locale the one the regeneration was
  Language,    \* normalize_language_header, of the spellings that are languages
  Base         \* the base language

VARIABLES input, job
vars == <<input, job>>

Sheets == {"csv", "xlsx"}
Canonical(locale) == IF locale \in DOMAIN Language THEN Language[locale] ELSE locale
Old(i, key) == <<"old", <<i, key>>>>
New(place) == <<"new", place>>

-----------------------------------------------------------------------------
(* identity.rs: the identifiers of both sides.  An identifier that is taken gets the *)
(* next free suffix.                                                                 *)
Unique(used, id) ==
  LET free == {n \in 2..Cardinality(used) + 2 : Append(id, ToString(n)) \notin used}
  IN IF id \notin used THEN id ELSE Append(id, ToString(CHOOSE n \in free : \A m \in free : n <= m))

XliffPreferred(r) ==
  CASE input.v2 /\ r.name # <<>> /\ r.parent # <<>> -> r.parent \o <<":">> \o r.name
    [] input.v2 /\ r.name = <<>> /\ r.parent # <<>> -> r.parent
    [] OTHER -> IF r.name = <<>> THEN <<ToString(r.resource)>> ELSE r.name

ResolveXliff(used, r) ==
  LET preferred == XliffPreferred(r)
  IN IF preferred \notin used THEN preferred ELSE Unique(used, <<ToString(r.resource), ":">> \o preferred)

\* What is counted: every row of a table, and every tu without a tuid
NoIds == [used |-> {}, index |-> 0, id |-> <<>>]
Resolve(ids, r) ==
  LET id == CASE input.format = "xliff" -> ResolveXliff(ids.used, r)
              [] r.name # <<>> -> Unique(ids.used, r.name)
              [] input.format = "tmx" -> Unique(ids.used, <<"auto", ToString(ids.index)>>)
              [] OTHER -> Unique(ids.used, <<"row", ToString(ids.index)>>)
  IN [used |-> ids.used \cup {id}, index |-> IF input.format = "tmx" /\ r.name # <<>> THEN ids.index ELSE ids.index + 1, id |-> id]

\* parsers/po/extraction.py: an entry with a context is named by its place
PoId(ids, r) ==
  LET id == IF r.kind = "context" THEN Unique(ids.used, <<"po", ToString(ids.index)>>) ELSE Unique(ids.used, r.name)
  IN [used |-> ids.used \cup {id}, index |-> ids.index + 1, id |-> id]
FormOf(id, form) == IF form = "0" THEN id ELSE id \o <<"[", form>>

-----------------------------------------------------------------------------
(* The readers.  csv_core skips the blank rows that Python's reader counts, and the rows *)
(* that an XLSX sheet leaves out are rows to its reader; an ignorable is a unit.          *)
IsExtracted(r) == CASE input.format = "csv" -> r.kind # "blank"
                    [] input.format = "po" -> r.kind \notin {"header", "obsolete"}
                    [] OTHER -> TRUE
IsRewritten(r) == CASE input.format = "xlsx" -> r.kind # "blank"
                    [] input.format = "xliff" -> r.kind # "ignorable"
                    [] OTHER -> IsExtracted(r) \/ r.kind = "blank"

\* A unit, with the place of every text; without a locale, or asked for one, it has one target
Placed(i, key) == [text |-> Old(i, key), place |-> <<i, key>>]
Bare(id) == [id |-> id, target |-> Absent, own |-> Absent, targets |-> <<>>, status |-> "draft", name |-> <<>>]
OwnUnit(id, i, key) == [Bare(id) EXCEPT !.target = Old(i, key), !.own = <<i, key>>]
RecordUnit(id, i, r) ==
  LET spelt(l) == {key \in ToSet(r.keys) : Canonical(key) = l}
      keyOf(l) == CHOOSE key \in spelt(l) : TRUE
      unit == IF input.imported = Absent
                THEN [Bare(id) EXCEPT !.targets = [l \in {Canonical(key) : key \in ToSet(r.keys)} |-> Placed(i, keyOf(l))]]
                ELSE IF spelt(input.imported) = {} THEN Bare(id) ELSE OwnUnit(id, i, keyOf(input.imported))
  IN [unit EXCEPT !.name = r.name]

ExtractPo(ids, i, r) ==
  LET claimed == PoId(ids, r)
      form(s, key) == LET id == IF key = "0" THEN claimed.id ELSE Unique(s.used, FormOf(claimed.id, key))
                      IN [used |-> s.used \cup {id}, units |-> Append(s.units, OwnUnit(id, i, key))]
      all == FoldLeft(form, [used |-> claimed.used, units |-> <<>>], r.keys)
  IN [ids |-> [claimed EXCEPT !.used = all.used], units |-> all.units]

Extract(state, i) ==
  LET r == input.records[i] IN
  IF ~IsExtracted(r) THEN state
  ELSE IF input.format = "po"
    THEN LET one == ExtractPo(state.ids, i, r) IN [ids |-> one.ids, units |-> state.units \o one.units]
    ELSE LET ids == Resolve(state.ids, r) IN [ids |-> ids, units |-> Append(state.units, RecordUnit(ids.id, i, r))]

Read == FoldLeft(Extract, [ids |-> NoIds, units |-> <<>>], [i \in DOMAIN input.records |-> i]).units

\* importers.py: the units of one segment in files of several languages become one, the
\* first; the only language of a document moves into its units
LocalesOf(units) == UNION {DOMAIN units[i].targets : i \in DOMAIN units}
Merge(doc, u) ==
  LET same == {j \in DOMAIN doc : u.name # <<>> /\ doc[j].name = u.name /\ DOMAIN doc[j].targets \cap DOMAIN u.targets = {}}
  IN IF same = {} THEN Append(doc, u)
     ELSE [doc EXCEPT ![CHOOSE j \in same : \A k \in same : j <= k].targets = u.targets @@ @]
Collapse(u) ==
  IF Cardinality(DOMAIN u.targets) # 1 THEN u
  ELSE LET only == u.targets[CHOOSE l \in DOMAIN u.targets : TRUE]
       IN [u EXCEPT !.target = only.text, !.own = only.place, !.targets = <<>>]
Document(units) ==
  IF input.format # "xliff" \/ input.streamed THEN units
  ELSE IF Cardinality(LocalesOf(units)) > 1 THEN FoldLeft(Merge, <<>>, units)
  ELSE [i \in DOMAIN units |-> Collapse(units[i])]

DocumentLocale ==
  LET locales == {Canonical(key) : key \in UNION {ToSet(input.records[i].keys) : i \in DOMAIN input.records} \ {""}}
  IN IF input.imported # Absent THEN input.imported
     ELSE IF input.format # "po" /\ Cardinality(locales) = 1 THEN CHOOSE l \in locales : TRUE ELSE Absent

-----------------------------------------------------------------------------
(* _UnitProvider: a document is looked up, a stream is read as far as the unit, or to *)
(* its end, and is then closed; the last unit read is remembered.                     *)
Find(units, id) == {j \in DOMAIN units : units[j].id = id}
Advance(p, id) ==
  LET found == Find(p.items, id) IN
  IF ~input.streamed
    THEN [p EXCEPT !.last = IF found = {} THEN @ ELSE p.items[CHOOSE j \in found : TRUE], !.hit = found # {}]
  ELSE IF p.closed \/ found = {}
    THEN [p EXCEPT !.last = IF p.items = <<>> THEN @ ELSE Last(p.items), !.items = <<>>, !.closed = TRUE, !.hit = FALSE]
    ELSE LET j == CHOOSE k \in found : \A m \in found : k <= m
         IN [p EXCEPT !.last = p.items[j], !.items = SubSeq(p.items, j + 1, Len(p.items)), !.hit = TRUE]
Get(p, id) == IF p.last # Absent /\ p.last.id = id THEN [p EXCEPT !.hit = TRUE] ELSE Advance(p, id)

-----------------------------------------------------------------------------
(* What a record asks for: [id, locale, key], in the order of the code *)
Columns == LET rows == SelectSeq(input.records, LAMBDA r : r.kind # "blank") IN
           IF rows = <<>> THEN <<>> ELSE rows[1].keys
FindTargetColumn(locale) ==
  LET canonical == Canonical(locale)
      alike == {c \in ToSet(Columns) : c # "" /\ Base[c] = Base[canonical]}
  IN IF canonical \in ToSet(Columns) THEN canonical
     ELSE IF Cardinality(alike) = 1 THEN CHOOSE c \in alike : TRUE
     ELSE IF "" \in ToSet(Columns) THEN "" ELSE Absent

Ask(id, locale, key) == [id |-> id, locale |-> locale, key |-> key]
FirstOf(locale, other) == IF locale # Absent THEN locale ELSE other
TargetColumns(id) ==
  LET one(locale) == Ask(id, locale, FindTargetColumn(locale))
      named(l) == IF l.key = Absent THEN <<>> ELSE <<l>>
      all == [k \in DOMAIN Columns |-> Ask(id, IF Columns[k] = "" THEN DocumentLocale ELSE Columns[k], Columns[k])]
  IN IF input.locale # Absent THEN named(one(input.locale))
     ELSE IF DocumentLocale # Absent /\ FindTargetColumn(DocumentLocale) # Absent THEN <<one(DocumentLocale)>>
     ELSE all

XliffAsks(id, r) ==
  [k \in DOMAIN r.keys |-> Ask(id, FirstOf(input.locale, FirstOf(r.keys[k], DocumentLocale)), r.keys[k])]

TmxAsks(id, r) ==
  LET wanted == SelectSeq(r.keys, LAMBDA key : input.locale = Absent \/ Canonical(key) = Canonical(input.locale))
  IN [k \in DOMAIN wanted |-> Ask(id, FirstOf(input.locale, wanted[k]), wanted[k])]

PoAsks(r) ==
  LET id == IF r.kind = "context" THEN <<"ctx">> \o r.name ELSE r.name
  IN [k \in DOMAIN r.keys |-> Ask(FormOf(id, r.keys[k]), FirstOf(input.locale, DocumentLocale), r.keys[k])]

Asks(id, r) == CASE input.format \in Sheets -> TargetColumns(id)
                 [] input.format = "xliff" -> XliffAsks(id, r)
                 [] input.format = "tmx" -> TmxAsks(id, r)
                 [] OTHER -> IF IsExtracted(r) THEN PoAsks(r) ELSE <<>>

\* A text that the document has replaces the one in its place; a row grows if it must
Replaced(state, ask) ==
  LET p == Get(state.provider, ask.id)
      text == IF p.hit THEN TargetText(p.last, ask.locale) ELSE Absent
  IN [provider |-> p, texts |-> IF text = Absent THEN state.texts ELSE (ask.key :> text) @@ state.texts]
Texts(i) == [key \in ToSet(input.records[i].keys) |-> Old(i, key)]

-----------------------------------------------------------------------------
NoProvider == [items |-> <<>>, last |-> Absent, hit |-> FALSE, closed |-> FALSE]
Init ==
  /\ input \in Originals
  /\ job = [pc |-> "translate", at |-> 1, units |-> Document(Read), kept |-> <<>>, provider |-> NoProvider, ids |-> NoIds,
            written |-> <<>>, news |-> {}, dropped |-> {}]

\* The caller translates the document, or leaves a unit as it was, or out
Places(u) == (IF u.own = Absent THEN {} ELSE {u.own}) \cup {u.targets[l].place : l \in DOMAIN u.targets}
Translated(u) ==
  [u EXCEPT !.target = IF u.own = Absent THEN @ ELSE New(u.own),
            !.targets = [l \in DOMAIN u.targets |-> [u.targets[l] EXCEPT !.text = New(u.targets[l].place)]]]
Translate ==
  /\ job.pc = "translate" /\ job.at <= Len(job.units)
  /\ LET u == job.units[job.at] IN
     \/ job' = [job EXCEPT !.at = @ + 1, !.kept = Append(@, u)]
     \/ job' = [job EXCEPT !.at = @ + 1, !.kept = Append(@, Translated(u)), !.news = @ \cup Places(u)]
     \/ job' = [job EXCEPT !.at = @ + 1, !.dropped = @ \cup {u.id}]
  /\ UNCHANGED input

Open ==
  /\ job.pc = "translate" /\ job.at > Len(job.units)
  /\ job' = [job EXCEPT !.pc = "rewrite", !.at = 1, !.provider.items = job.kept]
  /\ UNCHANGED input

\* One record: its identifier, then its texts
RewriteRecord ==
  /\ job.pc = "rewrite" /\ job.at <= Len(input.records)
  /\ LET r == input.records[job.at]
         ids == IF input.format = "po" THEN NoIds ELSE Resolve(job.ids, r)
         all == FoldLeft(Replaced, [provider |-> job.provider, texts |-> Texts(job.at)], Asks(ids.id, r))
     IN job' = IF ~IsRewritten(r) THEN [job EXCEPT !.at = @ + 1, !.written = Append(@, Texts(job.at))]
               ELSE [job EXCEPT !.at = @ + 1, !.ids = ids, !.provider = all.provider, !.written = Append(@, all.texts)]
  /\ UNCHANGED input

\* The provider is closed when the file is written, and when the stream fails
Finish ==
  /\ job.pc = "rewrite"
  /\ \/ job.at > Len(input.records) /\ job' = [job EXCEPT !.pc = "done", !.provider.closed = TRUE]
     \/ job.at <= Len(input.records) /\ job' = [job EXCEPT !.pc = "failed", !.provider.closed = TRUE, !.written = <<>>]
  /\ UNCHANGED input

Next == Translate \/ Open \/ RewriteRecord \/ Finish

Spec == Init /\ [][Next]_vars

-----------------------------------------------------------------------------
(* What is known to go wrong *)
Before(i) == {input.records[j] : j \in 1..i - 1}
\* Identifiers that follow a row only one side counts
IsShifted(i) == input.format \in Sheets /\ input.records[i].name = <<>> /\ \E r \in Before(i) \cup {input.records[i]} : r.kind = "blank"
\* and those that follow an ignorable of the same unit
IsRenamed(i) == input.records[i].name = <<>> /\ \E r \in Before(i) : r.kind = "ignorable"
\* A unit with one target gives it to every language of its tu, and to another one asked for
IsSpread(key) == input.imported # Absent /\ Canonical(key) # input.imported /\ (input.format = "tmx" \/ input.locale # Absent)
\* Entries that have no name of their own
IsUnnamed(i) == input.format = "po" /\ (input.records[i].kind = "context" \/ \E r \in Before(i) : r.name = input.records[i].name /\ r.kind # "context")
\* A spelling under which no unit has its text
IsMisspelt(key) ==
  /\ input.format \in Sheets \cup {"tmx"} /\ input.imported = Absent
  /\ FirstOf(input.locale, key) # Canonical(key) /\ Canonical(FirstOf(input.locale, key)) = Canonical(key)
\* Not what was asked for
IsElsewhere(key) == input.locale # Absent /\ input.format # "po" /\ Canonical(input.locale) # Canonical(key)
\* A segment merged into that of another file
IsMerged(i) == input.format = "xliff" /\ ~input.streamed /\ \E r \in Before(i) : r.name = input.records[i].name /\ r.keys # input.records[i].keys
\* A stream is read to its end for a unit it does not have
IsOutOfReach(i) ==
  input.streamed /\ (job.dropped # {} \/ \E j \in 1..i : input.records[j].kind \in {"blank", "context"} \/ IsUnnamed(j) \/ IsRenamed(j))

\* Every record of the regenerated file has the caller's translations of the units read from
\* it, in their own places, and its own texts everywhere else (exporters/regen.py).
RegenFaithful ==
  job.pc = "done" => \A i \in DOMAIN input.records :
    LET r == input.records[i]  texts == job.written[i] IN
    /\ DOMAIN texts = ToSet(r.keys) \/ IsShifted(i)
    /\ \A key \in ToSet(r.keys) :
         IF <<i, key>> \in job.news
           THEN \/ texts[key] = New(<<i, key>>) \/ ~IsRewritten(r) \/ IsElsewhere(key)
                \/ IsOutOfReach(i) \/ IsShifted(i) \/ IsRenamed(i) \/ IsUnnamed(i) \/ IsMisspelt(key) \/ IsMerged(i)
           ELSE texts[key] = Old(i, key) \/ IsShifted(i) \/ IsRenamed(i) \/ IsSpread(key) \/ IsUnnamed(i)
=============================================================================
