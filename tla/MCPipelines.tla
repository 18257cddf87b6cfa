----------------------------- MODULE MCPipelines -----------------------------
(***************************************************************************)
(* What one caller does at a time, on small instances: the parts of Calls, *)
(* JSON files, tables, originals that are regenerated, and Office files.   *)
(***************************************************************************)
EXTENDS Calls

-----------------------------------------------------------------------------
\* Six rows are matched: three with the text asked for, one of them in the context, two similar
\* ones, one of them as similar as can be, and one below the threshold; pages of two rows.
Similarities == [id \in Candidates |-> CASE id \in 1..4 -> 4 [] id = 5 -> 3 [] OTHER -> 1]

Plurals == {Absent, [variant |-> "", count |-> Absent, extensions |-> <<>>],
            [variant |-> "v", count |-> 1, extensions |-> [p |-> "1"]]}
Contexts == {Absent, [unit_id |-> Absent, source |-> ""], [unit_id |-> "u", source |-> Absent], [unit_id |-> Absent, source |-> "s"]}
TagSets == {Absent, [a |-> [pair |-> "", original |-> ""], b |-> [pair |-> "p", original |-> Absent]],
            [a |-> [pair |-> "q", original |-> "x"]], [a |-> [pair |-> "", original |-> Absent]]}
Metas == {<<Absent, Absent>>, <<0, "c">>, <<3, Absent>>}
Rests == {<<<<[timestamp |-> "", project |-> "P"]>>, [note |-> "n"]>>, <<<<>>, [project |-> "Q"]>>}
UnitsToLoad ==
  {[usage |-> m[1], created |-> m[2], plural |-> p, previous |-> c, tags |-> t, comments |-> r[1], extensions |-> r[2]] :
      m \in Metas, p \in Plurals, c \in Contexts, t \in TagSets, r \in Rests}

\* Keys "k", "k#2" and "k#2#2"
KeysOfRows == {<<0>>, <<0, 2>>, <<0, 2, 2>>}

-----------------------------------------------------------------------------
\* One segment in three files of an XLIFF document and a unit of its own, a document of
\* one locale, one with the locale in the header, and a table with two columns; the header of
\* a .lokit file names none, one or both of the locales its units have
Piece(id, name, target, targets) == [id |-> id, name |-> name, source |-> "s", target |-> target, targets |-> targets]
Segments == <<Piece(1, "a", Absent, [de |-> "x"]), Piece(2, "a", Absent, [fr |-> "y"]),
              Piece(3, "a", Absent, [de |-> "z"]), Piece(4, Absent, Absent, <<>>)>>
OneLocale == <<Piece(1, "a", Absent, [de |-> "x"]), Piece(2, "a", Absent, <<>>), Piece(3, "b", Absent, [de |-> "z"])>>
Bilingual == <<Piece(1, Absent, "x", <<>>), Piece(2, Absent, Absent, <<>>), Piece(3, Absent, "z", <<>>)>>
Columns == <<Piece(1, Absent, Absent, [de |-> "x", fr |-> Absent]), Piece(2, Absent, Absent, [de |-> "y", fr |-> "z"])>>
Catalogue == <<Piece(1, Absent, Absent, <<>>), Piece(2, Absent, Absent, <<>>)>>
Catalogues == [de |-> <<Piece(1, Absent, "x", <<>>), Piece(3, Absent, "y", <<>>)>>, fr |-> <<Piece(3, Absent, "w", <<>>)>>]
File(reader, units, declared, failAt) ==
  [reader |-> reader, units |-> units, declared |-> declared, failAt |-> failAt, more |-> <<>>]
ImportedFiles ==
  {File("tmx", Segments, {}, f) : f \in {0, 1, 3}} \cup
  {File("xliff", u, {}, f) : u \in {Segments, OneLocale}, f \in {0, 1, 4}} \cup
  {File(r, Bilingual, {"de"}, f) : r \in {"html", "json_i18n", "idml", "csv", "po"}, f \in {0, 1, 3}} \cup
  {File(r, Columns, {"de", "fr"}, f) : r \in {"csv", "xlsx"}, f \in {0, 2}} \cup
  {File(r, Segments, d, f) : r \in {"lokit", "lokit_json"}, d \in {{}, {"de"}, {"de", "fr"}}, f \in {0, 3}} \cup
  {File("html", <<>>, {}, 0), File("csv", <<>>, {"de", "fr"}, 0), [File("po", Catalogue, {}, 0) EXCEPT !.more = Catalogues]}

\* Units with a translation in one locale, in another, in both, in none, and one without
\* a locale; one locale may be written directly, two split at all, and a header may name three
Text(text, status, usage, tags) == [text |-> text, status |-> status, usage |-> usage, tags |-> tags]
Row(id, target, targets) == [id |-> id, target |-> target, status |-> "draft", usage |-> 1, tags |-> "unit", targets |-> targets]
OwnText == Row(1, "t", <<>>)
OneText == Row(2, Absent, [de |-> Text("x", "unknown", Absent, "de")])
TwoTexts == Row(3, Absent, [de |-> Text(Absent, "final", 2, Absent), fr |-> Text("y", "final", Absent, "fr")])
BothTexts == Row(4, "t", [fr |-> Text("z", "unknown", 3, Absent)])
StreamsToSplit == {s \in
  [units : {<<OwnText, OneText, TwoTexts>>, <<OwnText, BothTexts>>, <<OwnText>>, <<>>,
            <<OneText, Row(5, Absent, [nl |-> Text("n", "final", 1, "nl")]), TwoTexts>>},
   locale : {Absent, "de", "nl"}, locales : {{}, {"de"}, {"de", "fr"}}, requested : {{}, {"de"}, {"de", "fr"}, {"de", "fr", "nl"}},
   missing : BOOLEAN, failAt : {0, 1, 2}] : s.failAt <= Len(s.units) + 1 /\ (s.locale = "nl" => s.units = <<>>)}

\* Documents in memory, XML read as it is exported (the header of the first file knows no
\* locale, or one), Office files, and tables whose locales are known
Doc(kind, from, units, opened) == [kind : {kind}, from : {from}, units : units, opened : opened, complex : BOOLEAN, failAt : {0}]
Failing(docs) == docs \cup {[d EXCEPT !.failAt = Len(d.units)] : d \in {e \in docs : e.units # <<>>}}
Nl == Row(5, Absent, [nl |-> Text("n", "final", 1, "nl")])
DocumentsToExport ==
  Doc("document", "xliff", {<<OneText, TwoTexts>>, <<OwnText, TwoTexts, BothTexts>>}, {{"de", "fr"}}) \cup
  Doc("document", "tmx", {<<OwnText, Row(2, "x", <<>>)>>, <<OneText>>}, {{"de"}}) \cup
  Doc("document", "html", {<<OwnText>>, <<>>}, {{}}) \cup
  Failing(Doc("interchange", "tmx", {<<OneText, TwoTexts, Nl>>, <<OneText, Nl>>, <<OneText, Row(6, Absent, <<>>)>>, <<>>}, {{}}) \cup
    Doc("interchange", "tmx", {<<OneText>>}, {{"de"}}) \cup
    Doc("interchange", "xliff", {<<OneText, TwoTexts, Nl>>, <<OneText>>}, {{}, {"de"}}) \cup Doc("interchange", "xliff", {<<OwnText>>}, {{}}) \cup
    Doc("office", "docx", {<<OwnText, Row(6, Absent, <<>>)>>}, {{}, {"de"}}) \cup
    Doc("iterator", "csv", {<<OneText, TwoTexts, BothTexts>>}, {{"de", "fr"}}) \cup
    Doc("iterator", "html", {<<OwnText>>}, {{"de"}}))

Steps == {<<"a">>, <<"a", "b">>, <<"a", "b", "c">>, <<"a", "d">>, <<"b", "c">>}
Json == INSTANCE JsonTree WITH Paths <- UNION {[1..n -> Steps] : n \in 0..4}

\* Up to four units: small, large, worth a thread, or one that cannot be projected; a batch of
\* two, one or three of them pending, one thread, two, or as many as it seems worth
Tu(bytes, work, bad) == [bytes |-> bytes, work |-> work, bad |-> bad]
Small == Tu(1, 0, FALSE)
Large == Tu(3, 2, FALSE)
Poison == Tu(1, 2, TRUE)
TmxFiles == {i \in
  [units : {<<>>, <<Small, Large, Small, Small>>, <<Large, Large, Large>>, <<Small, Small, Poison, Small>>, <<Large, Small, Small, Small, Large>>},
   failAt : {0, 1, 4, 5}, workers : 0..2, maxPending : 1..3, batchUnits : {2}, batchBytes : {3}] : i.failAt <= Len(i.units) + 1}

\* A document without translations, with one locale in the header, and with two; written
\* under role names or locales, or names of the caller's; read by headers, by names, or by
\* position, with or without the locales
Auto == [mode |-> "auto"]
Titled(name) == [mode |-> "name", name |-> name]
At(index) == [mode |-> "index", index |-> index]
Line(id, target, targets) == [id |-> id, source |-> "s", target |-> target, status |-> "final", comment |-> "c",
  targets |-> [l \in DOMAIN targets |-> Text(targets[l], "final", Absent, Absent)]]
Sheet(source, target, locales, units) == [source |-> source, target |-> target, locales |-> locales, units |-> units]
Sheets == {Sheet(source, Absent, <<>>, <<Line("u", Absent, <<>>)>>) : source \in {"", "en-US"}} \cup
  {Sheet("en-US", l, <<>>, <<Line("u", "t", <<>>), Line("v", Absent, l :> "w")>>) : l \in {"de-AT", "de_AT", "en-GB", "id"}} \cup
  {Sheet("en-US", Absent, ls, <<Line("u", Absent, [l \in {ls[1], ls[2]} |-> l]), Line("v", Absent, ls[1] :> "x")>>) :
     ls \in {<<"de-AT", "fr">>, <<"de-AT", "de-CH">>}}
Fields == {"id", "target", "status", "comment"}
Writes == {[style |-> st, header |-> h, sourceName |-> "", targetName |-> "", include |-> i, order |-> <<>>,
            prefixed |-> [l \in {"de-AT", "fr", "de-CH"} |-> "target_" \o l]] :
             st \in {"generic", "locale"}, h \in BOOLEAN, i \in {Fields, Fields \ {"id"}, Fields \ {"target"}}}
Reads == {[header |-> "auto", source |-> Auto, targets |-> <<>>, id |-> Auto, status |-> Auto, comment |-> Auto, preserve |-> TRUE,
           strict |-> TRUE, asData |-> FALSE, sourceLocale |-> sl, targetLocale |-> tl, split |-> split] :
             sl \in {"", "en-US"}, tl \in {Absent, "de-AT", "de_AT", "en-GB", "id"}, split \in BOOLEAN}
Places == {[header |-> h, source |-> At(2), targets |-> "de-AT" :> At(3) @@ second :> At(4), id |-> At(1), status |-> At(5),
            comment |-> [mode |-> "absent"], preserve |-> FALSE, strict |-> FALSE, asData |-> FALSE, sourceLocale |-> "",
            targetLocale |-> Absent, split |-> FALSE] : h \in {"present", "absent"}, second \in {"fr", "de-CH"}}
Table == INSTANCE Tabular WITH
  Tables <- [doc : Sheets, write : Writes, read : Reads] \cup {t \in [doc : Sheets, write : Writes, read : Places] :
    Len(t.doc.locales) = 2 /\ t.write.include = Fields /\ t.write.header = (t.read.header = "present")},
  Language <- "en-US" :> "en-US" @@ "de-AT" :> "de-AT" @@ "de_AT" :> "de-AT" @@ "en-GB" :> "en-GB" @@ "fr" :> "fr" @@ "de-CH" :> "de-CH" @@ "id" :> "id",
  Base <- "en-US" :> "en" @@ "de-AT" :> "de" @@ "en-GB" :> "en" @@ "fr" :> "fr" @@ "de-CH" :> "de" @@ "id" :> "id"

\* Tables with and without identifiers and with a row that is empty, or left out; segments of
\* XLIFF 1 and 2 in files of one and two languages; TMX with a tuid twice, without one, and
\* with a spelling of its own; entries of PO with a context, with forms, obsolete, twice
Record(kind, name, parent, resource, keys) ==
  [kind |-> kind, name |-> name, parent |-> parent, resource |-> resource, keys |-> keys]
TableRow(name, keys) == Record("row", name, <<>>, 0, keys)
BlankRow == Record("blank", <<>>, <<>>, 0, <<>>)
Segment(kind, name, resource, key) == Record(kind, name, <<"u">>, resource, <<key>>)
Entry(kind, name, forms) == Record(kind, <<name>>, <<>>, 0, forms)
Rewritten(formats, records, imported, locales, v2) ==
  [format : formats, records : records, imported : imported, locale : locales, streamed : BOOLEAN, v2 : v2]
Regen == INSTANCE Regen WITH Originals <-
  Rewritten({"csv", "xlsx"}, {<<TableRow(<<"a">>, ls), BlankRow, TableRow(<<>>, ls), TableRow(<<"a">>, ls)>> : ls \in {<<"de-AT", "fr">>}} \cup
    {<<TableRow(<<>>, ls), TableRow(<<"row", "0">>, ls), TableRow(<<"a">>, ls)>> : ls \in {<<"de-AT">>, <<"de-AT", "fr">>, <<"">>}},
    {Absent, "de-AT"}, {Absent, "de-AT", "de_AT", "fr"}, {FALSE}) \cup
  Rewritten({"tmx"}, {<<TableRow(<<>>, <<"de-AT", "fr">>), TableRow(<<"auto", "0">>, <<"fr">>), TableRow(<<"a">>, <<"fr", "de_AT">>), TableRow(<<"a">>, <<"de-AT">>)>>},
    {Absent, "de-AT"}, {Absent, "de-AT", "fr"}, {FALSE}) \cup
  Rewritten({"xliff"}, {<<Segment("segment", <<"a">>, 0, "de-AT"), Segment("segment", <<"a">>, 1, l), Segment(k, <<>>, 1, l), Segment("segment", <<>>, 1, l)>> :
     k \in {"segment", "ignorable"}, l \in {"de-AT", "fr"}}, {Absent}, {Absent, "de-AT"}, BOOLEAN) \cup
  Rewritten({"po"}, {<<Entry("header", "", <<"0">>), Entry("entry", "m", <<"0">>), Entry(k, "m", <<"0">>), Entry("entry", "p", <<"0", "1">>), Entry("entry", "q", <<"0">>)>> :
     k \in {"entry", "context", "obsolete"}}, {Absent}, {Absent}, {FALSE}),
  Language <- "de-AT" :> "de-AT" @@ "de_AT" :> "de-AT" @@ "fr" :> "fr",
  Base <- "de-AT" :> "de" @@ "fr" :> "fr"

\* A JSON file with roots in several spellings, one twice, one that is not an object, or one
\* locale only; the same path in two units, and one that no unit has
Leaf(path, text) == [path |-> path, text |-> text]
Member(name, object, text) ==
  [name |-> name, object |-> object, leaves |-> IF object THEN <<Leaf(<<"a">>, text), Leaf(<<"b", "c">>, text), Leaf(<<"a">>, text \o "'")>> ELSE <<>>]
EnRoot == Member("en", TRUE, "s")
JsonUnit(path, target, targets) ==
  [path |-> path, target |-> target, status |-> "draft", targets |-> [l \in DOMAIN targets |-> [text |-> targets[l]]]]
Anew == INSTANCE JsonRegen WITH
  RootKey <- [name \in {"en", "fr", "de-AT", "nl", "x", "de_AT"} |-> IF name = "de_AT" THEN "de-AT" ELSE name],
  Originals <- [members : {<<EnRoot, Member("de-AT", o, "d"), Member("de_AT", ~o, "e")>> : o \in BOOLEAN} \cup
                          {<<EnRoot, Member("de_AT", TRUE, "d"), Member("x", TRUE, "x")>>, <<Member("en", FALSE, ""), EnRoot, Member("fr", FALSE, "")>>,
                           <<EnRoot, Member("de-AT", TRUE, "d"), Member("de_AT", TRUE, "e")>>, <<Member("x", TRUE, "x")>>, <<>>},
                source : {"en"}, locale : {Absent, "de-AT"}, locales : {<<>>, <<"de-AT", "fr">>, <<"nl">>}, requested : {Absent, "fr"},
                units : {<<JsonUnit(<<"a">>, Absent, [fr |-> "f"]), JsonUnit(<<"a">>, Absent, "de-AT" :> "t" @@ "nl" :> "n"),
                           JsonUnit(<<"b", "c">>, u, [fr |-> "g"]), JsonUnit(<<"x", "a">>, "w", <<>>)>> : u \in {Absent, "v"}}]

\* Documents with a paragraph in two runs, an empty one, alternative text, and perhaps an
\* equation or a text box; presentations with slides that are hidden, not listed, or followed
\* by what belongs to them
Xml(tag, depth, text) == [tag |-> tag, depth |-> depth, text |-> text, title |-> <<>>, descr |-> <<>>]
Picture(depth, title, descr) == [tag |-> "cNvPr", depth |-> depth, text |-> <<>>, title |-> title, descr |-> descr]
Said(depth, text) == <<Xml("r", depth, <<>>), Xml("t", depth + 1, text)>>
Styled(depth, text) == <<Xml("r", depth, <<>>), Xml("rPr", depth + 1, <<>>), Xml("t", depth + 1, text)>>
Para(content) == <<Xml("root", 0, <<>>), Xml("p", 1, <<>>)>> \o content
AndPara(content) == <<Xml("p", 1, <<>>)>> \o content
OfficePart(name, area, links, nodes) == [name |-> name, area |-> area, hidden |-> FALSE, links |-> links, nodes |-> nodes]
TwoRuns == Para(Said(2, <<"a">>) \o Said(2, <<"b">>))
Word(extra) == [format |-> "docx", slides |-> <<>>, parts |-> <<
  OfficePart("d", "body", <<>>, TwoRuns \o AndPara(Said(2, <<" ">>)) \o extra \o AndPara(Said(2, <<"keep">>) \o <<Xml("tab", 2, <<>>)>>)),
  OfficePart("f", "footnotes", <<>>, Para(Said(2, <<"n">>))), OfficePart("h", "header", <<>>, Para(Said(2, <<"h">>))),
  OfficePart("s", "styles", <<>>, Para(Said(2, <<"s">>)))>>]
Box == AndPara(Said(2, <<"o">>) \o <<Xml("p", 2, <<>>)>> \o Said(3, <<"i">>))
Slide(first) == first \o <<Picture(1, <<"x">>, <<"y">>)>> \o AndPara(Styled(2, <<"c">>) \o <<Xml("fld", 2, <<>>), Xml("t", 3, <<"7">>), Xml("endParaRPr", 2, <<>>)>>) \o <<Picture(1, <<>>, <<"z">>)>>
Deck(first) == [format |-> "pptx", slides |-> <<"s1", "s2">>, parts |-> <<
  OfficePart("c", "comments", <<>>, <<Xml("root", 0, <<>>), Xml("text", 1, <<"q">>), Xml("text", 1, <<" ">>)>>),
  OfficePart("g", "diagrams", <<>>, Para(Said(2, <<" ">>))), OfficePart("k", "document_metadata", <<>>, <<Xml("root", 0, <<>>), Xml("property", 1, <<"k">>)>>),
  OfficePart("l1", "slide_layouts", <<>>, Para(Said(2, <<"l">>))), OfficePart("l2", "slide_layouts", <<>>, Para(Said(2, <<"u">>))),
  OfficePart("m1", "slide_masters", <<>>, Para(Said(2, <<"m">>))), OfficePart("n1", "speaker_notes", <<>>, Para(Said(2, <<"keep">>))),
  OfficePart("s1", "slides", <<"n1", "l1", "c">>, Slide(first)),
  [OfficePart("s2", "slides", <<>>, Para(Said(2, <<"h">>))) EXCEPT !.hidden = TRUE], OfficePart("s3", "slides", <<>>, Para(Said(2, <<"v">>)))>>]
Areas == {"header", "slides", "speaker_notes", "slide_layouts", "slide_masters", "comments", "diagrams", "document_metadata"}
Wish(areas, alt, hidden) == [areas |-> areas, alt |-> alt, hidden |-> hidden]
Everything == Wish(Areas, TRUE, TRUE)
Say(text) ==
  IF "keep" \in {text[n] : n \in DOMAIN text} THEN Absent
  ELSE IF text = <<"l">> THEN <<"T", "br", "T">> ELSE [n \in DOMAIN text |-> IF text[n] \in {" ", "br", "tab"} THEN text[n] ELSE "T" \o text[n]]
Written(packages, engines, lazy, handles, options, policies, failAt, faulty) ==
  {[package |-> p, engine |-> e, lazy |-> z, source |-> h[1], sink |-> h[2], import |-> o[1], export |-> o[2],
    missing |-> q[1], extras |-> q[2], stray |-> q[3], failAt |-> f, faulty |-> y] :
     p \in packages, e \in engines, z \in lazy, h \in handles, o \in options, q \in policies, f \in failAt, y \in faulty}
Whole == <<Everything, Everything>>
Lean == <<"preserve", "warn", FALSE>>
Engines == {"python", "worker"}
Words == {Word(<<>>), Word(Box), Word(AndPara(<<Xml("m:t", 2, <<"e">>)>>)), Word(<<Picture(1, <<"x">>, <<>>)>>)}
Decks == {Deck(TwoRuns), Deck(Para(Styled(2, <<"a">>))), Deck(Para(Styled(2, <<"a">>) \o <<Xml("br", 2, <<>>)>> \o Said(2, <<"b">>)))}
Office == INSTANCE OfficeExport WITH Translate <- Say, Inputs <-
  Written(Words \cup Decks, Engines, BOOLEAN, {<<"path", "path">>}, {Whole}, {Lean, <<"warn", "warn", TRUE>>}, {0}, {FALSE}) \cup
  Written({Word(<<>>), Deck(Para(Styled(2, <<"a">>)))}, Engines, {FALSE}, {<<"path", "path">>},
    {<<Everything, Wish({"slides"}, FALSE, FALSE)>>, <<Everything, Wish({}, TRUE, TRUE)>>, <<Wish(Areas, TRUE, FALSE), Wish(Areas, TRUE, FALSE)>>,
     <<Wish({"comments"}, FALSE, TRUE), Everything>>}, {<<"warn", "warn", FALSE>>, <<"error", "warn", FALSE>>, <<"preserve", "error", TRUE>>}, {0}, {FALSE}) \cup
  Written({Word(<<>>)}, Engines, BOOLEAN, {<<"handle", "handle">>, <<"handle", "path">>}, {Whole}, {Lean}, {0, 1, 2}, BOOLEAN)
-----------------------------------------------------------------------------
PipelinesInit ==
  \/ CallsInit
  \/ /\ Stream!Init /\ Unit!Init /\ Document!Init /\ NoMatch
     /\ \/ part = "json" /\ Json!Init
        \/ part = "table" /\ Table!Init
        \/ part = "regen" /\ Regen!Init
        \/ part = "anew" /\ Anew!Init
        \/ part = "office" /\ Office!Init

PipelinesNext ==
  \/ CallsNext
  \/ /\ \/ part = "json" /\ Json!Next
        \/ part = "table" /\ Table!Next
        \/ part = "regen" /\ Regen!Next
        \/ part = "anew" /\ Anew!Next
        \/ part = "office" /\ Office!Next
     /\ UNCHANGED <<part, memory, saved>>

PipelinesSpec == PipelinesInit /\ [][PipelinesNext]_callsVars

-----------------------------------------------------------------------------
\* What is written reads back: a table by its layout (tabular.py), a nested JSON file with every
\* unit but those whose place a later one took (json_i18n.py), a file that is regenerated with the
\* caller's translations where the originals were (regen.py), and an Office file, whichever engine
\* reads or writes it, which leaves nothing temporary behind (office/backend.py).
FilesReadBack ==
  /\ part = "table" => Table!LayoutReadsBack
  /\ part = "json" => Json!FileIsLastAssigned
  /\ part = "regen" => Regen!RegenFaithful
  /\ part = "anew" => Anew!JsonRegenFaithful
  /\ part = "office" => Office!OfficeFaithful /\ Office!OfficeRoutesAgree /\ Office!OfficeReleases
=============================================================================
