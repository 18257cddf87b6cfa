--------------------------- MODULE OfficePackage ----------------------------
(***************************************************************************)
(* The text of an Office package: which parts of it are read, which units  *)
(* they give under which identifiers, and how translations are put back.   *)
(* office/backend.py and the worker in C# do it each for themselves, and   *)
(* reading and writing each walk the XML for themselves: an identifier is  *)
(* a position that both must count alike.  A part is the sequence of its   *)
(* elements in document order, each with its depth, its own text and the   *)
(* alternative text in its attributes; a text is a sequence of words,      *)
(* blanks, tabs and breaks.                                                *)
(***************************************************************************)
EXTENDS Naturals, Sequences, FiniteSets, SequencesExt, TLC

Blanks == {" ", "tab", "br"}
IsBlank(text) == ToSet(text) \subseteq Blanks

InOrder(S, n) == SelectSeq([k \in 1..n |-> k], LAMBDA k : k \in S)
Below(nodes, i) == {j \in i + 1 .. Len(nodes) : \A k \in i + 1 .. j : nodes[k].depth > nodes[i].depth}
Children(nodes, i) == {j \in Below(nodes, i) : nodes[j].depth = nodes[i].depth + 1}
Tagged(nodes, tags) == {i \in DOMAIN nodes : nodes[i].tag \in tags}
Paragraphs(nodes) == InOrder(Tagged(nodes, {"p"}), Len(nodes))

-----------------------------------------------------------------------------
(* Which parts: their names are in the order in which the package holds them *)
OfArea(package, area) == SelectSeq(package.parts, LAMBDA p : p.area = area)
Distinct(parts) == FoldLeft(LAMBDA seen, p : IF p \in ToSet(seen) THEN seen ELSE Append(seen, p), <<>>, parts)

DocxParts(package, options) ==
  FlattenSeq([k \in 1..5 |->
    LET area == <<"body", "header", "comments", "footnotes", "endnotes">>[k] IN
    IF area \in {"header", "comments"} \ options.areas THEN <<>> ELSE OfArea(package, area)])

IsHiddenSlide(part) == part.area = "slides" /\ part.hidden
\* The parts that these refer to, those that the package does not have left out
RelatedParts(package, sources, area) ==
  LET found == [s \in DOMAIN sources |-> SelectSeq(package.parts, LAMBDA p : p.area = area /\ p.name \in ToSet(sources[s].links))]
  IN Distinct(FlattenSeq(found))

OrAll(package, parts, area) == IF parts = <<>> THEN OfArea(package, area) ELSE parts
Shown(package, options) ==
  LET listed == [n \in DOMAIN package.slides |-> SelectSeq(package.parts, LAMBDA p : p.name = package.slides[n])]
      slides == OrAll(package, Distinct(FlattenSeq(listed)), "slides")
  IN SelectSeq(slides, LAMBDA p : options.hidden \/ ~IsHiddenSlide(p))

\* Layouts and masters follow from the slides, and if none do every one is taken
Linked(package, sources, area, options) ==
  LET related == RelatedParts(package, sources, area)
  IN IF options.hidden THEN OrAll(package, related, area) ELSE related
PartsOfSlides(package, options, slides) ==
  LET Whole(area) == IF options.hidden THEN OfArea(package, area) ELSE RelatedParts(package, slides, area)
      notes == Whole("speaker_notes")
      layouts == Linked(package, slides, "slide_layouts", options)
      masters == Linked(package, layouts, "slide_masters", options)
      notesMasters == Linked(package, notes, "notes_masters", options)
      Wanted(area, parts) == IF area \in options.areas \/ options.alt THEN parts ELSE <<>>
      Asked(area, parts) == IF area \in options.areas THEN parts ELSE <<>>
  IN Distinct(Wanted("slides", slides) \o Wanted("speaker_notes", notes) \o Wanted("slide_layouts", layouts) \o
       Wanted("slide_masters", masters) \o Wanted("notes_masters", notesMasters) \o
       Wanted("handout_masters", OfArea(package, "handout_masters")) \o Asked("comments", Whole("comments")) \o
       Asked("charts", Whole("charts")) \o Asked("diagrams", Whole("diagrams")) \o
       Asked("document_metadata", OfArea(package, "document_metadata")))

PartsOf(package, options) ==
  IF package.format = "docx" THEN DocxParts(package, options)
  ELSE PartsOfSlides(package, options, Shown(package, options))

-----------------------------------------------------------------------------
(* What they say.  The worker takes the text of its own namespace, Python that of any: "m:t"
   is the text of an equation *)
IsText(engine, node) == node.tag = "t" \/ (engine = "python" /\ node.tag = "m:t")
Words(engine, node, tabs) ==
  IF IsText(engine, node) THEN node.text
  ELSE IF node.tag = "br" \/ (tabs /\ node.tag = "tab") THEN <<node.tag>> ELSE <<>>

DocxText(engine, nodes, i) ==
  LET within == InOrder(Below(nodes, i), Len(nodes))
  IN FlattenSeq([k \in DOMAIN within |-> Words(engine, nodes[within[k]], TRUE)])

InField(nodes, j) == \E f \in Tagged(nodes, {"fld"}) : j \in Below(nodes, f)
PptxText(engine, nodes, i) ==
  LET within == InOrder({j \in Below(nodes, i) : ~InField(nodes, j)}, Len(nodes))
  IN FlattenSeq([k \in DOMAIN within |-> Words(engine, nodes[within[k]], FALSE)])

UnitId(part, kind, n, detail) == <<part.name, kind, ToString(n), detail>>
Unit(part, kind, n, detail, text) == [id |-> UnitId(part, kind, n, detail), kind |-> kind, text |-> text, part |-> part.name]
Spoken(units) == SelectSeq(units, LAMBDA u : ~IsBlank(u.text))

\* Alternative texts of a DOCX part are numbered on from its paragraphs, and the worker has none
DocxAltText(part, offset) ==
  Spoken([n \in DOMAIN part.nodes |->
    LET node == part.nodes[n] IN Unit(part, "alt", offset + n - 1, "", IF node.descr # <<>> THEN node.descr ELSE node.title)])
ExtractDocxPart(engine, part, options) ==
  LET ps == Paragraphs(part.nodes)
      WithAltText(units) == units \o IF options.alt /\ engine = "python" THEN DocxAltText(part, Len(units)) ELSE <<>>
  IN WithAltText(Spoken([k \in DOMAIN ps |-> Unit(part, "p", k - 1, "", DocxText(engine, part.nodes, ps[k]))]))

ExtractParagraphs(engine, part) ==
  LET ps == Paragraphs(part.nodes)
      units == [k \in DOMAIN ps |-> Unit(part, "p", k - 1, "", PptxText(engine, part.nodes, ps[k]))]
  IN SelectSeq(units, LAMBDA u : u.text # <<>> /\ (part.area = "diagrams" \/ ~IsBlank(u.text)))
\* Comments and properties are numbered among all the elements of the part
ValueTag(part) == IF part.area = "comments" THEN "text" ELSE "property"
ExtractValues(part) ==
  Spoken([n \in DOMAIN part.nodes |->
    LET node == part.nodes[n] IN Unit(part, "value", n - 1, "", IF node.tag = ValueTag(part) THEN node.text ELSE <<>>)])
ExtractAltText(part) ==
  Spoken(FlattenSeq([n \in DOMAIN part.nodes |->
    <<Unit(part, "alt", n - 1, "title", part.nodes[n].title), Unit(part, "alt", n - 1, "descr", part.nodes[n].descr)>>]))
HasValues(part) == part.area \in {"comments", "document_metadata"}
ExtractPptxPart(engine, part, options) ==
  IF ~options.hidden /\ IsHiddenSlide(part) THEN <<>>
  ELSE (IF part.area \notin options.areas THEN <<>>
        ELSE IF HasValues(part) THEN ExtractValues(part) ELSE ExtractParagraphs(engine, part)) \o
       (IF options.alt THEN ExtractAltText(part) ELSE <<>>)

ExtractPart(engine, package, part, options) ==
  IF package.format = "docx" THEN ExtractDocxPart(engine, part, options) ELSE ExtractPptxPart(engine, part, options)

-----------------------------------------------------------------------------
(* How translations, a function of identifiers, come back *)
Element(tag, depth, text) == [tag |-> tag, depth |-> depth, text |-> text, title |-> <<>>, descr |-> <<>>]

\* The first text of the paragraph takes the translation, and the others are emptied
ReplaceDocxParagraph(nodes, i, text) ==
  LET texts == {j \in Below(nodes, i) : nodes[j].tag = "t"}
      last == i + Cardinality(Below(nodes, i))
      depth == nodes[i].depth
  IN IF texts = {} THEN SubSeq(nodes, 1, last) \o <<Element("r", depth + 1, <<>>), Element("t", depth + 2, text)>> \o SubSeq(nodes, last + 1, Len(nodes))
     ELSE [j \in DOMAIN nodes |->
            IF j \notin texts THEN nodes[j]
            ELSE [nodes[j] EXCEPT !.text = IF \A k \in texts : j <= k THEN text ELSE <<>>]]

Lines(text) ==
  FoldLeft(LAMBDA lines, word : IF word = "br" THEN Append(lines, <<>>) ELSE [lines EXCEPT ![Len(lines)] = Append(@, word)], <<<<>>>>, text)
\* The runs and breaks of the paragraph make way for a run per line, in the properties of the first
Runs(nodes, i, content, text) ==
  LET depth == nodes[i].depth + 1
      runs == {j \in content : nodes[j].tag = "r"}
      styled == runs # {} /\ \E j \in Children(nodes, CHOOSE j \in runs : \A k \in runs : j <= k) : nodes[j].tag = "rPr"
      Run(line) == <<Element("r", depth, <<>>)>> \o (IF styled THEN <<Element("rPr", depth + 1, <<>>)>> ELSE <<>>) \o <<Element("t", depth + 1, line)>>
      lines == Lines(text)
  IN FlattenSeq([n \in DOMAIN lines |-> (IF n = 1 THEN <<>> ELSE <<Element("br", depth, <<>>)>>) \o Run(lines[n])])
ReplacePptxParagraph(nodes, i, text) ==
  LET content == {j \in Children(nodes, i) : nodes[j].tag \in {"r", "br"}}
      gone == content \cup UNION {Below(nodes, j) : j \in content}
      ends == {j \in Children(nodes, i) : nodes[j].tag = "endParaRPr"}
      places == IF content # {} THEN content ELSE IF ends # {} THEN ends ELSE {i + Cardinality(Below(nodes, i)) + 1}
      at == CHOOSE j \in places : \A k \in places : j <= k
      rest == InOrder(at .. Len(nodes) \ gone, Len(nodes))
  IN SubSeq(nodes, 1, at - 1) \o Runs(nodes, i, content, text) \o [k \in DOMAIN rest |-> nodes[rest[k]]]

\* A unit without a translation is missing if its place says something
Missing(id, text, preserve) == IF text = <<>> \/ (~preserve /\ IsBlank(text)) THEN {} ELSE {id}
Untouched(nodes) == [nodes |-> nodes, consumed |-> {}, missing |-> {}]

\* The paragraphs are counted in the tree as it is rewritten
RewriteParagraph(engine, format, area, done, id, i, translations) ==
  IF id \in DOMAIN translations
  THEN [done EXCEPT !.consumed = @ \cup {id},
                    !.nodes = IF format = "docx" THEN ReplaceDocxParagraph(@, i, translations[id]) ELSE ReplacePptxParagraph(@, i, translations[id])]
  ELSE LET text == IF format = "docx" THEN DocxText(engine, done.nodes, i) ELSE PptxText(engine, done.nodes, i)
       IN [done EXCEPT !.missing = @ \cup Missing(id, text, area = "diagrams")]
RewriteParagraphs(engine, format, part, translations) ==
  FoldLeftDomain(LAMBDA done, k : RewriteParagraph(engine, format, part.area, done, UnitId(part, "p", k - 1, ""), Paragraphs(done.nodes)[k], translations),
    Untouched(part.nodes), Paragraphs(part.nodes))

RewriteValues(part, translations) ==
  LET at == Tagged(part.nodes, {ValueTag(part)})
      Id(n) == UnitId(part, "value", n - 1, "")
      told == {n \in at : Id(n) \in DOMAIN translations}
  IN [nodes |-> [n \in DOMAIN part.nodes |-> IF n \in told THEN [part.nodes[n] EXCEPT !.text = translations[Id(n)]] ELSE part.nodes[n]],
      consumed |-> {Id(n) : n \in told}, missing |-> UNION {Missing(Id(n), part.nodes[n].text, FALSE) : n \in at \ told}]

\* Alternative texts come after the paragraphs of their part, and are looked up by where they are then
RewriteAltText(part, done, translations) ==
  LET Id(n, attribute) == UnitId(part, "alt", n - 1, attribute)
      Told(n, attribute) == Id(n, attribute) \in DOMAIN translations /\ ~IsBlank(done.nodes[n][attribute])
      New(n, attribute) == IF Told(n, attribute) THEN translations[Id(n, attribute)] ELSE done.nodes[n][attribute]
      places == (DOMAIN done.nodes) \X {"title", "descr"}
  IN [nodes |-> [n \in DOMAIN done.nodes |-> [done.nodes[n] EXCEPT !.title = New(n, "title"), !.descr = New(n, "descr")]],
      consumed |-> done.consumed \cup {Id(p[1], p[2]) : p \in {q \in places : Told(q[1], q[2])}},
      missing |-> done.missing \cup UNION {Missing(Id(p[1], p[2]), done.nodes[p[1]][p[2]], FALSE) : p \in {q \in places : ~Told(q[1], q[2])}}]

RewritePptxPart(engine, part, translations, options) ==
  IF ~options.hidden /\ IsHiddenSlide(part) THEN Untouched(part.nodes)
  ELSE LET WithAltText(done) == IF options.alt THEN RewriteAltText(part, done, translations) ELSE done
       IN WithAltText(IF part.area \notin options.areas THEN Untouched(part.nodes)
                      ELSE IF HasValues(part) THEN RewriteValues(part, translations)
                      ELSE RewriteParagraphs(engine, "pptx", part, translations))

\* A part none of whose units is translated is copied as it is
RewritePart(engine, package, part, translations, options) ==
  LET OrCopied(done) == IF done.consumed = {} THEN [done EXCEPT !.nodes = part.nodes] ELSE done
  IN IF part \notin ToSet(PartsOf(package, options)) THEN Untouched(part.nodes)
     ELSE OrCopied(IF package.format = "docx" THEN RewriteParagraphs(engine, "docx", part, translations)
                   ELSE RewritePptxPart(engine, part, translations, options))
=============================================================================
