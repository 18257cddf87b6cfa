---------------------------- MODULE WritePoints -----------------------------
(***************************************************************************)
(* The facades of export and regeneration: every function and method that  *)
(* a caller may use, with the exporter it calls and the groups of options  *)
(* that it passes on.  All are single calls that add nothing.              *)
(***************************************************************************)
EXTENDS Sequences, TLC

To(exporter, groups) == [to |-> exporter, passes |-> groups \cup {"resolve"}]
Named(prefix, formats, suffix, exporters, Groups(_)) ==
  [n \in {prefix \o "." \o f \o suffix : f \in formats} |->
     LET f == CHOOSE g \in formats : n = prefix \o "." \o g \o suffix
     IN To(exporters \o (IF f = "json" THEN "json_i18n" ELSE f), Groups(f))]

\* What the exporters are asked for: the columns of a table, the file to write into, the
\* locale and options of an Office document, the shape of a JSON file, the grouping of XLIFF
Exports(f) ==
  CASE f \in {"csv", "xlsx"} -> {"columns"}
    [] f \in {"html", "idml"} -> {"source"}
    [] f \in {"docx", "pptx"} -> {"source", "locale", "options"}
    [] f \in {"json", "json_i18n"} -> {"nested"}
    [] f \in {"xliff", "xliff_targets"} -> {"group"}
    [] OTHER -> {}
Tables == {"csv", "xlsx"}
Markup == {"html", "idml", "docx"}
Catalogues == {"json", "json_i18n", "lokit", "po"}
Packages == {"pptx", "tmx", "xliff"}

Writes(prefix, formats) == Named(prefix, formats, "", "export_", Exports)
WritesAsync(prefix, formats) ==
  LET plain == Writes(prefix, formats) IN [n \in DOMAIN plain |-> [plain[n] EXCEPT !.to = @ \o "_async"]]

\* lokit.exporters: write, async_ and from_json
ExportersWrite == Writes("exporters.write", {"csv"} \cup Markup \cup Catalogues)
ExportersWritePackages == Writes("exporters.write", Packages \cup {"xliff_targets", "xlsx"})
ExportersAsync == WritesAsync("exporters.async_", {"csv"} \cup Markup \cup Catalogues)
ExportersAsyncPackages == WritesAsync("exporters.async_", Packages \cup {"xliff_targets", "xlsx"})
FromJson ==
  "exporters.from_json.tmx" :> To("export_tmx_from_json", {}) @@
  "exporters.from_json.xliff" :> To("export_xliff_from_json", {}) @@
  "exporters.from_json.xliff_async" :> To("export_xliff_from_json_async", {})

\* lokit.parse.write and its async_
ParseWrite == Writes("parse.write", Tables \cup {"tmx", "xliff", "html"})
ParseWriteCatalogues == Writes("parse.write", Catalogues \cup {"idml", "docx", "pptx"})
ParseWriteAsync == WritesAsync("parse.write.async_", Tables \cup {"tmx", "xliff", "html"})
ParseWriteAsyncCatalogues == WritesAsync("parse.write.async_", Catalogues \cup {"idml", "docx", "pptx"})

\* document.export.csv(...) calls lokit.exporters.write.csv(document, ...)
Proxied(name, table, prefix, formats) ==
  [n \in {name \o "." \o f : f \in formats} |->
     LET f == CHOOSE g \in formats : n = name \o "." \o g IN table[prefix \o "." \o f]]
ExportProxy == Proxied("document.export", ExportersWrite, "exporters.write", {"csv"} \cup Markup \cup Catalogues)
ExportProxyPackages == Proxied("document.export", ExportersWritePackages, "exporters.write", Packages \cup {"xlsx"})

\* lokit.parse.write.regen, and document.regen over it
Regens(f) ==
  CASE f \in Tables -> {"locale", "layout"}
    [] f \in {"json", "json_i18n"} -> {"locale", "indent"}
    [] f \in {"xliff", "tmx", "po", "docx"} -> {"locale"}
    [] f = "pptx" -> {"locale", "options"}
    [] OTHER -> {}
Regenerates(formats) ==
  LET prefix == "parse.write.regen"
      later == Named(prefix, formats, "_async", "regen_", Regens)
  IN Named(prefix, formats, "", "regen_", Regens) @@ [n \in DOMAIN later |-> [later[n] EXCEPT !.to = @ \o "_async"]]
RegenTables == Regenerates(Tables)
RegenXml == Regenerates({"xliff", "tmx", "po"})
RegenJson == Regenerates({"json", "json_i18n"})
RegenMarkup == Regenerates({"html", "idml", "docx", "pptx"})
RegenProxyTables == Proxied("document.regen", RegenTables @@ RegenXml, "parse.write.regen", Tables \cup {"xliff", "tmx", "po"})
RegenProxyMarkup ==
  Proxied("document.regen", RegenJson @@ RegenMarkup, "parse.write.regen", {"json", "json_i18n", "html", "idml", "docx", "pptx"})

Writers ==
  ExportersWrite @@ ExportersWritePackages @@ ExportersAsync @@ ExportersAsyncPackages @@ FromJson @@ ParseWrite @@
  ParseWriteCatalogues @@ ParseWriteAsync @@ ParseWriteAsyncCatalogues @@ ExportProxy @@ ExportProxyPackages
Regenerators == RegenTables @@ RegenXml @@ RegenJson @@ RegenMarkup @@ RegenProxyTables @@ RegenProxyMarkup
=============================================================================
