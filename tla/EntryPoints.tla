---------------------------- MODULE EntryPoints -----------------------------
(***************************************************************************)
(* The public functions that read a file, and the function of importers.py *)
(* each of them calls.  An entry point hands on what its caller gave: the   *)
(* groups of arguments below name what it takes, "markup" being include_   *)
(* tags, the tag syntax and the placeholder options that all of them take. *)
(***************************************************************************)
EXTENDS TLC

To(importer, groups) == [to |-> importer, passes |-> groups \cup {"markup"}]
Languages == {"languages", "domain", "mode"}
Tables == {"locales", "columns"}
Office == {"locales", "options"}

-----------------------------------------------------------------------------
\* lokit.parse: documents
ParseText ==
  "parse.file" :> To("import_file", {}) @@
  "parse.lokit" :> To("import_lokit", {"progress"}) @@
  "parse.lokit_json" :> To("import_lokit_json", {"progress"})
ParseTmx ==
  "parse.tmx" :> To("import_tmx", Languages \cup {"progress"}) @@
  "parse.tmx_parallel" :> To("import_tmx_parallel", Languages \cup {"options", "progress"}) @@
  "parse.xliff" :> To("import_xliff", {"progress"})
ParseCsv ==
  "parse.csv" :> To("import_csv", Tables \cup {"progress"}) @@
  "parse.csv_targets" :> To("import_csv_targets", Tables \cup {"progress"})
ParseXlsx ==
  "parse.xlsx" :> To("import_xlsx", Tables \cup {"sheet", "progress"}) @@
  "parse.xlsx_targets" :> To("import_xlsx_targets", Tables \cup {"sheet", "progress"})
ParseMarkup ==
  "parse.html" :> To("import_html", {"locales", "progress"}) @@
  "parse.po" :> To("import_po", {"locales", "mode", "progress"}) @@
  "parse.po_targets" :> To("import_po_targets", {"locales", "files", "progress"}) @@
  "parse.json_i18n" :> To("import_json_i18n", {"locales", "files", "progress"})
ParsePackages ==
  "parse.idml" :> To("import_idml", {"locales", "progress"}) @@
  "parse.docx" :> To("import_docx", Office \cup {"progress"}) @@
  "parse.pptx" :> To("import_pptx", Office \cup {"progress"})

\* lokit.stream: structures whose units are read as they are asked for
StreamText ==
  "stream.lokit" :> To("stream_lokit", {}) @@
  "stream.lokit_json" :> To("stream_lokit_json", {}) @@
  "stream.file" :> To("stream_file", {})
StreamXml ==
  "stream.tmx" :> To("stream_tmx", Languages) @@
  "stream.tmx_parallel" :> To("stream_tmx_parallel", Languages \cup {"options"}) @@
  "stream.xliff" :> To("stream_xliff", {})
StreamTables ==
  "stream.csv" :> To("stream_csv", Tables) @@
  "stream.xlsx" :> To("stream_xlsx", Tables \cup {"sheet"})
StreamMarkup ==
  "stream.html" :> To("stream_html", {"locales"}) @@
  "stream.json_i18n" :> To("stream_json_i18n", {"locales", "files"}) @@
  "stream.idml" :> To("stream_idml", {"locales"}) @@
  "stream.po" :> To("stream_po", {"locales", "mode"})
StreamOffice ==
  "stream.docx" :> To("stream_docx", Office \cup {"progress"}) @@
  "stream.pptx" :> To("stream_pptx", Office \cup {"progress"})

\* lokit.parse.async_ and lokit.stream.async_: units over an asynchronous bridge
ParseAsyncText ==
  "parse.async_.document" :> To("import_file", {}) @@
  "parse.async_.file" :> To("import_file_async", {}) @@
  "parse.async_.lokit" :> To("import_lokit_async", {}) @@
  "parse.async_.lokit_json" :> To("import_lokit_json_async", {})
ParseAsyncTables ==
  "parse.async_.tmx" :> To("import_tmx_async", Languages) @@
  "parse.async_.xliff" :> To("import_xliff_async", {}) @@
  "parse.async_.csv" :> To("import_csv_async", Tables)
ParseAsyncMarkup ==
  "parse.async_.xlsx" :> To("import_xlsx_async", Tables \cup {"sheet"}) @@
  "parse.async_.html" :> To("import_html_async", {"locales"}) @@
  "parse.async_.po" :> To("import_po_async", {"locales", "mode"}) @@
  "parse.async_.json_i18n" :> To("import_json_i18n_async", {"locales", "files"})
ParseAsyncPackages ==
  "parse.async_.idml" :> To("import_idml_async", {"locales"}) @@
  "parse.async_.docx" :> To("import_docx_async", Office) @@
  "parse.async_.pptx" :> To("import_pptx_async", Office)
StreamAsyncText ==
  "stream.async_.lokit" :> To("import_lokit_async", {}) @@
  "stream.async_.lokit_json" :> To("import_lokit_json_async", {}) @@
  "stream.async_.file" :> To("import_file_async", {}) @@
  "stream.async_.tmx" :> To("import_tmx_async", Languages) @@
  "stream.async_.tmx_batches" :> To("import_tmx_batches_async", Languages \cup {"batch"})
StreamAsyncTables ==
  "stream.async_.xliff" :> To("import_xliff_async", {}) @@
  "stream.async_.csv" :> To("import_csv_async", Tables) @@
  "stream.async_.xlsx" :> To("import_xlsx_async", Tables \cup {"sheet"})
StreamAsyncMarkup ==
  "stream.async_.html" :> To("import_html_async", {"locales"}) @@
  "stream.async_.json_i18n" :> To("import_json_i18n_async", {"locales", "files"}) @@
  "stream.async_.idml" :> To("import_idml_async", {"locales"}) @@
  "stream.async_.po" :> To("import_po_async", {"locales", "mode"})
StreamAsyncOffice ==
  "stream.async_.docx" :> To("import_docx_async", Office) @@
  "stream.async_.pptx" :> To("import_pptx_async", Office)

\* lokit.quick_parse: one file to another, with no markup options
Converts(importer, groups) == [to |-> importer, passes |-> groups]
QuickParse ==
  "quick_parse.tmx_to_csv" :> Converts("convert_tmx_to_csv", {"languages"}) @@
  "quick_parse.tmx_to_tmx" :> Converts("convert_tmx_to_tmx", {"languages"}) @@
  "quick_parse.tmx_to_xliff" :> Converts("convert_tmx_to_xliff", {"languages"}) @@
  "quick_parse.csv_to_xliff" :> Converts("convert_csv_to_xliff", {"locales", "progress"}) @@
  "quick_parse.xlsx_to_xliff" :> Converts("convert_xlsx_to_xliff", {"locales", "progress"})
QuickParseAsync ==
  "quick_parse.async_.tmx_to_csv" :> Converts("convert_tmx_to_csv", {"languages"}) @@
  "quick_parse.async_.tmx_to_tmx" :> Converts("convert_tmx_to_tmx", {"languages"}) @@
  "quick_parse.async_.tmx_to_xliff" :> Converts("convert_tmx_to_xliff", {"languages"}) @@
  "quick_parse.async_.csv_to_xliff" :> Converts("convert_csv_to_xliff", {"locales", "progress"}) @@
  "quick_parse.async_.xlsx_to_xliff" :> Converts("convert_xlsx_to_xliff", {"locales", "progress"})

Readers ==
  ParseText @@ ParseTmx @@ ParseCsv @@ ParseXlsx @@ ParseMarkup @@ ParsePackages @@
  StreamText @@ StreamXml @@ StreamTables @@ StreamMarkup @@ StreamOffice @@
  ParseAsyncText @@ ParseAsyncTables @@ ParseAsyncMarkup @@ ParseAsyncPackages @@
  StreamAsyncText @@ StreamAsyncTables @@ StreamAsyncMarkup @@ StreamAsyncOffice @@ QuickParse @@ QuickParseAsync
=============================================================================
