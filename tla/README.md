# A TLA+ specification of lokit

lokit is a localization library: it reads documents of many formats into one
structure (`BaseStructure`, or `StreamingStructure` for streams), and writes that
structure back as any of them. Two kinds of code are hard to test in it. One has
several actors: threads under an asyncio loop, a worker process shared by all
threads, files that must never be seen half written, a database that several
loaders share. The other has one actor and several implementations of one thing:
each format is read in Rust, in C# or in Python, at once or as a stream, directly or
through a file, and what is written must agree with what was read whichever way it
took. This project models both kinds, checks them with TLC, and proves what matters
most about the first with TLAPS.

Paths below are relative to the repository; `io/atomic.py` and the like are under
`src/lokit/`.

## 1. Inventory

| Component | State it keeps | Operations | Correct when |
|---|---|---|---|
| Atomic output, cancellable export (`io/atomic.py`) | an asyncio task, the cancellation event, the exporter thread, the temporary file | `run_cancellable_export`, `_quiesce_cancelled_worker`, `_AtomicOutput.__enter__/__exit__`, `_fsync_directory` | the target is complete at every instant, an export that returned is durable, a cancelled one is quiet |
| Office worker session (`office/process.py`) | `_WORKER_LOCK`, `_PERSISTENT_WORKER`, a process with three pipes, an I/O thread, deadlines | `_worker_request`, `_start_worker`, `extract_with_worker_iter`, `_reinsert_with_worker_items`, `_discard_worker`, `_shutdown_worker`, `_reset_worker_after_fork` | no request meets another's frames, aborted work is stopped, nobody waits for ever, no worker is leaked |
| Office command loop (`src/office/Lokit.Office.Worker/Program.cs`) | one command at a time | hello, extract, reinsert | follows the protocol, ends at the end of its input |
| Async bridge (`parsers/async_bridge.py`) | queue, producer task and thread, current batch, pending error, close task | `__anext__`, `aclose`, `_start`, `_put`, `_close` | items in order and once, bounded prefetch, no stuck thread, errors reported |
| Multi-target Office export (`office/backend.py`) | staging directory, backups, list of committed files | `_write_target_outputs`, `_commit_target_outputs`, `_write_output` | all locales or none, no old file lost |
| Office extraction, export and spools (`office/backend.py`, `office/native.py`, `OfficeReinserter.cs`, `OfficeExtractor.cs`) | the package, temporary sources and outputs, the sqlite spool of translations, a lookahead of one unit | `extract_*`, `_iter_*`, `export_*`, `_replace_*`, `_materialize_source`, `_TranslationSpool` | reading and writing count elements alike, both engines agree, every temporary goes |
| Unit identifier registry (`native/lokit-format/src/id_registry.rs`, `native/interchange/src/identity.rs`) | a bounded map, then a hash table and a file of keys on disk | `insert`, `get_or_insert`, `next_suffix`, `get`, `spill_to_disk`, `grow`, `resolve_id`, `resolve_tmx`, `resolve_xliff` | acts as one exact map, whatever spills; refuses everything after an I/O error; no two units get one identifier |
| Translation memory, loading (`db/operations.py`, `db/queries.py`, `db/schema.py`) | tables in PostgreSQL, staging tables of a transaction | `setup`, `load`, `_flush_batch`, `reindex_placeholders` | the result does not depend on batch borders or on other loads; reindexing resumes |
| Translation memory, reading (`db/operations.py`, `db/serialization.py`) | connection pools, a server-side cursor | `match`, `_scan_exact_match_pages`, `TranslationMemoryStream`, `to_document`, `to_multilingual_document` | complete and bounded matches, no row lost, a unit comes back as it was loaded |
| Parallel TMX projection (`parsers/tmx/parallel.py`) | deque of futures, thread pool | `extract_tmx_parallel` | order kept, pending work bounded, everything closed |
| Target split of streams (`data/targets.py`) | temporary directory, set of active iterators, lifetime flag | `__enter__`, `_spool`, `close`, `_LazyLokitItems` | each locale sees its units; nothing is read after close |
| Importers, streams and their facades (`importers.py`, `stream/`, `parse/`, `quick_parse/`) | an open reader, counters, a document in the making | `import_*`, `stream_*`, the facades | every entry point passes on what it was given; routes agree; readers are closed |
| Exporters and their facades (`exporters/`, `export/`) | a position in the stream, files per locale | `export_*`, `to_*` | every translation is written under its locale |
| Regeneration (`exporters/regen.py`, `exporters/json_i18n_regen.py`) | the reader of the original, the units ahead of it, an index of paths | `regen_*` | each record gets its own unit again |
| Tables (`tabular.py`, CSV, XLSX) | the layout of columns | `resolve_*_layout`, reading and writing of rows | what is written is read back |
| Structure, projection, placeholders, codecs, plural rules, native engine | none of their own | conversions | round trips |

How they interact. Every exporter writes through `atomic_output_path`, and every
asynchronous one runs under `run_cancellable_export`. Asynchronous readers wrap a
synchronous extractor in `AsyncExtractionBridge`. Office documents are extracted by
a generator that holds the lock of the worker session between two items, and are
written by the same worker or in Python; several target locales are written to a
staging directory and committed together. The registry makes the identifiers of a
document's units distinct in every parser, and serves the `.lokit` writer, the index
of structural JSON and the validation of streams as a set of keys. Importers choose
between a native reader and a Python one, exporters between a direct conversion in
Rust and a Python writer over a view of the document; regeneration reads the
original a second time and must count as the importer did.

What is hard: cancellation of tasks that wait for threads; generators suspended
with a lock held; time-outs that race late answers; forks; kills and losses of
power; renames undone after a failure; concurrent loads, statement by statement;
identifiers that two passes over a file must count alike; metadata of a stream that
are read before the stream has found them out; handles whose owner changes while
they are passed on. `PROJECT.json` lists each hazard at its line, with the properties
that watch it.

## 2. What is modelled

| Module | Models | Run |
|---|---|---|
| `AtomicExport` | tasks, exporter threads, cache, disk and directory of `io/atomic.py` | `atomic_output`, `atomic_cancel` |
| `OfficeSession` | requests of threads in a process and its fork, the session, the I/O thread, the pipes and the worker | `office_session`, `office_fork` |
| `AsyncBridge` | consumer, producer thread, event loop, close | `async_bridge`, `bridge_smallest`, `bridge_resume`, `bridge_error` |
| `TargetCommit` | staging, commit and rollback of an export in several locales | `target_commit` |
| `IdMap` | the abstract specification: an exact map that answers, refuses or breaks | |
| `IdRegistry` | the registry in memory and on disk, with every I/O failure; refines `IdMap` | |
| `IdResolver` | the users of a registry, call by call; extends `IdRegistry` | `id_registry` |
| `TmStore` | the abstract specification: the committed rows as a reader sees them change | |
| `TmLoad` | setup, reindexing and loads, one SQL statement a step; refines `TmStore` | `tm_load` |
| `TmMatch` | a match page by page over a `TmStore` that changes | `pipelines`, part `match` |
| `TmStream` | streams over the reader pool with failures and cancellations | part `stream` |
| `TmUnit` | a unit written, overwritten and read | part `unit` |
| `TmDocument` | rows to documents, with the allocation of keys | part `document` |
| `EntryPoints`, `Importing` | the facades that read; collecting, merging, streams and their readers | part `import` |
| `Targets`, `TargetSplit` | the selection of a locale; the split of a stream over a directory | part `split` |
| `WritePoints`, `Exporting` | the facades that write; what an exporter writes under which locale | part `export` |
| `JsonTree` | the node table of a nested JSON export | part `json` |
| `TmxParallel` | reader, pool, futures, caller | part `parallel` |
| `Tabular` | columns written, headers recognized, rows read back | part `table` |
| `Regen` | CSV, XLSX, TMX, XLIFF and PO written again with translations | part `regen` |
| `JsonRegen` | the same for JSON files with a member per locale | part `anew` |
| `OfficePackage` | which elements are read and written, by Python and by the worker | |
| `OfficeExport` | extraction, lazy or not, and export, with temporaries and failures | part `office` |
| `Reading`, `Calls` | `TmMatch`, `TmStream`, `TmUnit`, `TmDocument` and `TmxParallel`, then also `Importing`, `TargetSplit` and `Exporting`, as parts of one specification, with the properties about several of them | `pipelines` |
| `*_proofs` | inductive invariants and theorems of `AtomicExport`, `TargetCommit`, `AsyncBridge`, `OfficeSession`, `TmLoad`, `IdResolver` with `IdRegistry`, `Reading`, `Calls` | |

`MC*` modules give the instances. `MCPipelines` holds the parts that one caller drives
at a time: they share no state in the code, so "part" picks one of them at the start
of a behaviour, and the run explores each by itself. The parts about units and their
translations are composed in `Calls`, which is general: its constants are those of the
parts, and its properties are proved. `MCPipelines` extends it with the parts about the
layout of files, which are checked only, and with values. Operators whose comment begins
with "mutant" are plausible faults of the code, placed just before the definition they
stand in for; a property counts only if one of them breaks it.

### AtomicExport

`task` is the coroutine of `run_cancellable_export`: awaiting the shielded worker,
quiescing it, or ended. `Cancel` is `task.cancel()` by the caller at any time;
`CancelledError` is thrown at the next await. `worker` is the asyncio task around
`to_thread`, `pc` the thread itself, which goes through the body of the `with`
block and the lines of `__exit__`, each a step that can also fail. `handed`,
`cached` and `stable` count the chunks of the temporary file that reached the
stream, the page cache and the disk. The directory is the log `commits` of renames
onto the target with the synced prefix `synced`. A kill stops all threads; a loss
of power also takes what is not on disk, any part of the cache having been written
back before. `shutdown` is the teardown of the loop, in which asyncio cancels the
worker task itself. All exporters write one target, the case where they could harm
each other.

Outcome worth knowing: when `_fsync_directory` fails the export raises although the
target is replaced. The model has it, and no text of the repository says otherwise.

### OfficeSession

A request goes `acquire`, `choose`, `ready`, `io`: it takes the lock of its process,
reuses the persistent session or starts one, and converses through the session's
I/O thread (`io`), which keeps running a call its requester gave up. `doing` is the
step of the protocol, `got` the answer accepted so far. An extraction is
`suspended` at each unit with the lock held; its caller resumes it or closes it,
from any thread. The worker has its command loop (`job`) and two pipes of
`PipeCapacity` frames. A session is named by the request that started it. `Fork`
copies the state for a child with a lock of its own and open ends of the pipes;
`Exit` is the interpreter's orderly end with `_shutdown_worker`, `Die` a kill.
Payloads are left out: a frame is its type and the request it belongs to. So is the
worker's rejection of a frame it does not expect: no reachable state has one in its
pipe.

### AsyncBridge

The code between two awaits of the loop is one step, the producer thread another
process. `cancelReq` is `task.cancel()` on the consumer, thrown at its await.
`putting` is the coroutine that the thread runs on the loop to fill the queue.
Three runs show statements of the class comment that the code does not keep:

* `bridge_smallest`: with `maxsize=1` the marker `window_done` needs a second place
  in the queue. A consumer that stops leaves the producer thread polling for ever,
  which the comment ("never a producer thread blocked indefinitely on a full
  queue") excludes.
* `bridge_resume`: `__anext__` cancelled at the wait for the producer which follows
  `window_done` leaves an empty queue and a producer task that is not yet done. The
  next `__anext__` starts nothing and waits for ever; the bridge is not resumable.
* `bridge_error`: `__anext__` cancelled while it closes the bridge to report an error
  of the iterator loses the error; the next call reports a normal end.

### TargetCommit

Locales are numbered. `dest` is what the output directory holds for each, `staged`
and `backups` what the staging directory holds, `committed` the length of the list
of that name. Each rename is a step. An error (`Fault`) or a cancellation leads to
the handler that the code's nested `try` blocks choose: `Restore` for the locale in
hand, `Unlink`/`PutBackCommitted` for the others in reverse. `lateFault` marks an
error of the undoing itself.

### IdMap, IdRegistry and IdResolver

A call holds the registry exclusively, so it is one step; what is hard is not
interleaving but the length of the sequences of calls and the layers below them.
`entries` and `resident_key_bytes` are the resident map and its size, `disk` the
disk table with its `seed`, slots, `len`, `key_bytes` and flags. An identifier is a
sequence of symbols of one byte each, and the file of keys is a sequence of symbols
with its `cursor` and the `buffer` of its writer: a search flushes and moves the
cursor (`Searched`), an insertion moves it back (`KeyWritten`). Each access to a file
can fail; the `...Fails` actions leave what was written by then. The order in which
a spill meets the resident entries is arbitrary, like that of the map in the code.

`RefinesIdMap` maps the registry to `IdMap`: `stored` is `Contents`, what can be read
from whichever tier is in use, `broken` is either of the two flags. The refinement is
exact on `call` and `answer`, so every answer is the one of the map, whatever was
spilled, grown or hashed alike. `IdResolver` runs `resolve_id`, `resolve_tmx` and
`resolve_xliff` between their calls of the registry, or the direct users, and lets
them go on after an error. Two spellings (`a#2`, `auto_0`, `20:a`) of a raw and of a
made-up identifier are the same sequence, so clashes occur.

Not in the model: the encoding of a slot, reading in blocks, the automatic flush of a
full buffer (the contents of the file are the same, only earlier on disk), and
overflows of 64-bit sizes.

### TmStore and TmLoad

`table` holds the rows of `translation_units` by identifier, `kids` the rows of tags,
plural parts and comments that go with each, `version` and `partitioned` the state of
the schema, `load` and `setup` the transactions. A statement of SQL is one step: it
sees what is committed and what its own transaction wrote, and waits for a row that
another transaction has changed; `BreakDeadlock` is PostgreSQL choosing a victim. A
load takes the row of its locale in `_lokit_meta` (`Begin`), reads its document
(`Stage`) until a batch is full by rows or by bytes, and writes the batch with the six
statements of `_flush_batch`. `RestartSetup` is a process that crashed between two
batches of a reindexing. The columns of a row that no other statement looks at are
folded into `by`, the unit that wrote them last, which is what `KidsMatchRow` compares.

`TmStore` is what remains of this for a reader between two queries. `TmLoad` refines
it, and `TmMatch` is checked against it: that is the composition of the two.

### TmMatch, TmStream, TmUnit, TmDocument

`TmMatch` reads the pages of up to three scans, with `LoadCommits` between any two.
`MatchIsTopK` holds when nothing commits in between, `PagingIsSound` says what is left
of it otherwise. `TmStream` makes every await of a stream a step that can fail or be
cancelled (`Disturb`, `PartialFetch`). `ConnectionReturned` excepts a close that was
itself disturbed (`spoiled`): `aclose` cancelled where it leaves the cursor does not
come to the connection. `TmUnit` loads every combination of a few texts, tags, plural
forms, contexts and extensions over an older row and reads it; `TmDocument` turns
every short result of a query into a document, also with keys that look like the
suffixed keys of others. A key is a sequence of numbers there: `<<0, 2>>` is the text
`k#2`, and the suffix after which it looks for a free one is a number in both.
`UnitsAssumption` and `KeysAssumption` say what units and keys are; the first, above all,
that `None` is no text, number or record, and that no extension of a unit is named like
the reserved ones, which `deserialize_unit` would take for its own.

### EntryPoints and Importing

`Call` chooses one of the functions of `parse`, `quick_parse`, `stream` and their
asynchronous twins, and the arguments it hands on. Then the reader is tried in Rust
(`TryNative`), or read unit by unit (`Take`), with an error at any unit
(`ReaderFails`); units of one XLIFF segment are merged while they are collected. A
stream may look one unit ahead (`Prime`), be read, closed or converted. The traits in
the table of functions say which of this each does. `UnitsDelivered` says what a
consumer has had at an end or before an error, and `ReadersClosed` excepts the readers
that the code leaves to the garbage collector, named in the module. The trait
`metadata` says where the locales of what is given come from: those of TMX and XLIFF
follow the reader; others are taken once, from the header, before the first unit or
with it (`Prime`); the bridges and the batches of TMX give none. `MetadataComplete` asks for
all locales of the units a caller has where they follow the reader, and for the readers
whose header, layout or selection says of which locales there are texts
(`HeaderReaders`, a hypothesis in `FilesAssumption`). It excepts .lokit, legacy JSON and
parallel TMX: their structures have the locales of the header, and nothing compares that
with the units (`parsers/lokit/extraction.py:119`, `importers.py:111`, `:2426`, `:2467`);
the instances have such files whose header names none, one or both of the locales. The two
conversions of tables to XLIFF are modelled up to the document they import; their export is
one of those in `Exporting`. `RoutesAgree`
compares what a caller gets, by Rust or Python, merged or not, collapsed or not, or per
column, with the translations of the file: all of them, no others, no identifier twice,
no source text lost. `FilesAssumption` says of which files: identifiers are unique
(`IdResolver`); a text without a locale is in a file whose header names all the locales
there are, so that it is clear whose it is (`OwnTextIsPlain`); and further PO catalogues
have the same entry under the same identifier (`SameEntries`). Where the code does
not guarantee the last two, Section 6 says what happens.

### Targets and TargetSplit

`Targets` selects the text of a locale, and the document of a locale. `TargetSplit`
reads the stream once, either writing a few locales as the units come (`WriteDirect`)
or finding all of them while one master file is written (`Discover`) and selecting
from it (`Project`); parts are read in any order and closed while they are read. Its
reference is `Targets`: `SplitIsSelection`. Too many locales (`Validated`) are an error
at the start, with the unit that has one too many, or at the end of the spooling. On the
second way the stream is read by a generator, which closes it in its `finally`; before
`Begin` that generator has not been started, and closing it does nothing. So a split that is
cancelled, or cannot write its master file, before the first unit leaves its caller's
stream open (`data/targets.py:208`, `:391`). `SplitReleases` excepts exactly this.

### WritePoints, Exporting, JsonTree

`WritePoints` lists the facades with the exporters they call. A writer in Rust or in
Python takes a document, or a stream whose locales may be found out only as it is
read: a view of its metadata is taken before (`Prepare`), units come (`Pull`), and the
files are written per locale or at once (`Commit`). What is written are triples of
unit, locale and text, and `ExportKeepsTranslations` compares them with the document,
but for the losses the module names (`KnownLoss`, `OnlyOwn`, `Strays`).
`DocumentsAssumption` says what is exported: above all that a document in memory knows
the locales of its units, and that the reader of a file gives a text without a locale
only where no single locale is known, because Rust files it under that one
(`native/interchange/src/lib.rs`). `JsonTree` is
the table of nodes in which a nested JSON file is put together: a later path may go
through an earlier value.

### TmxParallel

The caller's thread reads and submits, threads of the pool project, and the caller may
stop at any unit. `OrderedAndComplete` bounds what an error loses, `ProjectionIsBounded`
what is held, `ThreadsJoined` says nothing runs afterwards.

### Tabular

A document of one or more locales is written under every choice of header and columns
and read again under every choice of layout. The exceptions in `LayoutReadsBack` (part of `FilesReadBack`) say
for which headers a reader cannot know the locales.

### Regen and JsonRegen

A file is imported, translated and written again, record by record. The identifiers
given by the reader and those given again by the writer are computed each by its own
definition, from the same table of identifiers. `JsonRegen` has the pass that finds
the member that counts, the spool of the source's root, and the pass that writes.
The predicates `IsShifted` to `IsOutOfReach` name where a text is known to be lost.

### OfficePackage and OfficeExport

A part of a package is the sequence of its elements with their depths; identifiers are
positions in it. `OfficePackage` has reading and writing for both engines.
`OfficeExport` imports, lazily or not, materializes sources, spools translations,
rewrites part by part and delivers; any step can fail, also after the output was
replaced (`office/backend.py:1744`, `:830`), which then is the new file and whole.
`OfficeFaithful` reads the output again and compares, with the exceptions `IsLost`;
`OfficeReleases` excepts a temporary file that the file system does not remove.

## 3. Runs and bounds

| Run | Instance | Shows |
|---|---|---|
| `atomic_output` | 2 exports of 2 chunks to one target, 1 cancellation each, 1 fault, 1 power loss | `TargetComplete`, `ReturnedIsDurable`, `NoOrphanTemp` |
| `atomic_cancel` | 1 export, 3 cancellations, 2 faults, 1 kill, no `O_DIRECTORY` | `CancelledIsQuiet`, `NoLateReplace`, `CancellationHonoured`, `ExportEnds` |
| `office_session` | 2 extractions and a reinsertion on 2 threads, a warning and a unit each, pipes of one frame, a crash or a failed start | `IdleSessionIsClean`, `AnswersAreComplete`, `NoStrayWorker` |
| `office_fork` | 2 extractions, 1 thread and a forked child, 1 crash | `RequestEnds`, `WorkersExit` |
| `async_bridge` | 5 items, queue of 3, batches of 2, 2 cancellations, an empty native batch, close from another task | `InOrder`, `IteratorExclusive`, `ReportIsHonest`, `ProducerNeverStuck`, `CloseCompletes` |
| `bridge_smallest`, `bridge_resume`, `bridge_error` | the same, queue of 1 in the first | violated: `ProducerNeverStuck`, `Resumable`, `ErrorSurvivesCancel` |
| `target_commit` | 3 locales, every first content of the directory, 2 faults, 1 kill | `AllOrNothing`, `OriginalsSurvive`, `CancellationHonoured`, `EndsWithoutStaging` |
| `id_registry` | 4 calls, resident limits of 2 entries and 1 byte, tables from 2 slots, headroom from 3 entries, suffixes below 4, 3 hash functions | `RefinesIdMap`, `UnitIdsAreUnique`, `TiersAreSound`, `ResolutionEnds` |
| `tm_load` | 2 loads and a setup at once, documents of 2 or 3 units with equal texts, colliding contexts, no target or too large; batches of 2 rows or 4 bytes, reindexing of 1 row, 2 old rows, 1 fault | `OneRowPerUnit`, `KidsMatchRow`, `LoadIsComplete`, `ReindexIsComplete`, `RefinesTmStore` |
| `pipelines` | the instances in `MCPipelines.tla`, each described there | `MatchIsSound`, `HandlesReleased`, `CleanEndIsComplete`, `MemoryReadsBack`, `RoutesAgree`, `MetadataComplete`, `SplitIsSelection`, `ExportKeepsTranslations`, `FilesReadBack`, `ProjectionIsBounded` |

Each property of `pipelines` is a conjunction over the parts it is about; the names of
the conjuncts are those of the modules.

Why these bounds are enough to be interesting. Two chunks make a partial file; two
exports race on the target; a third cancellation meets the quiescing loop. Pipes of
one frame make the writer wait for the reader at every frame, and one unit suffices
to suspend a generator in the middle of an answer; two requests reuse a session and
a third meets what the second left. Five items in batches of two make two full
windows' worth of batches and a short one; two cancellations can hit the same call
and the next. With three locales a failure has locales before, at and after it, and
the second fault strikes the undoing of the first. Four calls of
which each may try four identifiers spill a registry with one or two entries, or
with an identifier too long for memory, and grow its table up to twice; one hash function makes all
identifiers collide, one those of equal length, so the comparison of keys decides,
and one few.

Two loads with the same units in another order meet at every row and can lock each
other out; a document of three units with batches of two has a border between units of
one key, and the fault hits any statement of either. Old rows without their match text
are indexed one at a time, so a crash, or a load that holds a row, comes between them. A
match has more rows than a page, and more than the limit, in each of its scans. A
stream of three rows in batches of two ends in a short batch, and two share one
connection. The documents of the other parts have the two to five units that it takes
for one to be merged, misplaced, hidden or late with its locale, and every option that
the code branches on is enumerated. Four paths of up to three names make every overlap
in a tree. Packages have one of each element that reading and writing must count alike.

The deadlock check is off except in `tm_load`, where only a state in which everything
has ended may stop: exports end, and callers may stop asking.

Fairness. `AtomicExport`: the loop runs what is ready and the threads of the
executor progress. `OfficeSession`: only threads of requests, whose waits all have
deadlines except the one for the lock, and a worker whose input has ended; nothing
is assumed of a worker at work, which may stall, nor of callers, who may leave a
generator suspended. That is why `RequestEnds` excepts the wait for a suspended generator of
the same process: a request can wait for it for ever, without a time-out, also when
both belong to one thread. `AsyncBridge`: the loop and the producer thread run; only
`PatientSpec`, for `Resumable`, also has a consumer that asks again. `TargetCommit`:
the exporting thread progresses. `IdResolver`: a call of the native code runs to its
end (`Fairness` is weak fairness of `Continue`, written without `ENABLED`). `TmLoad`
and the parts of `MCPipelines` have safety properties only; that a caller of the
parallel projection does not wait for nothing is `ResultWillCome`.

## 4. What is proved

`AtomicExport_proofs` holds for every set of exporters, every number of chunks and of
cancellations, faults, kills and losses of power, from `ChunksAssumption`,
`FlagAssumption` and `BoundsAssumption` alone.

The properties are not inductive: that the newest rename is complete says nothing
of a thread about to rename. `Inv` adds what each place of the code has achieved.
`Contents` follows the chunks through flush, fsync and close; `Renames` ties renames
to the places after `os.replace` and success to the synced prefix; `Entries` says
when the temporary name exists; `Tasks` ties the loop's view of a thread to the
thread, above all that a running thread has an awaiting or quiescing task. The proof
has a lemma for each family of steps (the task, the thread up to the rename, the
rename and the sync, the end of the thread, kills and power losses); the theorem
`Invariant` combines them, and every listed property follows from `Inv`, the action
property from `Inv` and the step, `CancellationHonoured` from an invariant about one
export that a cancellation establishes.

`TargetCommit_proofs` holds for every number of locales, faults and kills, from
`LocalesAssumption` and `BoundsAssumption`. That a finished export is all or nothing
is not inductive either: `Inv` says where every locale stands at each place of the
commit. `Files` splits the locales at `committed`: those up to it are replaced, with
the old file in the backups exactly if there was one; those after it are untouched;
between the two renames of a locale (`Away`) its file is in the backups alone.
`Positions` ties `next` and `committed` together, `Prepared` covers the places before
the first rename and `Outcome` those after the last. One lemma per action shows that
it keeps each part. After an error of the undoing (`lateFault`) the invariant, like
the code, promises nothing about the files.

`AsyncBridge_proofs` holds for any number of items, any size of the queue and of the
batches, any number of cancellations and of empty native batches, and for both kinds
of iterator, from `SizesAssumption` and `EnvironmentAssumption`. The items a consumer
gets are those of the iterator in order (`ItemsInOrder`), the iterator is never used
by two threads at once (`IteratorIsExclusive`), and a report of the end or of an error
is true (`ReportsAreHonest`). Its `Inv` has four parts beside the types. `Control` says
which tasks and threads can be where at once: at most one producer, and a closer only
behind a consumer that gave up. `Linked` is the core: what was delivered, the current
batch, the messages of the queue, what the thread holds and what the iterator has left
are consecutive stretches of one sequence (some offsets `off` exist at which they begin);
"in order and once" is not inductive without naming where every item is. `Window` bounds
how far the producer is ahead of the consumer, and `Honest` says what a pending report
rests on as long as nobody cancels or closes. There is one lemma per family of actions (the consumer, the producer's thread,
the coroutine that fills the queue, closing, cancellation).

`OfficeSession_proofs` holds for any requests of either kind, any threads, units,
warnings, capacity of the pipes and faults, and for a fork, from `KindAssumption`,
`UnitsAssumption`, `NamesAssumption`, `FramesAssumption` and `BoundsAssumption`.
`IdleSessions`, `CompleteAnswers` and `NoStrayWorkers` state the three properties of the
run `office_session`. None is inductive: a clean idle session is the end of a
conversation that went as it should, so `Inv` describes every conversation at every
place of it. For a request that converses, `Told` and `Heard` count the frames it has
written and accepted, `Consumed` and `Answered` what the worker has taken and sent;
`Asks` and `Replies` say that the pipes hold exactly the frames between these counters,
and `AtWorker` that the state of the command loop is that of the counters. So when the
request accepts `done` the counters have met and both pipes are empty (`ReceiveKeeps`).
`Own` says that a live worker knows no frame of a request that has left its session,
`Locked`, `Kept` and `Alive` that a process has one lock holder and one live worker; they
carry `NoStrayWorkers`. The lemmas `SidesKept`, `Taken`, `Answering` and `TalkElsewhere`
say what a step at one end of a pipe does to the conversation that uses it and to the
others; one lemma per action (`...Keeps`) then shows that it keeps every part of `Inv`.

`TmLoad_proofs` holds for any number of loads and setups, any documents, batches, hash
and older rows, from `LimitsAssumption`, `DocumentsAssumption`, `LegacyAssumption` and
`LegacyKeysAssumption`. It proves all five properties of the run `tm_load`, the
refinement of `TmStore` among them, in four layers, each with one lemma per action on
top of those before. `RowsInv` has the row locks: one transaction at a time holds a row
it has changed, a row that was inserted is known to its load alone until the commit,
and a changed row is a committed one moved up; with `StoreStep` that is the refinement
(`Refinement`), and with `NoneStale` the promise of setup (`ReindexCompletes`).
`UniqueInv` adds that no two rows clash among all that anybody knows (`NoClash`):
committed rows alone are not inductive, since two loads could hold a clashing row each.
A new row is free of clashes with the view by the statement, with other loads' rows
because the upsert waits for them or, without a target, because `_lokit_meta` lets one
load of a locale in (`NewIsFree`, `Alone`). `KidsInv` follows the children: those of a
changed row are replaced (`Settled`) or a unit of the batch at hand that is or will be
mapped to the row wrote it (`Pending`). `CompleteInv` says that each unit read has a row
or a staged one like it, and that what is at hand was read since the last count.

`OneRow` and `KidsMatch` have a hypothesis, `NoCollision`: two units of a document
without a target, with the same key and source, whose contexts differ have different
hashes. It cannot be dropped, because deduplication compares the parts of a context and
the database the hash of their joined text (`db/operations.py:1658`): two such units of
one batch would both be inserted. Where the targets are given the upsert fails instead,
and that case is in the run. A flat schema has no row of a locale to wait for; there
`OneRowPerUnit` promises nothing, and `KidsMatchRow` nothing about rows without a target.

`IdResolver_proofs` holds for any identifiers, hash functions, seeds, limits, headroom
and number of calls, from the assumptions of `IdRegistry` and `IdResolver`
(`IdsCoverAssumption`: what the calls make up is among the identifiers) and the
hypothesis `AbsentIsNoDisk`, that `None` is not a table. It proves the three safety
properties of the run `id_registry`; the refinement of `IdMap` is the core, the other
two follow from the invariant it needs. `IInv` has three parts. For the table,
`WellPlaced`: from the home of an occupied slot to where it is there is no vacant one,
and no slot is there twice. `Put` shows that a slot put where a probe ends keeps this,
`GrownIs` and `MovedIs` that doubling the table and spilling the resident map do, by
taking the folds apart slot by slot; that a probe ends comes from the load
(`HasVacancy`). For the file of keys, `DiskOk`: what counts is `Bytes`, the file
followed by the buffer, since the cursor may stand anywhere after a comparison
(`CursorMoved`) and the writer goes back to the end before it writes (`KeyWrittenIs`);
every slot spells its key there and no two the same. Together they give `Lookup`: a
search comes to the slot of a known identifier and to the place of a new one. Then each
call, and each way in which it fails, is a step of the exact map (`GetOrInsertStep`,
`NextSuffixStep`, `GetStep`). For the users, `GivenInv`: while the registry works it
knows all that was given, and no counter is below the first suffix. That makes a new
identifier different from all before (`UniqueIds`), and a candidate with a suffix one of
those the assumption lists. After an I/O error nothing can be given, so nothing needs to
be known.

`Reading_proofs` is about matching, streams, the parallel projection, and the memory's
units and documents. For matching it holds for any finite set of candidates, any
scores of which those of equal texts are the highest, any limit, page size and number of commits
(`InputsAssumption` of `TmMatch`), and proves `MatchIsSound`. A page is defined by
counting, for every row, the rows before it; the first part shows once, for any strict
total order on a finite set, that this numbers all of it in order (`RankedIs`) and that
a chain which no other element precedes is its beginning (`FirstRanks`). `MatchInv`
then needs one order, `InOrder`, over all three scans: what the scans and the cursor
have passed comes before everything else in it, although the scans are separate queries
and the cursor is the rank of a row that may have moved since (`CursorMoves`,
`ScanEnds`). Each of the two bounded lists keeps the first rows of its own among those
passed (`Kept`), except those a commit moved. At the end `ResultIsSound` needs only that;
`ResultIsBest` compares the result with the definition of what a caller expects, and
rests on scores that do not increase along `InOrder`. One tie needs care, and the
instance of the run has it: a similar row can reach the score of an equal one,
and the result keeps them in the order of the scans.

For streams it holds for any
number of streams, connections, rows, faults and any size of a batch, from
`SizesAssumption` of `TmStream`. `StreamInv` speaks of one
stream at a time, because the streams share nothing but the count of connections:
`Handles` follows the connection through closing, `Delivery` the rows. The rows
delivered, pending and under completion are one increasing sequence up to the position
of the cursor, and all the rows up to it unless something failed.

For the parallel projection it holds for any file, any sizes and weights of its units,
any options and number of threads, and every schedule of the pool, from its
`InputsAssumption`, which says what a file and validated options are. The core of
`ProjectingInv` is
`Linked`: there are places `at`, such that the batch `i` of those pending is the units
after `at[i]` up to `at[i + 1]`; the first place is the last unit given or ready, the
last one the last unit read, and no two are further apart than `batch_units`. That the
results come in the order of the file, whichever thread ends first, and that an error
is told of no more than the pending units early both follow from it. `BatchEndIs` shows
that the batches `_iter_batches` makes fit, which needs that the fold over the units of
a batch is a number (`SumType`): as the prover has no induction rule it can apply, that
is shown with the least number for which it would fail (`LeastIs`, `UpTo`). That the
caller does not wait for nothing (`ResultsCome`) needs one invariant more, `InTurn`:
threads take batches in their order, so if the oldest is queued all are, no thread is at
work, and there is at least one.

For the memory's units and documents it proves what `MemoryReadsBack` states, from
`UnitsAssumption` and `KeysAssumption`. `UnitInv` says what a row is after any number of
loads (`IsRowOf`): its columns are those of the last unit, its JSON payload has every
value of that unit, and any reserved value besides is one an earlier load gave.
So reading it back comes field by field to the last unit (`RowReads`): where an older
value can show through is where the last unit has none. The property of a document is about a
query's rows alone, without steps; the work is in the loop over the units. `LeadIs`,
`PlaceOfRow` and `OrderHas` number the units by their first rows. `AddedWell` is the
invariant of the loop: the keys given are different, each unit's is its own unless an
earlier unit has the same, and then it is no row's. It rests on `SuffixIsFree`, a count: among as many
suffixes as there are rows and keys in use, and one more, one is free, which is also why
the search in `_allocate_multilingual_key` ends.

`Calls_proofs` adds the split of a stream, the import of a file, the export and the
composition.
A split (`StreamsAssumption` of `TargetSplit`) gives for every locale the document that
selecting it in memory gives, `SplitIsSelection`. Both sides are folds over the units,
so `SplitInv` says that each writer, the master file and what a part reads are the
selection from the units *read so far*, and the proof needs only one fact of the
selection, that appending a unit appends what is kept of it (`KeptAppend`). That fact is
about a fold and again shown without induction: the fold is the end of a chain of steps
(`KeptSteps`), and two chains that agree so far agree in the next step. `RustReads` shows that the
selection in Rust agrees with the one in Python, and the order in which the locales
become known does not matter because a locale found late finds the earlier units in the
master file.

For an import (`FilesAssumption`, `ImportersAssumption`) `TellingInv` has five parts.
`ImportStage` says where a call may be by what its function gives; `ImportGives` that what
was delivered and what waits to fill a batch are the units read so far, which at an end or
an error are all there are (`UnitsDelivered`); `ImportHolds` which readers are open at
each place, above all that none is before the first unit is read ahead; `ImportNames`
that the locales known are those of every unit a caller has, and at the end of every
further file (`MetadataComplete`): where they are taken once that rests on the hypothesis of
`FilesAssumption` about `HeaderReaders`, where they follow the reader on what is fetched
never being less than what is read (`FetchedReaches`, `NamedGrows`). These four are `ImportInv`. The fifth, `Telling`, is what a document
says, for `RoutesAgree`. While it is collected a document `Tells` the units read so far:
each of them is carried by one of its units, none of its units says anything else, and no
identifier is there twice. That is an invariant of merging because a unit is only joined to
one with the same source text and no locale in common (`MergedTells`), and again of
`MergeIdentities` at the end, which merges once more what was already collected: a fold, taken as a
chain of steps like the others. `BuiltSays` then follows what each importer makes of it: the texts of a single
target moved from `targets` to `target` or back (`CollapseRewords`), under a locale that is the only one. A
table has a document per column (`ColumnsTell`). Further PO catalogues are added one entry
at a time; since the entries of a locale come in order, `TellsAdded` counts for each locale
how many of them are in, and `SameEntries` makes the unit an entry is added to the one with
its source text. The table of functions is written with the operators `:>` and `@@`, which
the prover cannot expand; what the proof needs of it are the facts in
`ImportersAssumption`, which TLC evaluates for the table itself.

For an export (`DocumentsAssumption`, `FormatsAssumption` of `Exporting`) it proves
`ExportKeepsTranslations`. The work is about what is written of any list of units under
any metadata, whichever way an export came to them. `Says` takes the sets of triples
apart unit by unit; `PartsHave` shows that a split in which no unit is left out has all
units in every part, again a fold and again without induction (`KeptAll`, from the chain
of `KeptSteps`). Then, for all formats: what is written is of a unit and, in one file of
XLIFF, of one locale (`WritesUnits`); with metadata that name the locales of the units
(`TrueOf`) it is a translation or a text that names no locale (`WritesComes`), every
translation is there (`WritesAll`, in TMX, `.lokit` and a split XLIFF with any metadata),
and so is the text of a unit without translations (`WritesPlain`); a locale that the
caller chose gets what it should (`WritesChosen`). `ExportInv` follows a call: what its
metadata may be at each place (`ExportSees`: those of the header while nothing was read or
chosen, all that the units have once Rust declined), which formats and documents Rust is
tried for (`ExportStage`), and what a finished one has written, by Rust or in Python
(`ExportGives`). The delicate point is that what Rust writes of a file that is being read
depends on metadata that change meanwhile; `KnownLoss` is the one case where it loses
what the Python writer would keep.

`CallsInv` joins the invariants of the parts, each under its "part", and the theorems
about `CallsSpec` state `MatchIsSound`, `HandlesReleased`, `CleanEndIsComplete`,
`ProjectionIsBounded`, `MetadataComplete`, `RoutesAgree`, `SplitIsSelection`,
`ExportKeepsTranslations` and `MemoryReadsBack` as the run checks them. Their hypotheses are `PartsAssumption`,
asserted in `Calls`, and `MemoryAssumption` and `InputsAssumption`, asserted in `Reading`
and `TmMatch`; TLC evaluates them for the values of the run.

Only model-checked: liveness, which the prover cannot treat, and one property of
`pipelines`. `FilesReadBack` is about layouts (tables, trees of JSON, records that are
counted twice, elements of Office parts, where it includes `OfficeRoutesAgree`): each part compares two
recursive computations over one file, and the prover can do no induction; a fold can be
taken apart as above only where both sides treat one unit after the other.

## 5. What is left

1. Proofs about the temporaries of `OfficeExport` and the columns of `Tabular`.
2. The text of the formats where writing and reading are two implementations: the
   plural spool of PO, retained HTML, IDML stories.
3. Liveness of `TmLoad` under restarts of setup.

## 6. Not modelled, and where the code diverges

The grammars of the formats (TMX, XLIFF, PO, HTML, IDML, OOXML, JSON), plural rules,
placeholder syntax and the native engine's readers are sequential transformations of
texts; the tests of the repository cover them better than a finite instance could. The
encoding of frames is one unit in `OfficeSession`. PostgreSQL, asyncio and the file
system are external: they are modelled as the code relies on them. Overlapping exports
to one directory (`office/backend.py:1614`) are not modelled, nor the durability of a
single Office output, which is renamed without fsync (`office/backend.py:1725`).

Some failures at the edge of a modelled part are left out: an iterator that raises when
the bridge closes it, after which the batch in hand and the queue are not reset and every
later `aclose` raises the same (`parsers/async_bridge.py:259`); an Office worker whose I/O
thread cannot be started (`office/process.py:624`), which stays alive; the refusal of `setup`
to work on a newer schema, on one that is partitioned otherwise, or without a migration
(`db/operations.py:313`), which changes nothing.

The models follow the code, also where it loses something. The properties except
these cases by predicates of their own, so that a reader finds them; they are not runs
that expect a violation, because no text of the repository promises the opposite,
unless it says so here.

Office:

* Alternative texts of a presentation are looked up after the paragraphs of the part
  were rewritten, by position in the rewritten tree (`office/backend.py:2190`, `:2257`,
  `OfficeReinserter.cs` alike). A paragraph of several runs before the picture moves
  it, so its text stays or goes to another, and its translation counts as extra.
  `tests/test_pptx_areas.py:118` has single runs only (`IsMoved`).
* Alternative texts of a text document are read by Python and put back by neither
  engine (`IsNeverPutBack`).
* Python reads the text of equations, replaces only that of runs, and repeats the
  former (`HasEquation`); paragraphs within paragraphs are translated twice (`IsNested`).
* The lookahead of a lazy extraction loses the unit in hand if the next part fails.
* `io/atomic.py:172`: an export whose directory cannot be synced raises although the
  target is replaced.

Regeneration: a stream is read to its end for a record whose unit it lacks, and what
follows keeps its text (`IsOutOfReach`); blank rows of a table are counted by one side
only (`IsShifted`), ignorables of XLIFF 2 by the reader only (`IsRenamed`); entries of
PO with a context are never translated, and those with one msgid share a unit
(`IsUnnamed`); the translation of a TMX document with one target is written into every
language (`IsSpread`); locales in another spelling find nothing (`IsMisspelt`);
segments merged across files are written in the first only (`IsMerged`).

Tables: a target locale in another spelling than the canonical one loses the column
"target"; a locale without a column takes the only one of its language, even the
source's (`SourceIsOnlyOne`); generic headers do not name several locales; the
language "id" collides with the column of identifiers (`Titled`).

Exports: a conversion from TMX to CSV without a target language has no translations;
the direct conversion of XLIFF takes the locale of the first file (`KnownLoss`); HTML
and IDML read a unit's own target only (`OnlyOwn`); an export of several PO or HTML
files of a stream fails after some are written when a locale comes late (`Strays`).

Readers and streams: `import_po_targets` joins catalogues by the identifiers of entries,
which for an entry with a context are its position (`PoExtractor._unit_id`), so catalogues
whose entries are in another order give such translations to other units; the text of an
XLIFF `<file>` without a target language becomes a text of the document's only locale
where other elements name one (`native/interchange/src/semantic.rs`, `materialize.rs`).
Neither is in the instances. The header readers of parallel TMX are not closed; some streams
closed before the first unit leave their reader to the garbage collector, and a split that
fails before the first unit leaves its caller's stream open. A .lokit or legacy JSON file, or TMX
read in parallel, whose header does not name a locale its units have gives metadata without
that locale (`Told`). An error of
the parallel projection costs up to `max_pending_batches` batches of earlier units,
which the serial projection delivers. After a cancelled fetch the stream of a
translation memory misses the rows fetched; children are read later than the
cursor's snapshot.
