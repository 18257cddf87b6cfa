------------------------------ MODULE Calls -------------------------------
(***************************************************************************)
(* What one caller does at a time, each by itself: a match, a stream, a    *)
(* unit or a document out of the translation memory, a file through an     *)
(* importer, a stream that is split by locale, a TMX file projected by     *)
(* threads, or an export.  "part" says which one a behaviour is about; in  *)
(* the last four "input" is what the call is given and "job" is the call.  *)
(***************************************************************************)
EXTENDS Reading

CONSTANTS
  Files, FetchedUnits,                               \* Importing
  SplitStreams, MaxDirect, MaxLocales,               \* TargetSplit
  ExportInputs, ChosenLocale                         \* Exporting

VARIABLE part

Import == INSTANCE Importing WITH Batch <- FetchedUnits
Split == INSTANCE TargetSplit WITH Streams <- SplitStreams
Export == INSTANCE Exporting WITH Documents <- ExportInputs, Chosen <- ChosenLocale

\* The hypotheses of the theorems about these parts.
ASSUME PartsAssumption ==
  /\ Stream!SizesAssumption /\ Parallel!InputsAssumption /\ Split!StreamsAssumption
  /\ Import!FilesAssumption /\ Import!ImportersAssumption
  /\ Export!DocumentsAssumption /\ Export!FormatsAssumption

memory == <<store, match, stream, held, faults>>
saved == <<row, loads, rows>>
callsVars == <<part, memory, input, job, saved>>

-----------------------------------------------------------------------------
NoMatch == store = <<>> /\ match = Idle
NoJob == input = Absent /\ job = Absent
CallsInit ==
  /\ Stream!Init /\ Unit!Init /\ Document!Init
  /\ \/ part = "match" /\ Init /\ NoJob
     \/ part \in {"stream", "unit", "document"} /\ NoMatch /\ NoJob
     \/ part = "import" /\ NoMatch /\ Import!Init
     \/ part = "split" /\ NoMatch /\ Split!Init
     \/ part = "parallel" /\ NoMatch /\ Parallel!Init
     \/ part = "export" /\ NoMatch /\ Export!Init

CallsNext ==
  \/ part = "match" /\ Next /\ UNCHANGED <<part, stream, held, faults, input, job, saved>>
  \/ part = "stream" /\ Stream!Next /\ UNCHANGED <<part, store, match, input, job, saved>>
  \/ part = "import" /\ Import!Next /\ UNCHANGED <<part, memory, saved>>
  \/ part = "split" /\ Split!Next /\ UNCHANGED <<part, memory, saved>>
  \/ part = "parallel" /\ Parallel!Next /\ UNCHANGED <<part, memory, saved>>
  \/ part = "export" /\ Export!Next /\ UNCHANGED <<part, memory, saved>>
  \/ part = "unit" /\ Unit!Next /\ UNCHANGED <<part, memory, input, job, rows>>
  \/ part = "document" /\ Document!Next /\ UNCHANGED <<part, memory, input, job, row, loads>>

CallsSpec == CallsInit /\ [][CallsNext]_callsVars

-----------------------------------------------------------------------------
\* What was opened is given back: the connection of a memory's stream (TranslationMemoryStream.aclose),
\* the reader of an import, but for what is known to be left to the garbage collector, the files
\* of a split and the stream it reads, and the threads of a parallel projection.  A split that fails
\* over a master file before it asked for the first unit leaves its caller's stream as it was given.
HandlesReleased ==
  /\ part = "stream" => Stream!ConnectionReturned
  /\ part = "import" => Import!ReadersClosed
  /\ part = "split" => Split!SplitReleases
  /\ part = "parallel" => Parallel!ThreadsJoined

\* A stream that ends normally has delivered everything, once and in order, and one that
\* fails everything before the error.
CleanEndIsComplete ==
  /\ part = "stream" => Stream!CleanEndIsComplete
  /\ part = "import" => Import!UnitsDelivered
  /\ part = "parallel" => Parallel!OrderedAndComplete

\* A parallel projection holds no more than it may, and its caller does not wait for
\* nothing (parsers/tmx/parallel.py).
ProjectionIsBounded == part = "parallel" => Parallel!ProjectionIsBounded /\ Parallel!ResultWillCome

\* The metadata that come with what an import gives name every locale it has translations for;
\* those of a .lokit or legacy JSON file and of the parallel reader of TMX are the header's alone,
\* and the asynchronous bridges give none (importers.py).
MetadataComplete == part = "import" => Import!MetadataComplete

\* Whichever entry point reads a file, in Rust or in Python, the caller gets the same
\* translations (importers.py).
RoutesAgree == part = "import" => Import!RoutesAgree

\* A stream split by locale gives the documents that splitting it in memory gives (data/targets.py).
SplitIsSelection == part = "split" => Split!SplitIsSelection

\* An export keeps every translation under its locale (exporters, parsers/interchange.py).
ExportKeepsTranslations == part = "export" => Export!ExportKeepsTranslations

\* A unit read from the memory is the last one loaded (db/serialization.py), and the document
\* of several locales has every row of the query, under its own key (db/operations.py).
MemoryReadsBack ==
  /\ part = "unit" => Unit!ReadsLastLoad
  /\ part = "document" => Document!MultilingualKeepsRows
=============================================================================
