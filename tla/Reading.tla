------------------------------- MODULE Reading --------------------------------
(***************************************************************************)
(* What reads by itself: a match while units are committed, streams out of *)
(* the translation memory that share its connections, a unit and a         *)
(* document of several locales out of it, and a TMX file that is projected *)
(* by threads.                                                             *)
(***************************************************************************)
EXTENDS TmMatch, TLC

CONSTANTS
  Absent,
  Streams, PoolSize, CursorRows, BatchSize, MaxFaults, \* TmStream
  LoadedUnits, MaxLoads,                               \* TmUnit
  ResultKeys, ResultTexts, ResultLocales, NoLocale, ResultRows, \* TmDocument
  Projections, Cpus, SampleUnits, WorkPerUnit          \* TmxParallel

VARIABLES stream, held, faults, row, loads, rows, input, job

Stream == INSTANCE TmStream WITH Rows <- CursorRows
Unit == INSTANCE TmUnit WITH Units <- LoadedUnits
Document == INSTANCE TmDocument WITH Keys <- ResultKeys, Texts <- ResultTexts, Locales <- ResultLocales, MaxRows <- ResultRows
Parallel == INSTANCE TmxParallel WITH Inputs <- Projections

\* The hypotheses of the theorems about units and documents.
ASSUME MemoryAssumption == Unit!UnitsAssumption /\ Document!KeysAssumption
=============================================================================
