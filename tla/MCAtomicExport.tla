--------------------------- MODULE MCAtomicExport ---------------------------
(* Two exports of two chunks onto the same target.                         *)
EXTENDS AtomicExport, TLC

ExporterSymmetry == Permutations(Exporters)

=============================================================================
