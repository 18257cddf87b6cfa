--------------------------- MODULE MCOfficeSession ---------------------------
(* Small instances: extractions whose generators may stay suspended, and an  *)
(* export that can be cancelled.                                             *)
EXTENDS OfficeSession, TLC

CONSTANTS e1, e2, x1

KindOfRequest == [r \in Requests |-> IF r = x1 THEN "reinsert" ELSE "extract"]

Alike == Permutations(Threads) \cup Permutations({e1, e2})
=============================================================================
