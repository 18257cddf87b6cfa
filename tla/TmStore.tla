------------------------------ MODULE TmStore ------------------------------
(***************************************************************************)
(* What the translation memory promises to a reader between two of its     *)
(* queries (src/lokit/db): the committed rows of translation_units, as the *)
(* commits of loads and of reindexing change them.  A row stands for one   *)
(* unit for good, none is ever deleted, and a row that is loaded again     *)
(* only moves up in the order the match pages use.                         *)
(***************************************************************************)
EXTENDS Naturals

VARIABLE
  store       \* the rows: a function of their ids

\* What stays: a row is for one source, context and target.
SameUnit(new, old) == new.unit = old.unit

\* A commit that touches a row counts one more use of it, and leaves it indexed;
\* one that only indexes it changes nothing else.
Advances(new, old) ==
  /\ SameUnit(new, old)
  /\ \/ new = old
     \/ new.usage > old.usage /\ new.indexed
     \/ new.usage = old.usage /\ new.indexed /\ ~old.indexed

Commit ==
  /\ DOMAIN store \subseteq DOMAIN store'
  /\ \A id \in DOMAIN store : Advances(store'[id], store[id])

Spec == [][Commit]_store
=============================================================================
