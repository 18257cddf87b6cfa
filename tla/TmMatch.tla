------------------------------ MODULE TmMatch ------------------------------
(***************************************************************************)
(* Matching a text against the translation memory (src/lokit/db/           *)
(* operations.py, match and what it calls; the three queries of            *)
(* queries.py).  A match reads pages of rows in up to three scans: rows    *)
(* with the same text and context, with the same text, and similar ones.   *)
(* Each page is a statement of its own, and loads commit in between; what  *)
(* they may do to the rows is TmStore.                                     *)
(***************************************************************************)
EXTENDS Integers, FiniteSets, SequencesExt

CONSTANTS
  Candidates,   \* rows with the query's locales and placeholders: their ids, numbers
  Equal, Context, Applies,  \* sets: same text, same context, translation usable
  Score,        \* the similarity of a row, of those in Equal the highest one there is
  Threshold,
  MatchLimit,
  FallbackFloor, FallbackCeiling, PageCeiling,  \* 16, 1000 and 512
  MaxCommits    \* bound: the commits during a call

VARIABLES
  store,        \* the committed and indexed rows: id -> usage and update stamp
  match         \* the call

vars == <<store, match>>

\* The database compares ids and similarities as numbers, and the limit is checked.
ASSUME InputsAssumption ==
  /\ Candidates \subseteq Int /\ IsFiniteSet(Candidates)
  /\ Score \in [Candidates -> Int] /\ Threshold \in Int
  /\ \A a \in Candidates \cap Equal, b \in Candidates : Score[b] <= Score[a]
  /\ MatchLimit \in Nat \ {0} /\ PageCeiling \in Nat \ {0}
  /\ FallbackFloor \in Nat /\ FallbackCeiling \in Nat

Least(a, b) == IF a < b THEN a ELSE b
Most(a, b) == IF a > b THEN a ELSE b

\* A set as a sequence, in a strict total order
Sorted(S, Before(_, _)) ==
  [n \in 1..Cardinality(S) |-> CHOOSE x \in S : Cardinality({y \in S : Before(y, x)}) = n - 1]

CandidateLimit == MatchLimit + Least(Most(MatchLimit * 3, FallbackFloor), FallbackCeiling)
PageSize == Least(CandidateLimit, PageCeiling)

-----------------------------------------------------------------------------
(* The three queries *)

InScan(scan, id) ==
  CASE scan = "ice" -> id \in Equal \cap Context
    [] scan = "exact" -> id \in Equal /\ ~(match.require_context /\ id \in Context)
    [] scan = "fuzzy" -> id \notin Equal /\ Score[id] >= Threshold

\* The ordering of the pages; the similarity counts in the last scan only.
Rank(rows, id) == <<Score[id], rows[id].usage, rows[id].updated, id>>
Below(a, b) == \E n \in 1..4 : a[n] < b[n] /\ \A m \in 1..n - 1 : a[m] = b[m]

\* mutant: the last key of the cursor is not compared
AfterCursorByStamp(id) ==
  match.after # <<>> => Below([Rank(store, id) EXCEPT ![4] = 0], [match.after EXCEPT ![4] = 0])

AfterCursor(id) == match.after # <<>> => Below(Rank(store, id), match.after)

\* One page, by the query of the scan
Page(scan) ==
  LET found == {id \in DOMAIN store : InScan(scan, id) /\ AfterCursor(id)}
      Before(a, b) == Below(Rank(store, b), Rank(store, a))
      ordered == Sorted(found, Before)
  IN SubSeq(ordered, 1, Least(PageSize, Len(ordered)))

-----------------------------------------------------------------------------
(* What is retained *)

Full(safe) == Len(safe) >= MatchLimit

\* The rows of a page that are usable, or those that are not, in its order
Picked(page, usable) ==
  LET Before(i, j) == i < j
      at == Sorted({n \in DOMAIN page : page[n] \in Applies <=> usable}, Before)
  IN [n \in DOMAIN at |-> page[at[n]]]

\* _BoundedMatchResults.add
Retain(seq, page, usable, bound) ==
  LET new == Picked(page, usable)
  IN seq \o SubSeq(new, 1, Least(Len(new), Most(0, bound - Len(seq))))

\* _BoundedMatchResults.finish: usable ones first, then by score
Finish(safe, fallback) ==
  LET Better(a, b) == \/ a \in Applies /\ b \notin Applies
                      \/ (a \in Applies <=> b \in Applies) /\ Score[a] > Score[b]
      all == safe \o fallback
      Before(i, j) == Better(all[i], all[j]) \/ (~Better(all[j], all[i]) /\ i < j)
      order == Sorted(DOMAIN all, Before)
      sorted == [n \in DOMAIN order |-> all[order[n]]]
  IN SubSeq(sorted, 1, Least(MatchLimit, Len(sorted)))

-----------------------------------------------------------------------------
(* The call *)

Idle == [pc |-> "start", scan |-> "ice", require_context |-> FALSE, after |-> <<>>,
         safe |-> <<>>, fallback |-> <<>>, result |-> <<>>, moved |-> {}, commits |-> 0]

Init ==
  /\ \E ids \in SUBSET Candidates : store \in [ids -> [usage : 0..1, updated : {0}]]
  /\ match = Idle

\* _match_results_on_connection, up to the first scan
Call ==
  /\ match.pc = "start"
  /\ \E context \in BOOLEAN :
       match' = [Idle EXCEPT !.pc = "scan", !.require_context = context,
                             !.scan = IF context THEN "ice" ELSE "exact"]
  /\ UNCHANGED store

\* An empty or a short page, or enough usable rows, ends a scan, and the call with it
\* after the last one or with enough rows.
ReadPage ==
  LET page == Page(match.scan)
      safe == Retain(match.safe, page, TRUE, MatchLimit)
      fallback == Retain(match.fallback, page, FALSE, CandidateLimit)
      scan_ends == Full(safe) \/ Len(page) < PageSize
      ends == Full(safe) \/ (scan_ends /\ match.scan = "fuzzy")
  IN /\ match.pc = "scan"
     /\ match' = [match EXCEPT
          !.safe = safe, !.fallback = fallback,
          !.after = IF scan_ends THEN <<>> ELSE Rank(store, Last(page)),
          !.scan = IF scan_ends THEN (IF @ = "ice" THEN "exact" ELSE "fuzzy") ELSE @,
          !.pc = IF ends THEN "done" ELSE "scan",
          !.result = IF ends THEN Finish(safe, fallback) ELSE <<>>]
     /\ UNCHANGED store

\* A load commits, or an old row is indexed: a row appears, or has one more use and
\* the start time of the load, which may lie before another's.
LoadCommits ==
  /\ match.pc = "scan"
  /\ match.commits < MaxCommits
  /\ \E id \in Candidates, stamp \in 0..1 :
       /\ store' = [x \in DOMAIN store \cup {id} |->
            IF x # id THEN store[x]
            ELSE [usage |-> IF id \in DOMAIN store THEN store[id].usage + 1 ELSE 0, updated |-> stamp]]
       /\ match' = [match EXCEPT !.moved = @ \cup {id}, !.commits = @ + 1]

Next == Call \/ ReadPage \/ LoadCommits

Spec == Init /\ [][Next]_vars

-----------------------------------------------------------------------------
(* Properties *)

Done == match.pc = "done"

Matching(id) == id \in Equal \/ Score[id] >= Threshold

\* The order a caller expects: usable ones, then the scans, then the pages.
Expected(context, rows) ==
  LET Level(id) == <<IF id \in Applies THEN 1 ELSE 0,
                     IF context /\ id \in Equal \cap Context THEN 1 ELSE 0,
                     IF id \in Equal THEN 1 ELSE 0>> \o Rank(rows, id)
      Better(a, b) == \E n \in 1..7 : Level(a)[n] > Level(b)[n] /\ \A m \in 1..n - 1 : Level(a)[m] = Level(b)[m]
      all == Sorted({id \in DOMAIN rows : Matching(id)}, Better)
  IN SubSeq(all, 1, Least(MatchLimit, Len(all)))

\* However the rows fall on scans and pages, a match that no commit overlaps returns
\* the 'MatchLimit' best rows of the memory, best first.
MatchIsTopK == Done /\ match.commits = 0 => match.result = Expected(match.require_context, store)

\* Whatever loads commit between the pages, no row is returned twice, and a row that
\* none of them touched is not skipped: a usable one is missing only if there are
\* enough others, and none is missing from a result that is not full.
PagingIsSound ==
  Done => LET result == match.result IN
    /\ IsInjective(result)
    /\ \A id \in DOMAIN store \ match.moved : Matching(id) /\ id \notin ToSet(result) =>
         Len(result) = MatchLimit /\ (id \in Applies => ToSet(result) \subseteq Applies)

\* A match gives the best rows of every class it promises, and none twice, as long as no
\* load changes the rows under its pages (db/operations.py, _match_results_on_connection).
MatchIsSound == MatchIsTopK /\ PagingIsSound
=============================================================================
