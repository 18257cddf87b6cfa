----------------------------- MODULE TmStream ------------------------------
(***************************************************************************)
(* Streaming the units of one pair of locales (src/lokit/db/operations.py, *)
(* TranslationMemoryStream): a server-side cursor on a connection of the   *)
(* reader pool, read in batches.  A stream belongs to one task; every      *)
(* await may fail or be cancelled, and the caller may go on after that or  *)
(* close the stream.                                                       *)
(***************************************************************************)
EXTENDS Naturals, FiniteSets, Sequences

CONSTANTS
  Streams,
  PoolSize,     \* connections of the reader pool
  Rows,         \* rows the query selects
  BatchSize,
  MaxFaults     \* bound: failures and cancellations

VARIABLES
  stream,
  held,         \* the streams whose connection has not been returned
  faults

vars == <<stream, held, faults>>

\* The batch size is checked by the constructor of the stream.
SizesAssumption == Rows \in Nat /\ BatchSize \in Nat \ {0}

New == [pc |-> "idle", closed |-> FALSE, context |-> FALSE, cursor |-> FALSE, aborted |-> FALSE,
        position |-> 0, rows |-> <<>>, pending |-> <<>>, delivered |-> <<>>, ended |-> FALSE,
        disturbed |-> FALSE, leaving |-> FALSE, spoiled |-> FALSE]

Init ==
  /\ stream = [s \in Streams |-> New]
  /\ held = {}
  /\ faults = 0

Goes(s, new) == stream' = [stream EXCEPT ![s] = new]
Quiet == UNCHANGED <<held, faults>>

\* __anext__, up to its first await
CallNext(s) ==
  LET t == stream[s] IN
  /\ t.pc = "idle" /\ ~t.ended
  /\ CASE t.closed -> Goes(s, [t EXCEPT !.ended = TRUE])
       [] ~t.closed /\ t.pending # <<>> ->
            Goes(s, [t EXCEPT !.pending = Tail(@), !.delivered = Append(@, Head(t.pending))])
       [] OTHER -> Goes(s, [t EXCEPT !.rows = <<>>, !.pc = IF t.cursor THEN "fetch" ELSE "connect"])
  /\ Quiet

\* _initialize: a second one, after a failed one, takes a new connection context.
Connect(s) ==
  /\ stream[s].pc = "connect"
  /\ Cardinality(held) < PoolSize
  /\ held' = held \cup {s}
  /\ Goes(s, [stream[s] EXCEPT !.context = TRUE, !.cursor = TRUE, !.pc = "execute"])
  /\ UNCHANGED faults

Execute(s) ==
  /\ stream[s].pc = "execute"
  /\ Goes(s, [stream[s] EXCEPT !.pc = "fetch"])
  /\ Quiet

\* mutant: the end forgets to close the stream
FetchForgetsClose(s) ==
  LET t == stream[s]
      n == IF Rows - t.position < BatchSize THEN Rows - t.position ELSE BatchSize
  IN /\ t.pc = "fetch"
     /\ IF t.aborted THEN Goes(s, [t EXCEPT !.pc = "idle"])
        ELSE IF n = 0 THEN Goes(s, [t EXCEPT !.closed = TRUE, !.pc = "idle", !.ended = TRUE])
        ELSE Goes(s, [t EXCEPT !.position = @ + n, !.rows = [i \in 1..n |-> t.position + i], !.pc = "children"])
     /\ Quiet

\* mutant: a short batch is taken for the end
FetchDropsShortBatch(s) ==
  LET t == stream[s] IN
  /\ t.pc = "fetch"
  /\ IF t.aborted THEN Goes(s, [t EXCEPT !.pc = "idle"])
     ELSE IF Rows - t.position < BatchSize
          THEN Goes(s, [t EXCEPT !.closed = TRUE, !.pc = "exit_cursor", !.leaving = TRUE])
     ELSE Goes(s, [t EXCEPT !.position = @ + BatchSize, !.pc = "children",
                            !.rows = [i \in 1..BatchSize |-> t.position + i]])
  /\ Quiet

\* Rows up to a batch; the cursor of an aborted transaction raises.
Fetch(s) ==
  LET t == stream[s]
      Left == Rows - t.position
      n == IF Left < BatchSize THEN Left ELSE BatchSize
      rows == [i \in 1..n |-> t.position + i]
  IN /\ t.pc = "fetch"
     /\ IF t.aborted THEN Goes(s, [t EXCEPT !.pc = "idle"])
        ELSE IF n = 0 THEN Goes(s, [t EXCEPT !.closed = TRUE, !.pc = "exit_cursor", !.leaving = TRUE])
        ELSE Goes(s, [t EXCEPT !.position = @ + n, !.rows = rows, !.pc = "children"])
     /\ Quiet

\* _children_for_units, then the batch is pending and its first unit is returned
Children(s) ==
  LET t == stream[s] IN
  /\ t.pc = "children"
  /\ IF t.aborted THEN Goes(s, [t EXCEPT !.pc = "idle", !.rows = <<>>])
     ELSE Goes(s, [t EXCEPT !.pc = "idle", !.rows = <<>>, !.pending = Tail(t.rows),
                            !.delivered = Append(@, Head(t.rows))])
  /\ Quiet

\* aclose, up to its first await
CallClose(s) ==
  LET t == stream[s] IN
  /\ t.pc = "idle" /\ ~t.closed
  /\ Goes(s, [t EXCEPT !.closed = TRUE, !.pc = IF t.cursor THEN "exit_cursor"
                                               ELSE IF t.context THEN "exit_connection" ELSE "idle"])
  /\ Quiet

ExitCursor(s) ==
  /\ stream[s].pc = "exit_cursor"
  /\ Goes(s, [stream[s] EXCEPT !.cursor = FALSE, !.pc = "exit_connection"])
  /\ Quiet

\* The end of __anext__'s own close is the end of the stream.
ExitConnection(s) ==
  LET t == stream[s] IN
  /\ t.pc = "exit_connection"
  /\ held' = held \ {s}
  /\ Goes(s, [t EXCEPT !.context = FALSE, !.pc = "idle", !.ended = t.leaving])
  /\ UNCHANGED faults

\* A failure or a cancellation at an await.  Before a connection was given the pool
\* keeps it; a cancelled statement may have aborted the transaction or not; an
\* exit of the connection context returns it all the same.
Disturb(s) ==
  LET t == stream[s] IN
  /\ t.pc # "idle" /\ faults < MaxFaults
  /\ faults' = faults + 1
  /\ \E aborts \in BOOLEAN :
       /\ t.pc \in {"connect", "exit_cursor", "exit_connection"} => ~aborts
       /\ held' = IF t.pc = "exit_connection" THEN held \ {s} ELSE held
       /\ Goes(s, [t EXCEPT !.pc = "idle", !.rows = <<>>, !.disturbed = TRUE,
                            !.spoiled = @ \/ t.pc = "exit_cursor", !.context = @ \/ t.pc = "connect", !.aborted = @ \/ aborts])

\* The rows a fetch took from the server before the cursor failed
PartialFetch(s) ==
  LET t == stream[s] IN
  /\ t.pc = "fetch" /\ ~t.aborted /\ faults < MaxFaults
  /\ t.position < Rows
  /\ faults' = faults + 1
  /\ \E aborts \in BOOLEAN :
       Goes(s, [t EXCEPT !.pc = "idle", !.position = @ + 1, !.disturbed = TRUE, !.aborted = aborts])
  /\ UNCHANGED held

Step(s) ==
  \/ CallNext(s) \/ Connect(s) \/ Execute(s) \/ Fetch(s) \/ Children(s)
  \/ CallClose(s) \/ ExitCursor(s) \/ ExitConnection(s)

Next == \E s \in Streams : Step(s) \/ Disturb(s) \/ PartialFetch(s)

Spec == Init /\ [][Next]_vars

-----------------------------------------------------------------------------
(* Properties *)

\* A closed stream holds no connection of the pool, unless its close failed or was
\* cancelled before it came to the connection; no failure of a call before it may leak one.
ConnectionReturned ==
  \A s \in Streams : stream[s].closed /\ stream[s].pc = "idle" /\ ~stream[s].spoiled => s \notin held

\* The caller of a stream none of whose calls failed gets, before the end, every row
\* of the cursor's snapshot, once and in order; after a failure rows may be missing,
\* but none comes twice or out of order.
CleanEndIsComplete ==
  \A s \in Streams : LET t == stream[s] IN
    /\ \A i, j \in DOMAIN t.delivered : i < j => t.delivered[i] < t.delivered[j]
    /\ t.ended /\ t.leaving /\ ~t.disturbed => t.delivered = [i \in 1..Rows |-> i]
=============================================================================
