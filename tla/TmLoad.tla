------------------------------- MODULE TmLoad -------------------------------
(***************************************************************************)
(* Loading documents into the translation memory and bringing its schema   *)
(* up to date (src/lokit/db/operations.py: setup, reindex_placeholders,    *)
(* load, _flush_batch; the statements are those of queries.py).            *)
(*                                                                         *)
(* A load is one transaction at READ COMMITTED: a statement sees the       *)
(* committed rows and the load's own, and waits for a row that another     *)
(* transaction has changed.  One SQL statement is one step.  The columns   *)
(* of a row that no other statement looks at are its "by": the load and    *)
(* the position of the unit that wrote them.                               *)
(***************************************************************************)
EXTENDS Naturals, FiniteSets, SequencesExt

CONSTANTS
  Loaders,      \* the calls of load
  Documents,    \* the documents they may load: sequences of units
  Setups,       \* the calls of setup
  LegacyRows,   \* rows of an older version: a function of their ids
  Hash,         \* the hash of a context, of the two sources joined by '|'
  Bytes,        \* the payload of a unit
  BatchRows, BatchBytes,   \* batch_size and max_batch_bytes
  ReindexRows,  \* batch_size of reindex_placeholders
  NoTarget,     \* the target of a unit without one, NULL
  MaxFaults     \* bound: errors and crashes

ASSUME LimitsAssumption == ReindexRows \in Nat \ {0}

ASSUME DocumentsAssumption == \A doc \in Documents : doc \in Seq(DOMAIN Bytes)

\* A new row's id is the load that inserts it and the position of its unit.
ASSUME LegacyAssumption ==
  \A id \in DOMAIN LegacyRows :
    LET row == LegacyRows[id] IN
    /\ id \notin Loaders \X Nat /\ id[2] \in Nat
    /\ row \in [key : {row.key}, src : {row.src}, ctx : {row.ctx}, tgt : {row.tgt},
               usage : Nat, by : {id}, indexed : {FALSE}]

VARIABLES
  partitioned,  \* how the schema was set up
  version,      \* the schema version in _lokit_meta
  table,        \* the committed rows of translation_units
  kids,         \* the committed tags, parts and comments of each row
  load,         \* the loads
  setup,        \* the setups
  faults

vars == <<partitioned, version, table, kids, load, setup, faults>>

Empty == [x \in {} |-> x]
CURRENT_VERSION == 2

-----------------------------------------------------------------------------
(* Units and rows *)

SameText(a, b) == a.src = b.src /\ Hash[a.ctx] = Hash[b.ctx]

\* Equality under uq_translation_units_dedup: NULLs differ.
SameDedupKey(a, b) == a.tgt # NoTarget /\ a.tgt = b.tgt /\ SameText(a, b)

\* The join of the two statements about untranslated units
SameUntranslated(a, b) == a.tgt = NoTarget /\ b.tgt = NoTarget /\ a.key = b.key /\ SameText(a, b)

\* The older version kept one row for one unit, too.
ASSUME LegacyKeysAssumption ==
  \A a, b \in DOMAIN LegacyRows : a # b =>
    ~SameDedupKey(LegacyRows[a], LegacyRows[b]) /\ ~SameUntranslated(LegacyRows[a], LegacyRows[b])

Row(unit, usage, by) == [key |-> unit.key, src |-> unit.src, ctx |-> unit.ctx, tgt |-> unit.tgt,
                         usage |-> usage, by |-> by, indexed |-> TRUE]

\* mutant: EXCLUDED.usage_count alone
OverwrittenResets(old, unit, by) == Row(unit, 0, by)

\* EXCLUDED overwrites an existing row; the untranslated update keeps its key,
\* which is the same.
Overwritten(old, unit, by) == Row(unit, old.usage + 1, by)

-----------------------------------------------------------------------------
(* Batches *)

PayloadOf(units) == FoldLeft(LAMBDA sum, u : sum + Bytes[u], 0, units)

Fits(units) == Len(units) <= BatchRows /\ PayloadOf(units) <= BatchBytes

\* The empty batch always fits.
BatchLength(todo) == CHOOSE n \in 0..Len(todo) :
  /\ n > 0 => Fits(SubSeq(todo, 1, n))
  /\ n < Len(todo) => ~Fits(SubSeq(todo, 1, n + 1))

\* A unit larger than the limit is met before the batch ahead of it is yielded.
MeetsOversized(todo) ==
  LET n == BatchLength(todo) IN n < Len(todo) /\ Bytes[todo[n + 1]] > BatchBytes

\* mutant: without the target
SameSignatureAnyTarget(a, b) == a.src = b.src /\ a.ctx = b.ctx

\* The signature does not hold the key: the first of several keys wins.
SameSignature(a, b) == a.src = b.src /\ a.tgt = b.tgt /\ a.ctx = b.ctx

\* Positions 'from'+1 .. 'from'+n of the document, without later duplicates
DeduplicatedFrom(doc, from, n) ==
  {i \in from + 1..from + n : \A j \in from + 1..i - 1 : ~SameSignature(doc[i], doc[j])}

-----------------------------------------------------------------------------
(* Transactions *)

Idle == [pc |-> "start", doc |-> <<>>, read |-> 0, written |-> 0, staged |-> {},
         map |-> Empty, rows |-> Empty, gone |-> Empty, born |-> Empty]

Init ==
  /\ partitioned \in BOOLEAN
  /\ version \in {1, CURRENT_VERSION}
  /\ \E present \in SUBSET DOMAIN LegacyRows :
       /\ table = [id \in present |-> LegacyRows[id]]
       /\ kids = [id \in present |-> {LegacyRows[id].by}]
  /\ load \in [Loaders -> {[Idle EXCEPT !.doc = d] : d \in Documents}]
  /\ setup = [s \in Setups |-> [pc |-> "start", rows |-> {}, owed |-> {}]]
  /\ faults = 0

Open(l) == load[l].pc \notin {"start", "done", "failed"}
View(l) == [id \in DOMAIN load[l].rows \cup DOMAIN table |->
              IF id \in DOMAIN load[l].rows THEN load[l].rows[id] ELSE table[id]]
Unit(l, i) == load[l].doc[i]

LoadsHolding(ids) == {l \in Loaders : DOMAIN load[l].rows \cap ids # {}}
SetupsHolding(ids) == {s \in Setups : setup[s].rows \cap ids # {}}

Go(l, pc) == load' = [load EXCEPT ![l].pc = pc]
Goes(l, new) == load' = [load EXCEPT ![l] = new]
Rest == UNCHANGED <<partitioned, version, table, kids, setup, faults>>

\* mutant: the metadata is written only with a new partition
EnsurePartitionOnce(l) == TRUE

\* _ensure_partition writes the locale's key of _lokit_meta, and holds that row to
\* the end of the transaction; a flat schema has no such write.
EnsurePartition(l) == partitioned => \A m \in Loaders : ~Open(m)

Begin(l) ==
  /\ load[l].pc = "start"
  /\ version = CURRENT_VERSION
  /\ EnsurePartition(l)
  /\ Go(l, "next")
  /\ Rest

\* _iter_load_batches, _deduplicate_batch, then TRUNCATE and COPY
Stage(l) ==
  LET todo == SubSeq(load[l].doc, load[l].read + 1, Len(load[l].doc))
      n == BatchLength(todo)
  IN /\ load[l].pc = "next"
     /\ todo # <<>>
     /\ IF MeetsOversized(todo)
        THEN Goes(l, [Idle EXCEPT !.pc = "failed", !.doc = load[l].doc])
        ELSE Goes(l, [load[l] EXCEPT !.pc = "update", !.read = @ + n, !.map = Empty,
                                     !.staged = DeduplicatedFrom(load[l].doc, load[l].read, n)])
     /\ Rest

-----------------------------------------------------------------------------
(* The statements of _flush_batch *)

UntranslatedHits(l) == {id \in DOMAIN View(l) :
                          \E i \in load[l].staged : SameUntranslated(View(l)[id], Unit(l, i))}

\* What the next statement of a load has to lock
ConflictsWith(l, rows) == {id \in DOMAIN rows : \E i \in load[l].staged : SameDedupKey(rows[id], Unit(l, i))}
Needs(l) == CASE load[l].pc = "update" -> UntranslatedHits(l)
              [] load[l].pc = "upsert" -> ConflictsWith(l, View(l))
              [] OTHER -> {}

\* Rows that another load has inserted and not committed can be waited for as well,
\* as can the children it has deleted.
BlockingLoads(l) ==
  {m \in Loaders \ {l} :
     \/ m \in LoadsHolding(Needs(l))
     \/ load[l].pc = "upsert" /\ ConflictsWith(l, load[m].rows) # {}
     \/ /\ load[l].pc = "children"
        /\ \E i \in DOMAIN load[l].map : LET id == load[l].map[i] IN
             id \in DOMAIN load[m].gone /\ load[m].gone[id] # {}}
MayRun(l) == BlockingLoads(l) = {} /\ SetupsHolding(Needs(l)) = {}

UpdateExistingUntranslated(l) ==
  LET view == View(l)
      hits == UntranslatedHits(l)
      By(id) == CHOOSE i \in load[l].staged : SameUntranslated(view[id], Unit(l, i))
      new == [id \in hits |-> Overwritten(view[id], Unit(l, By(id)), <<l, By(id)>>)]
  IN /\ load[l].pc = "update"
     /\ MayRun(l)
     /\ Goes(l, [load[l] EXCEPT !.pc = "map",
          !.rows = [id \in hits \cup DOMAIN @ |-> IF id \in hits THEN new[id] ELSE @[id]]])
     /\ Rest

\* A row that was committed since the update is mapped too, and the newest of
\* several rows is one of them; the mapped units leave the stage.
MapExistingUntranslated(l) ==
  LET view == View(l)
      Matches(i) == {id \in DOMAIN view : SameUntranslated(view[id], Unit(l, i))}
      found == {i \in load[l].staged : Matches(i) # {}}
  IN /\ load[l].pc = "map"
     /\ \E map \in [found -> DOMAIN view] :
          /\ \A i \in found : map[i] \in Matches(i)
          /\ Goes(l, [load[l] EXCEPT !.pc = "upsert", !.map = map, !.staged = @ \ found])
     /\ Rest

\* ON CONFLICT DO UPDATE refuses to touch a row twice.
TouchesTwice(l) == \E i, j \in load[l].staged : i # j /\ SameDedupKey(Unit(l, i), Unit(l, j))

UpsertUnits(l) ==
  LET view == View(l)
      Existing(i) == {id \in DOMAIN view : SameDedupKey(view[id], Unit(l, i))}
      IdOf(i) == IF Existing(i) = {} THEN <<l, i>> ELSE CHOOSE id \in Existing(i) : TRUE
      Written(id) == CHOOSE i \in load[l].staged : IdOf(i) = id
      ids == {IdOf(i) : i \in load[l].staged}
      RowAt(id) == LET i == Written(id) IN
        IF id \in DOMAIN view THEN Overwritten(view[id], Unit(l, i), <<l, i>>)
        ELSE Row(Unit(l, i), 0, <<l, i>>)
  IN /\ load[l].pc = "upsert"
     /\ MayRun(l)
     /\ IF TouchesTwice(l)
        THEN Goes(l, [Idle EXCEPT !.pc = "failed", !.doc = load[l].doc])
        ELSE Goes(l, [load[l] EXCEPT !.pc = "map_loaded",
               !.rows = [id \in ids \cup DOMAIN @ |-> IF id \in ids THEN RowAt(id) ELSE @[id]]])
     /\ Rest

\* The row of a staged unit: its own insert, else the row it conflicted with
LoadedRow(l, i) ==
  IF <<l, i>> \in DOMAIN View(l) THEN <<l, i>>
  ELSE CHOOSE id \in DOMAIN View(l) : SameDedupKey(View(l)[id], Unit(l, i))

MapLoadedUnits(l) ==
  /\ load[l].pc = "map_loaded"
  /\ Goes(l, [load[l] EXCEPT !.pc = "children", !.staged = {},
       !.map = [i \in DOMAIN @ \cup load[l].staged |-> IF i \in DOMAIN @ THEN @[i] ELSE LoadedRow(l, i)]])
  /\ Rest

\* mutant: the children of an older load are not deleted
ReplaceChildrenKeeps(l) ==
  LET map == load[l].map
      ids == {map[i] : i \in DOMAIN map}
      Over(f, new) == [id \in ids \cup DOMAIN f |-> IF id \in ids THEN new[id] ELSE f[id]]
  IN /\ load[l].pc = "children"
     /\ MayRun(l)
     /\ Goes(l, [load[l] EXCEPT !.pc = "next", !.map = Empty,
          !.written = @ + Cardinality(DOMAIN map),
          !.gone = Over(@, [id \in ids |-> {}]),
          !.born = Over(@, [id \in ids |-> {<<l, i>> : i \in {j \in DOMAIN map : map[j] = id}}])])
     /\ Rest

\* DELETE_MAPPED_* and INSERT_*, then the count of mapped units
ReplaceChildren(l) ==
  LET map == load[l].map
      ids == {map[i] : i \in DOMAIN map}
      Committed(id) == IF id \in DOMAIN kids THEN kids[id] ELSE {}
      Over(f, new) == [id \in ids \cup DOMAIN f |-> IF id \in ids THEN new[id] ELSE f[id]]
  IN /\ load[l].pc = "children"
     /\ MayRun(l)
     /\ Goes(l, [load[l] EXCEPT !.pc = "next", !.map = Empty,
          !.written = @ + Cardinality(DOMAIN map),
          !.gone = Over(@, [id \in ids |-> Committed(id)]),
          !.born = Over(@, [id \in ids |-> {<<l, i>> : i \in {j \in DOMAIN map : map[j] = id}}])])
     /\ Rest

Commit(l) ==
  LET t == load[l] IN
  /\ t.pc = "next"
  /\ t.read = Len(t.doc)
  /\ table' = View(l)
  /\ kids' = [id \in DOMAIN table' |->
       LET old == IF id \in DOMAIN kids THEN kids[id] ELSE {}
       IN IF id \in DOMAIN t.born THEN (old \ t.gone[id]) \cup t.born[id] ELSE old]
  /\ Goes(l, [Idle EXCEPT !.pc = "done", !.doc = t.doc, !.read = t.read, !.written = t.written])
  /\ UNCHANGED <<partitioned, version, setup, faults>>

\* An error of the document, of a COPY or of the connection, or a cancellation:
\* the transaction is rolled back.
Fail(l) ==
  /\ Open(l)
  /\ faults < MaxFaults
  /\ faults' = faults + 1
  /\ Goes(l, [Idle EXCEPT !.pc = "failed", !.doc = load[l].doc])
  /\ UNCHANGED <<partitioned, version, table, kids, setup>>

\* The server ends one of two transactions that wait for each other.
BreakDeadlock(l) ==
  /\ \E m \in BlockingLoads(l) : l \in BlockingLoads(m)
  /\ Goes(l, [Idle EXCEPT !.pc = "failed", !.doc = load[l].doc])
  /\ Rest

-----------------------------------------------------------------------------
(* setup and reindex_placeholders *)

Stale == {id \in DOMAIN table : ~table[id].indexed}
SetupGoes(s, new) == setup' = [setup EXCEPT ![s] = new]

\* The DDL transaction: migrate, and remember what the reindexing owes.
Migrate(s) ==
  /\ setup[s].pc = "start"
  /\ version' = CURRENT_VERSION
  /\ SetupGoes(s, [setup[s] EXCEPT !.pc = "fetch", !.owed = Stale])
  /\ UNCHANGED <<partitioned, table, kids, load, faults>>

\* mutant: SKIP LOCKED
FirstStaleUnlocked(n) ==
  LET free == {id \in Stale : LoadsHolding({id}) = {} /\ SetupsHolding({id}) = {}}
  IN {id \in free : Cardinality({x \in free : x[2] < id[2]}) < n}

FirstStale(n) == {id \in Stale : Cardinality({x \in Stale : x[2] < id[2]}) < n}

\* FOR UPDATE waits for the rows; no row left ends the loop.  The indexes are
\* created in a last transaction.
FetchReindexBatch(s) ==
  LET found == FirstStale(ReindexRows) IN
  /\ setup[s].pc = "fetch"
  /\ LoadsHolding(found) = {} /\ SetupsHolding(found) = {}
  /\ SetupGoes(s, [setup[s] EXCEPT !.rows = found,
                                   !.pc = IF found = {} THEN "ready" ELSE "update"])
  /\ UNCHANGED <<partitioned, version, table, kids, load, faults>>

\* A prefix of the locked rows, at least one, is within the byte limit.
UpdateReindexBatch(s) ==
  /\ setup[s].pc = "update"
  /\ \E n \in 1..Cardinality(setup[s].rows) :
       LET ids == {id \in setup[s].rows : Cardinality({x \in setup[s].rows : x[2] < id[2]}) < n}
       IN table' = [id \in DOMAIN table |->
                      IF id \in ids THEN [table[id] EXCEPT !.indexed = TRUE] ELSE table[id]]
  /\ SetupGoes(s, [setup[s] EXCEPT !.pc = "fetch", !.rows = {}])
  /\ UNCHANGED <<partitioned, version, kids, load, faults>>

\* A crash of the process, or an error, and a new setup later
RestartSetup(s) ==
  /\ setup[s].pc \in {"fetch", "update"}
  /\ faults < MaxFaults
  /\ faults' = faults + 1
  /\ SetupGoes(s, [pc |-> "start", rows |-> {}, owed |-> {}])
  /\ UNCHANGED <<partitioned, version, table, kids, load>>

\* A client of the older version loads a unit; the default of the new column makes
\* its row visibly stale.
LegacyInsert(id) ==
  /\ id \notin DOMAIN table
  /\ partitioned => \A m \in Loaders : ~Open(m)
  /\ \A rows \in {table} \cup {load[m].rows : m \in Loaders} : \A x \in DOMAIN rows :
       ~SameUntranslated(rows[x], LegacyRows[id]) /\ ~SameDedupKey(rows[x], LegacyRows[id])
  /\ table' = [x \in DOMAIN table \cup {id} |-> IF x = id THEN LegacyRows[id] ELSE table[x]]
  /\ kids' = [x \in DOMAIN table \cup {id} |-> IF x = id THEN {LegacyRows[id].by} ELSE kids[x]]
  /\ UNCHANGED <<partitioned, version, load, setup, faults>>

Statement(l) ==
  \/ UpdateExistingUntranslated(l) \/ MapExistingUntranslated(l) \/ UpsertUnits(l)
  \/ MapLoadedUnits(l) \/ ReplaceChildren(l)
LoadStep(l) == Begin(l) \/ Stage(l) \/ Statement(l) \/ Commit(l) \/ BreakDeadlock(l)
SetupStep(s) == Migrate(s) \/ FetchReindexBatch(s) \/ UpdateReindexBatch(s)

Finished ==
  /\ \A l \in Loaders : load[l].pc \in {"done", "failed"}
  /\ \A s \in Setups : setup[s].pc = "ready"

Next ==
  \/ \E l \in Loaders : LoadStep(l) \/ Fail(l)
  \/ \E s \in Setups : SetupStep(s) \/ RestartSetup(s)
  \/ \E id \in DOMAIN LegacyRows : LegacyInsert(id)
  \/ Finished /\ UNCHANGED vars

Spec == Init /\ [][Next]_vars

-----------------------------------------------------------------------------
(* Properties *)

\* The unique constraint does not cover rows without a target: that there are no two
\* of them for one unit rests, between concurrent loads of a locale, on the row of
\* _lokit_meta each of them writes first (_ensure_partition).
OneRowPerUnit ==
  partitioned => \A a, b \in DOMAIN table : a # b =>
    ~SameUntranslated(table[a], table[b]) /\ ~SameDedupKey(table[a], table[b])

\* The tags, parts and comments of a row are those of the unit that wrote the row
\* last, whichever loads overlap: placeholders of one text never go with another's.
KidsMatchRow ==
  \A id \in DOMAIN table :
    partitioned \/ table[id].tgt # NoTarget => kids[id] = {table[id].by}

\* A load that returns has read its whole document, every unit of it has a row,
\* and it does not count more units as written than it read.
LoadIsComplete ==
  \A l \in Loaders : load[l].pc = "done" =>
    /\ load[l].read = Len(load[l].doc) /\ load[l].written <= load[l].read
    /\ \A i \in 1..Len(load[l].doc) : \E id \in DOMAIN table :
         SameText(table[id], Unit(l, i)) /\ table[id].tgt = Unit(l, i).tgt

\* When setup returns, every row that the older version left has its match text,
\* whatever crashed in between and whichever loads held its rows.
ReindexIsComplete ==
  \A s \in Setups : setup[s].pc = "ready" => \A id \in setup[s].owed : table[id].indexed

\* What readers rely on between two queries (TmStore): a row stands for one unit
\* for good, none vanishes, and a load only moves rows up.
Store == INSTANCE TmStore WITH
  store <- [id \in DOMAIN table |->
    [unit |-> <<table[id].src, Hash[table[id].ctx], table[id].tgt>>,
     usage |-> table[id].usage, indexed |-> table[id].indexed]]
RefinesTmStore == Store!Spec
=============================================================================
