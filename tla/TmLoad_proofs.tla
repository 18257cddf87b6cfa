--------------------------- MODULE TmLoad_proofs ---------------------------
(***************************************************************************)
(* Proofs about TmLoad, for any number of loads, setups, documents and     *)
(* older rows.                                                             *)
(***************************************************************************)
EXTENDS TmLoad, FiniteSetTheorems, WellFoundedInduction, TLAPS

-----------------------------------------------------------------------------
(* The inductive invariant: rows and their locks *)

Ids == (Loaders \X Nat) \cup DOMAIN LegacyRows

IsRow(row) ==
  row \in [key : {row.key}, src : {row.src}, ctx : {row.ctx}, tgt : {row.tgt},
           usage : Nat, by : {row.by}, indexed : BOOLEAN]

Phases == {"start", "next", "update", "map", "upsert", "map_loaded", "children", "done", "failed"}

LoadFields == {"pc", "doc", "read", "written", "staged", "map", "rows", "gone", "born"}

HasFields(t) == t = [field \in LoadFields |-> t[field]]

IsLoad(t) ==
  /\ HasFields(t)
  /\ t.pc \in Phases /\ t.doc \in Documents /\ t.read \in Nat /\ t.staged \subseteq Nat

IsSetup(s) == s \in [pc : {"start", "fetch", "update", "ready"}, rows : {s.rows}, owed : {s.owed}]

TypeOK ==
  /\ load = [l \in Loaders |-> load[l]]
  /\ \A l \in Loaders : IsLoad(load[l])
  /\ setup = [s \in Setups |-> setup[s]]
  /\ \A s \in Setups : IsSetup(setup[s])
  /\ \A id \in DOMAIN table : id \in Ids /\ IsRow(table[id])
  /\ \A l \in Loaders : \A id \in DOMAIN load[l].rows : IsRow(load[l].rows[id])

\* A transaction holds the rows it has changed, nobody else does.
Locks ==
  /\ \A l, m \in Loaders : l # m => DOMAIN load[l].rows \cap DOMAIN load[m].rows = {}
  /\ \A l \in Loaders, s \in Setups : DOMAIN load[l].rows \cap setup[s].rows = {}
  /\ \A s \in Setups : setup[s].rows \cup setup[s].owed \subseteq DOMAIN table
  /\ \A l \in Loaders : ~Open(l) => DOMAIN load[l].rows = {}

\* A load inserts a row for the position of a unit, once, and until it commits only
\* it knows the row.
Own(l, id) == id \in {l} \X Nat

Inserted(l) ==
  /\ \A id \in DOMAIN table : Own(l, id) => load[l].pc = "done"
  /\ \A id \in DOMAIN load[l].rows :
       \/ id \in DOMAIN table
       \/ /\ Own(l, id)
          /\ id[2] <= load[l].read
          /\ load[l].pc \in {"update", "map", "upsert"} => \A i \in load[l].staged : id[2] < i
  /\ \A i \in load[l].staged : i <= load[l].read

SameKeys(new, old) ==
  /\ new.src = old.src /\ Hash[new.ctx] = Hash[old.ctx] /\ new.tgt = old.tgt
  /\ new.tgt = NoTarget => new.key = old.key

\* What a load has made of a committed row is that row with more uses.
Moved(new, old) == SameKeys(new, old) /\ new.usage > old.usage /\ new.indexed

RowsMove ==
  \A l \in Loaders : \A id \in DOMAIN load[l].rows \cap DOMAIN table :
    Moved(load[l].rows[id], table[id])

Reindexed ==
  \A s \in Setups : setup[s].pc = "ready" => \A id \in setup[s].owed : table[id].indexed

RowsInv == TypeOK /\ Locks /\ (\A l \in Loaders : Inserted(l)) /\ RowsMove /\ Reindexed

-----------------------------------------------------------------------------
(* The inductive invariant: one row for one unit *)

\* Two rows that may not be there together
Clash(a, b) == SameDedupKey(a, b) \/ (partitioned /\ SameUntranslated(a, b))

\* The rows somebody knows, as he knows them
Known ==
  {<<id, table[id]>> : id \in DOMAIN table}
    \cup UNION {{<<id, load[l].rows[id]>> : id \in DOMAIN load[l].rows} : l \in Loaders}

\* _ensure_partition lets one load of a locale in.
Alone == partitioned => \A l, m \in Loaders : l # m => ~(Open(l) /\ Open(m))

NoClash == \A p, q \in Known : p[1] # q[1] => ~Clash(p[2], q[2])

\* What is staged was deduplicated; what is still staged when rows are inserted has no
\* untranslated row.
Staged(l) ==
  /\ load[l].pc \in {"update", "map", "upsert", "map_loaded"} =>
       /\ load[l].staged \subseteq DOMAIN load[l].doc
       /\ \A i, j \in load[l].staged : i # j => ~SameSignature(Unit(l, i), Unit(l, j))
  /\ load[l].pc = "upsert" /\ partitioned =>
       \A i \in load[l].staged, id \in DOMAIN View(l) : ~SameUntranslated(View(l)[id], Unit(l, i))

\* Untranslated units of one document whose contexts differ have different hashes: the
\* database takes two that collide for one, deduplication does not.
NoCollision ==
  \A doc \in Documents : \A i, j \in DOMAIN doc :
    SameUntranslated(doc[i], doc[j]) => doc[i].ctx = doc[j].ctx

UniqueInv == Alone /\ NoClash /\ \A l \in Loaders : Staged(l)

-----------------------------------------------------------------------------
(* The inductive invariant: the children of the rows *)

\* The rows KidsMatchRow is about
Tracked(row) == partitioned \/ row.tgt # NoTarget

\* The children of a row that l has changed are replaced already.
Settled(l, id) ==
  LET t == load[l] IN
  /\ id \in DOMAIN t.born /\ id \in DOMAIN t.gone
  /\ t.born[id] = {t.rows[id].by}
  /\ t.gone[id] = IF id \in DOMAIN table THEN kids[id] ELSE {}

\* They will be: unit i of the batch at hand has written the row, and it is mapped to
\* it or will be.
Pending(l, id, i) ==
  LET t == load[l] IN
  /\ t.rows[id].by = <<l, i>>
  /\ \/ t.pc = "map" /\ i \in t.staged /\ SameUntranslated(t.rows[id], Unit(l, i))
     \/ t.pc \in {"upsert", "map_loaded", "children"} /\ i \in DOMAIN t.map /\ t.map[i] = id
     \/ /\ t.pc = "map_loaded" /\ i \in t.staged
        /\ id = <<l, i>> \/ (<<l, i>> \notin DOMAIN t.rows /\ SameDedupKey(t.rows[id], Unit(l, i)))

RowTracked(l) ==
  \A id \in DOMAIN load[l].rows :
    Tracked(load[l].rows[id]) => Settled(l, id) \/ \E i : Pending(l, id, i)

\* A unit is mapped to the row it has written, or to one KidsMatchRow is not about.
Mapped(l) ==
  LET t == load[l] IN
  t.pc \in {"upsert", "map_loaded", "children"} =>
    \A i \in DOMAIN t.map :
      /\ i \notin t.staged
      /\ \/ t.map[i] \in DOMAIN t.rows /\ t.rows[t.map[i]].by = <<l, i>>
         \/ t.map[i] \in DOMAIN View(l) /\ ~Tracked(View(l)[t.map[i]])
      /\ t.pc = "upsert" => t.map[i] \in DOMAIN View(l) /\ View(l)[t.map[i]].tgt = NoTarget

\* What the mapping will find is what the statement before it wrote.
Hits(l) ==
  LET t == load[l] IN
  /\ t.pc = "map" /\ partitioned =>
       \A id \in DOMAIN View(l), i \in t.staged :
         SameUntranslated(View(l)[id], Unit(l, i)) => id \in DOMAIN t.rows /\ t.rows[id].by = <<l, i>>
  /\ t.pc = "map_loaded" => \A i \in t.staged : \E id \in DOMAIN t.rows : Pending(l, id, i)

\* l leaves the children of tracked rows alone unless it has locked the row.
Born(l) ==
  \A id \in DOMAIN load[l].born \ DOMAIN load[l].rows : id \in DOMAIN table /\ ~Tracked(table[id])

LoadKids(l) == RowTracked(l) /\ Mapped(l) /\ Hits(l) /\ Born(l)

KidsInv ==
  /\ DOMAIN kids = DOMAIN table
  /\ KidsMatchRow
  /\ \A l \in Loaders : LoadKids(l)

-----------------------------------------------------------------------------
(* The inductive invariant: what a load has done so far *)

Stands(row, unit) == SameText(row, unit) /\ row.tgt = unit.tgt

\* Every unit that was read has a row, or one like it is staged to get one.
Covered(l) ==
  \A i \in 1..load[l].read :
    \/ \E id \in DOMAIN View(l) : Stands(View(l)[id], Unit(l, i))
    \/ /\ load[l].pc \in {"update", "map", "upsert"}
       /\ \E j \in load[l].staged : SameSignature(Unit(l, j), Unit(l, i))

\* The units at hand were read since the last count.
Counted(l) ==
  LET t == load[l] IN
  /\ t.written \in Nat /\ t.written <= t.read /\ t.read <= Len(t.doc)
  /\ \A i \in t.staged \cup DOMAIN t.map : i \in Nat /\ t.written < i /\ i <= t.read
  /\ t.pc \notin {"update", "map", "upsert", "map_loaded"} => t.staged = {}
  /\ t.pc \notin {"upsert", "map_loaded", "children"} => DOMAIN t.map = {}
  /\ t.pc = "done" => t.read = Len(t.doc)

CompleteInv == \A l \in Loaders : Covered(l) /\ Counted(l)

-----------------------------------------------------------------------------
(* Properties without time *)

\* Every set of naturals but the empty one has a least element.
LEMMA Least ==
  ASSUME NEW T, T \subseteq Nat, T # {}
  PROVE  \E x \in T : \A y \in T : x <= y
<1>1. PICK x \in T : \A y \in T : <<y, x>> \notin OpToRel(<, Nat)
  <2>1. IsWellFoundedOn(OpToRel(<, Nat), Nat)
    BY NatLessThanWellFounded
  <2> QED BY <2>1, WFMin, Zenon
<1>2. \A y \in T : ~(y < x)
  BY <1>1 DEF OpToRel
<1> QED BY <1>2

\* There always is a batch: the longest beginning of what is left to read that fits.
LEMMA BatchLengthType ==
  ASSUME NEW todo, Len(todo) \in Nat
  PROVE  BatchLength(todo) \in 0..Len(todo)
<1> DEFINE Ends == {n \in 0..Len(todo) : n < Len(todo) => ~Fits(SubSeq(todo, 1, n + 1))}
<1>1. Ends \subseteq Nat /\ Len(todo) \in Ends
  OBVIOUS
<1>2. PICK n \in Ends : \A k \in Ends : n <= k
  <2> HIDE DEF Ends
  <2> QED BY <1>1, Least
<1>3. ASSUME n > 0, ~Fits(SubSeq(todo, 1, n)) PROVE FALSE
  <2>1. n - 1 \in 0..Len(todo) /\ (n - 1) + 1 = n
    BY <1>3
  <2>2. n - 1 \in Ends
    BY <1>3, <2>1
  <2>3. n <= n - 1
    BY <1>2, <2>2
  <2> QED BY <2>1, <2>3
<1> QED BY <1>2, <1>3 DEF BatchLength

\* A load sees the committed rows, and its own instead of those it has changed.
LEMMA ViewIs ==
  ASSUME NEW l \in Loaders
  PROVE  /\ DOMAIN View(l) = DOMAIN load[l].rows \cup DOMAIN table
         /\ \A id \in DOMAIN load[l].rows : View(l)[id] = load[l].rows[id]
         /\ \A id \in DOMAIN table \ DOMAIN load[l].rows : View(l)[id] = table[id]
BY DEF View

LEMMA ViewRows ==
  ASSUME RowsInv, NEW l \in Loaders, NEW id \in DOMAIN View(l)
  PROVE  IsRow(View(l)[id]) /\ id \in Ids
<1>1. CASE id \in DOMAIN table
  BY <1>1, ViewIs DEF RowsInv, TypeOK
<1>2. CASE id \in DOMAIN load[l].rows \ DOMAIN table
  <2>1. Own(l, id)
    BY <1>2 DEF RowsInv, Inserted
  <2> QED BY <1>2, <2>1, ViewIs DEF RowsInv, TypeOK, Own, Ids
<1> QED BY <1>1, <1>2, ViewIs

LEMMA OverwrittenIs ==
  ASSUME NEW old, IsRow(old), NEW unit, NEW by, old.src = unit.src, Hash[old.ctx] = Hash[unit.ctx],
         old.tgt = unit.tgt, old.tgt = NoTarget => old.key = unit.key
  PROVE  LET new == Overwritten(old, unit, by)
         IN Moved(new, old) /\ IsRow(new) /\ new.by = by /\ new.tgt = unit.tgt
BY DEF Overwritten, Row, IsRow, Moved, SameKeys

LEMMA MovedTwice ==
  ASSUME NEW a, NEW b, NEW c, IsRow(a), IsRow(b), IsRow(c), Moved(a, b), Moved(b, c)
  PROVE  Moved(a, c)
BY DEF Moved, SameKeys, IsRow

LEMMA NewRow ==
  ASSUME NEW unit, NEW by
  PROVE  /\ IsRow(Row(unit, 0, by)) /\ Row(unit, 0, by).indexed /\ Row(unit, 0, by).by = by
         /\ SameKeys(Row(unit, 0, by), unit)
BY DEF Row, IsRow, SameKeys

LEMMA IdleIs ==
  /\ HasFields(Idle)
  /\ Idle.pc = "start" /\ Idle.read = 0 /\ Idle.written = 0 /\ Idle.staged = {} /\ DOMAIN Idle.rows = {}
  /\ DOMAIN Idle.map = {} /\ DOMAIN Idle.gone = {} /\ DOMAIN Idle.born = {}
<1>1. HasFields(Idle)
  BY DEF HasFields, Idle, LoadFields
<1>2. Idle.pc = "start" /\ Idle.read = 0 /\ Idle.written = 0 /\ Idle.staged = {}
  BY DEF Idle
<1>3. DOMAIN Idle.rows = {} /\ DOMAIN Idle.map = {} /\ DOMAIN Idle.gone = {} /\ DOMAIN Idle.born = {}
  BY DEF Idle, Empty
<1> QED BY <1>1, <1>2, <1>3

\* What a step of one load has to show that leaves the tables and the setups alone.
LEMMA LoadGoes ==
  ASSUME RowsInv, NEW l \in Loaders, NEW t, Goes(l, t), UNCHANGED <<table, setup>>,
         IsLoad(t), load[l].pc # "done",
         t.pc \in {"start", "done", "failed"} => DOMAIN t.rows = {},
         \A i \in t.staged : i <= t.read,
         \A id \in DOMAIN t.rows :
           /\ IsRow(t.rows[id])
           /\ \A m \in Loaders \ {l} : id \notin DOMAIN load[m].rows
           /\ \A s \in Setups : id \notin setup[s].rows
           /\ \/ id \in DOMAIN table /\ Moved(t.rows[id], table[id])
              \/ /\ id \notin DOMAIN table
                 /\ Own(l, id) /\ id[2] <= t.read
                 /\ t.pc \in {"update", "map", "upsert"} => \A i \in t.staged : id[2] < i
  PROVE  RowsInv'
<1>1. load'[l] = t /\ \A m \in Loaders \ {l} : load'[m] = load[m]
  BY DEF Goes, RowsInv, TypeOK
<1>2. TypeOK'
  <2>1. load' = [m \in Loaders |-> load'[m]]
    BY DEF Goes, RowsInv, TypeOK
  <2> QED BY <1>1, <2>1 DEF RowsInv, TypeOK, Ids
<1>3. Locks'
  BY <1>1 DEF RowsInv, Locks, Open
<1>4. \A m \in Loaders : Inserted(m)'
  <2>1. Inserted(l)'
    BY <1>1 DEF RowsInv, Inserted, Own
  <2>2. ASSUME NEW m \in Loaders \ {l} PROVE Inserted(m)'
    BY <1>1 DEF RowsInv, Inserted, Own
  <2> QED BY <2>1, <2>2
<1>5. RowsMove' /\ Reindexed'
  BY <1>1 DEF RowsInv, RowsMove, Reindexed, Moved, SameKeys
<1> QED BY <1>2, <1>3, <1>4, <1>5 DEF RowsInv

\* ... that keeps its rows, and may stage a batch
LEMMA LoadKeepsRows ==
  ASSUME RowsInv, NEW l \in Loaders, NEW t, Goes(l, t), UNCHANGED <<table, setup>>,
         IsLoad(t), load[l].pc # "done", t.pc \notin {"start", "done", "failed"},
         t.rows = load[l].rows, t.read >= load[l].read,
         \A i \in t.staged : i <= t.read /\ (i > load[l].read \/ i \in load[l].staged),
         t.pc \in {"update", "map", "upsert"} =>
           t.staged \cap load[l].staged = {} \/ load[l].pc \in {"update", "map", "upsert"}
  PROVE  RowsInv'
<1>1. ASSUME NEW id \in DOMAIN t.rows
      PROVE  /\ IsRow(t.rows[id])
             /\ \A m \in Loaders \ {l} : id \notin DOMAIN load[m].rows
             /\ \A s \in Setups : id \notin setup[s].rows
             /\ \/ id \in DOMAIN table /\ Moved(t.rows[id], table[id])
                \/ /\ id \notin DOMAIN table
                   /\ Own(l, id) /\ id[2] <= t.read
                   /\ t.pc \in {"update", "map", "upsert"} => \A i \in t.staged : id[2] < i
  <2>1. IsRow(t.rows[id]) /\ (id \in DOMAIN table => Moved(t.rows[id], table[id]))
    BY DEF RowsInv, TypeOK, RowsMove
  <2>2. /\ \A m \in Loaders \ {l} : id \notin DOMAIN load[m].rows
        /\ \A s \in Setups : id \notin setup[s].rows
    BY DEF RowsInv, Locks
  <2>3. ASSUME id \notin DOMAIN table
        PROVE  /\ Own(l, id) /\ id[2] <= t.read
               /\ t.pc \in {"update", "map", "upsert"} => \A i \in t.staged : id[2] < i
    <3>1. /\ Own(l, id) /\ id[2] <= load[l].read
          /\ load[l].pc \in {"update", "map", "upsert"} => \A i \in load[l].staged : id[2] < i
      BY <2>3 DEF RowsInv, Inserted
    <3>2. id[2] \in Nat /\ t.read \in Nat /\ load[l].read \in Nat /\ t.staged \subseteq Nat
      BY <3>1 DEF Own, IsLoad, RowsInv, TypeOK
    <3> QED BY <3>1, <3>2
  <2> QED BY <2>1, <2>2, <2>3
<1> QED BY <1>1, LoadGoes

\* ... that ends it
LEMMA LoadEnds ==
  ASSUME RowsInv, NEW l \in Loaders, load[l].pc # "done",
         Goes(l, [Idle EXCEPT !.pc = "failed", !.doc = load[l].doc]), UNCHANGED <<table, setup>>
  PROVE  RowsInv'
<1> DEFINE t == [Idle EXCEPT !.pc = "failed", !.doc = load[l].doc]
<1>1. IsLoad(t) /\ t.pc = "failed" /\ DOMAIN t.rows = {} /\ t.staged = {}
  <2>1. load[l].doc \in Documents
    BY DEF RowsInv, TypeOK, IsLoad
  <2>2. HasFields(t)
    BY IdleIs DEF HasFields, LoadFields
  <2>3. /\ t.pc = "failed" /\ t.doc = load[l].doc /\ t.read = 0 /\ t.staged = {}
        /\ DOMAIN t.rows = {}
    BY IdleIs DEF HasFields, LoadFields
  <2> HIDE DEF t
  <2> QED BY <2>1, <2>2, <2>3 DEF IsLoad, Phases
<1>2. Goes(l, t)
  OBVIOUS
<1> HIDE DEF t
<1> QED BY <1>1, <1>2, LoadGoes

-----------------------------------------------------------------------------
(* RowsInv: each step *)

LEMMA RowsInit == Init => RowsInv
<1> SUFFICES ASSUME Init PROVE RowsInv
  OBVIOUS
<1>1. \A l \in Loaders : \E d \in Documents : load[l] = [Idle EXCEPT !.doc = d]
  <2>1. load \in [Loaders -> {[Idle EXCEPT !.doc = d] : d \in Documents}]
    BY DEF Init
  <2> QED BY <2>1
<1>2. \A l \in Loaders : load[l].pc = "start" /\ DOMAIN load[l].rows = {} /\ load[l].staged = {} /\ IsLoad(load[l])
  <2> SUFFICES ASSUME NEW l \in Loaders PROVE load[l].pc = "start" /\ DOMAIN load[l].rows = {} /\ load[l].staged = {} /\ IsLoad(load[l])
    OBVIOUS
  <2>1. PICK d \in Documents : load[l] = [Idle EXCEPT !.doc = d]
    BY <1>1
  <2> DEFINE t == [Idle EXCEPT !.doc = d]
  <2>2. HasFields(t)
    BY IdleIs DEF HasFields, LoadFields
  <2>3. t.pc = "start" /\ t.doc = d /\ t.read = 0 /\ t.staged = {} /\ DOMAIN t.rows = {}
    BY IdleIs DEF HasFields, LoadFields
  <2>4. IsLoad(t)
    BY <2>2, <2>3 DEF IsLoad, Phases
  <2> QED BY <2>1, <2>3, <2>4
<1>3. \A id \in DOMAIN table : id \in DOMAIN LegacyRows /\ table[id] = LegacyRows[id]
  BY DEF Init
<1>4. \A s \in Setups : setup[s] = [pc |-> "start", rows |-> {}, owed |-> {}]
  BY DEF Init
<1>5. \A id \in DOMAIN LegacyRows : IsRow(LegacyRows[id])
  BY LegacyAssumption DEF IsRow
<1>6. TypeOK
  <2>1. load = [l \in Loaders |-> load[l]] /\ setup = [s \in Setups |-> setup[s]]
    BY DEF Init
  <2> QED BY <2>1, <1>2, <1>3, <1>4, <1>5 DEF TypeOK, IsSetup, Ids
<1>7. Locks
  BY <1>2, <1>4 DEF Locks
<1>8. \A l \in Loaders : Inserted(l)
  <2>1. \A id \in DOMAIN table : id \notin Loaders \X Nat
    BY <1>3, LegacyAssumption
  <2> QED BY <1>2, <2>1 DEF Inserted, Own
<1>9. RowsMove /\ Reindexed
  BY <1>2, <1>4 DEF RowsMove, Reindexed
<1> QED BY <1>6, <1>7, <1>8, <1>9 DEF RowsInv

LEMMA RowsBegin ==
  ASSUME RowsInv, NEW l \in Loaders, Begin(l)
  PROVE  RowsInv'
<1> DEFINE t == [load[l] EXCEPT !.pc = "next"]
<1>1. load[l].pc = "start" /\ IsLoad(load[l]) /\ load[l].read \in Nat
  BY DEF Begin, RowsInv, TypeOK, IsLoad
<1>2. IsLoad(t) /\ t.pc = "next" /\ t.rows = load[l].rows /\ t.read = load[l].read /\ t.staged = load[l].staged
  BY <1>1 DEF IsLoad, HasFields, LoadFields, Phases
<1>3. Goes(l, t) /\ UNCHANGED <<table, setup>>
  BY DEF Begin, Go, Goes, Rest
<1>4. \A i \in t.staged : i <= t.read
  BY <1>2 DEF RowsInv, Inserted
<1> HIDE DEF t
<1> QED BY <1>1, <1>2, <1>3, <1>4, LoadKeepsRows

LEMMA RowsStage ==
  ASSUME RowsInv, NEW l \in Loaders, Stage(l)
  PROVE  RowsInv'
<1> DEFINE todo == SubSeq(load[l].doc, load[l].read + 1, Len(load[l].doc))
           n == BatchLength(todo)
           t == [load[l] EXCEPT !.pc = "update", !.read = @ + n, !.map = Empty,
                                !.staged = DeduplicatedFrom(load[l].doc, load[l].read, n)]
<1>1. load[l].pc = "next" /\ UNCHANGED <<table, setup>> /\ IsLoad(load[l])
  BY DEF Stage, Rest, RowsInv, TypeOK
<1>2. load[l].read \in Nat /\ load[l].doc \in Seq(DOMAIN Bytes)
  BY <1>1, DocumentsAssumption DEF IsLoad, HasFields, LoadFields
<1>3. n \in Nat
  <2>1. Len(todo) \in Nat
    BY <1>2
  <2> HIDE DEF todo
  <2> QED BY <2>1, BatchLengthType
<1>4. CASE Goes(l, t)
  <2> HIDE DEF n
  <2>1. \A i \in t.staged : i \in Nat /\ i > load[l].read /\ i <= load[l].read + n
    BY <1>1, <1>2, <1>3 DEF DeduplicatedFrom, IsLoad
  <2>2. IsLoad(t) /\ t.pc = "update" /\ t.rows = load[l].rows /\ t.read = load[l].read + n
    <3>1. HasFields(t)
      BY <1>1 DEF IsLoad, HasFields, LoadFields
    <3>2. /\ t.pc = "update" /\ t.rows = load[l].rows /\ t.doc = load[l].doc
          /\ t.read = load[l].read + n
      BY <1>1 DEF IsLoad, HasFields, LoadFields
    <3> HIDE DEF t
    <3> QED BY <1>1, <1>2, <1>3, <2>1, <3>1, <3>2 DEF IsLoad, Phases
  <2> HIDE DEF t
  <2>3. t.staged \cap load[l].staged = {}
    BY <1>2, <2>1 DEF RowsInv, Inserted, TypeOK, IsLoad
  <2> QED BY <1>1, <1>2, <1>3, <1>4, <2>1, <2>2, <2>3, LoadKeepsRows
<1>5. CASE Goes(l, [Idle EXCEPT !.pc = "failed", !.doc = load[l].doc])
  BY <1>1, <1>5, LoadEnds
<1> QED BY <1>4, <1>5 DEF Stage

\* A statement that may run locks rows that nobody else holds.
LEMMA MayLock ==
  ASSUME NEW l \in Loaders, MayRun(l), NEW id \in Needs(l)
  PROVE  /\ \A m \in Loaders \ {l} : id \notin DOMAIN load[m].rows
         /\ \A s \in Setups : id \notin setup[s].rows
BY DEF MayRun, BlockingLoads, LoadsHolding, SetupsHolding

\* ... and writes them, or inserts rows of its own.
LEMMA LoadWrites ==
  ASSUME RowsInv, NEW l \in Loaders, NEW t, Goes(l, t), UNCHANGED <<table, setup>>, IsLoad(t),
         load[l].pc \in {"update", "upsert"}, MayRun(l), t.pc \in {"map", "map_loaded"},
         t.read = load[l].read, t.staged = load[l].staged,
         NEW ids, DOMAIN t.rows = ids \cup DOMAIN load[l].rows,
         \A id \in DOMAIN load[l].rows \ ids : t.rows[id] = load[l].rows[id],
         \A id \in ids :
           /\ IsRow(t.rows[id])
           /\ \/ /\ id \in Needs(l) /\ id \in DOMAIN View(l)
                 /\ Moved(t.rows[id], View(l)[id])
              \/ /\ t.pc = "map_loaded"
                 /\ id \notin DOMAIN View(l) /\ \E i \in load[l].staged : id = <<l, i>>
  PROVE  RowsInv'
<1>1. ASSUME NEW id \in DOMAIN load[l].rows
      PROVE  /\ IsRow(load[l].rows[id])
             /\ \A m \in Loaders \ {l} : id \notin DOMAIN load[m].rows
             /\ \A s \in Setups : id \notin setup[s].rows
             /\ \/ id \in DOMAIN table /\ Moved(load[l].rows[id], table[id])
                \/ /\ id \notin DOMAIN table
                   /\ Own(l, id) /\ id[2] <= t.read
                   /\ t.pc \in {"update", "map", "upsert"} => \A i \in t.staged : id[2] < i
  BY DEF RowsInv, TypeOK, Locks, Inserted, RowsMove
<1>2. ASSUME NEW id \in ids
      PROVE  /\ \A m \in Loaders \ {l} : id \notin DOMAIN load[m].rows
             /\ \A s \in Setups : id \notin setup[s].rows
             /\ \/ id \in DOMAIN table /\ Moved(t.rows[id], table[id])
                \/ /\ id \notin DOMAIN table
                   /\ Own(l, id) /\ id[2] <= t.read
                   /\ t.pc \in {"update", "map", "upsert"} => \A i \in t.staged : id[2] < i
  <2>1. CASE id \in Needs(l) /\ id \in DOMAIN View(l) /\ Moved(t.rows[id], View(l)[id])
    <3>1. /\ \A m \in Loaders \ {l} : id \notin DOMAIN load[m].rows
          /\ \A s \in Setups : id \notin setup[s].rows
      BY <2>1, MayLock
    <3>2. CASE id \in DOMAIN load[l].rows /\ id \in DOMAIN table
      <4>1. View(l)[id] = load[l].rows[id] /\ Moved(load[l].rows[id], table[id])
        BY <3>2, ViewIs DEF RowsInv, RowsMove
      <4>2. IsRow(t.rows[id]) /\ IsRow(load[l].rows[id]) /\ IsRow(table[id])
        BY <1>2, <3>2 DEF RowsInv, TypeOK
      <4> QED BY <2>1, <3>1, <3>2, <4>1, <4>2, MovedTwice
    <3>3. CASE id \in DOMAIN load[l].rows /\ id \notin DOMAIN table
      BY <1>1, <3>1, <3>3
    <3>4. CASE id \notin DOMAIN load[l].rows
      BY <2>1, <3>1, <3>4, ViewIs
    <3> QED BY <3>2, <3>3, <3>4
  <2>2. CASE t.pc = "map_loaded" /\ id \notin DOMAIN View(l) /\ \E i \in load[l].staged : id = <<l, i>>
    <3>1. PICK i \in load[l].staged : id = <<l, i>>
      BY <2>2
    <3>2. i \in Nat /\ i <= load[l].read /\ id \notin DOMAIN table
      BY <2>2, ViewIs DEF RowsInv, TypeOK, IsLoad, Inserted
    <3>3. \A m \in Loaders \ {l} : id \notin DOMAIN load[m].rows
      <4>1. \A m \in Loaders \ {l} : ~Own(m, id)
        BY <3>1 DEF Own
      <4> QED BY <3>2, <4>1 DEF RowsInv, Inserted
    <3>4. \A s \in Setups : id \notin setup[s].rows
      BY <3>2 DEF RowsInv, Locks
    <3>5. Own(l, id) /\ id[2] <= t.read
      BY <3>1, <3>2 DEF Own
    <3> QED BY <2>2, <3>2, <3>3, <3>4, <3>5
  <2> QED BY <1>2, <2>1, <2>2
<1>3. \A i \in t.staged : i <= t.read
  BY DEF RowsInv, Inserted
<1> QED BY <1>1, <1>2, <1>3, LoadGoes

LEMMA RowsUpdate ==
  ASSUME RowsInv, NEW l \in Loaders, UpdateExistingUntranslated(l)
  PROVE  RowsInv'
<1> DEFINE hits == UntranslatedHits(l)
           By(id) == CHOOSE i \in load[l].staged : SameUntranslated(View(l)[id], Unit(l, i))
           new == [id \in hits |-> Overwritten(View(l)[id], Unit(l, By(id)), <<l, By(id)>>)]
           rows == [id \in hits \cup DOMAIN load[l].rows |-> IF id \in hits THEN new[id] ELSE load[l].rows[id]]
           t == [load[l] EXCEPT !.pc = "map", !.rows = rows]
<1>1. load[l].pc = "update" /\ UNCHANGED <<table, setup>> /\ IsLoad(load[l]) /\ MayRun(l) /\ Needs(l) = hits
  BY DEF UpdateExistingUntranslated, Rest, RowsInv, TypeOK, Needs
<1>2. Goes(l, t)
  <2>1. IsLoad(load[l])
    BY <1>1
  <2> QED BY <2>1 DEF UpdateExistingUntranslated, IsLoad, HasFields, LoadFields
<1>3. hits \subseteq DOMAIN View(l)
  BY DEF UntranslatedHits
<1>4. ASSUME NEW id \in hits PROVE IsRow(rows[id]) /\ Moved(rows[id], View(l)[id])
  <2>1. By(id) \in load[l].staged /\ SameUntranslated(View(l)[id], Unit(l, By(id)))
    BY <1>4 DEF UntranslatedHits
  <2>2. IsRow(View(l)[id])
    BY <1>3, <1>4, ViewRows
  <2>3. rows[id] = Overwritten(View(l)[id], Unit(l, By(id)), <<l, By(id)>>)
    BY <1>4
  <2> HIDE DEF By, rows
  <2> QED BY <2>1, <2>2, <2>3, OverwrittenIs DEF SameUntranslated, SameText
<1>5. DOMAIN rows = hits \cup DOMAIN load[l].rows /\ \A id \in DOMAIN load[l].rows \ hits : rows[id] = load[l].rows[id]
  OBVIOUS
<1> HIDE DEF rows, new, By
<1>6. /\ IsLoad(t) /\ t.pc = "map" /\ t.rows = rows
      /\ t.read = load[l].read /\ t.staged = load[l].staged
  <2>1. HasFields(t)
    BY <1>1 DEF IsLoad, HasFields, LoadFields
  <2>2. t.pc = "map" /\ t.rows = rows /\ t.doc = load[l].doc /\ t.read = load[l].read /\ t.staged = load[l].staged
    BY <1>1 DEF IsLoad, HasFields, LoadFields
  <2> HIDE DEF t
  <2> QED BY <1>1, <2>1, <2>2 DEF IsLoad, Phases
<1> HIDE DEF t
<1>7. \A id \in hits : id \in Needs(l) /\ id \in DOMAIN View(l) /\ IsRow(t.rows[id]) /\ Moved(t.rows[id], View(l)[id])
  BY <1>1, <1>3, <1>4, <1>6
<1> HIDE DEF hits
<1> QED BY <1>1, <1>2, <1>5, <1>6, <1>7, LoadWrites

LEMMA RowsMap ==
  ASSUME RowsInv, NEW l \in Loaders, MapExistingUntranslated(l)
  PROVE  RowsInv'
<1>1. load[l].pc = "map" /\ UNCHANGED <<table, setup>> /\ IsLoad(load[l]) /\ load[l].read \in Nat
  BY DEF MapExistingUntranslated, Rest, RowsInv, TypeOK, IsLoad
<1>2. PICK map, found : Goes(l, [load[l] EXCEPT !.pc = "upsert", !.map = map, !.staged = load[l].staged \ found])
  <2>1. IsLoad(load[l])
    BY <1>1
  <2> QED BY <2>1 DEF MapExistingUntranslated, IsLoad, HasFields, LoadFields
<1> DEFINE t == [load[l] EXCEPT !.pc = "upsert", !.map = map, !.staged = load[l].staged \ found]
<1>3. /\ IsLoad(t) /\ t.pc = "upsert" /\ t.rows = load[l].rows
      /\ t.read = load[l].read /\ t.staged \subseteq load[l].staged
  <2>1. HasFields(t)
    BY <1>1 DEF IsLoad, HasFields, LoadFields
  <2>2. /\ t.pc = "upsert" /\ t.rows = load[l].rows /\ t.doc = load[l].doc /\ t.read = load[l].read
        /\ t.staged = load[l].staged \ found
    BY <1>1 DEF IsLoad, HasFields, LoadFields
  <2> HIDE DEF t
  <2> QED BY <1>1, <2>1, <2>2 DEF IsLoad, Phases
<1>4. \A i \in load[l].staged : i <= load[l].read
  BY DEF RowsInv, Inserted
<1>5. Goes(l, t)
  BY <1>2
<1> HIDE DEF t
<1> QED BY <1>1, <1>3, <1>4, <1>5, LoadKeepsRows

LEMMA RowsUpsert ==
  ASSUME RowsInv, NEW l \in Loaders, UpsertUnits(l)
  PROVE  RowsInv'
<1> DEFINE Existing(i) == {id \in DOMAIN View(l) : SameDedupKey(View(l)[id], Unit(l, i))}
           IdOf(i) == IF Existing(i) = {} THEN <<l, i>> ELSE CHOOSE id \in Existing(i) : TRUE
           Written(id) == CHOOSE i \in load[l].staged : IdOf(i) = id
           ids == {IdOf(i) : i \in load[l].staged}
           RowAt(id) == LET i == Written(id) IN
             IF id \in DOMAIN View(l) THEN Overwritten(View(l)[id], Unit(l, i), <<l, i>>)
             ELSE Row(Unit(l, i), 0, <<l, i>>)
           rows == [id \in ids \cup DOMAIN load[l].rows |-> IF id \in ids THEN RowAt(id) ELSE load[l].rows[id]]
           t == [load[l] EXCEPT !.pc = "map_loaded", !.rows = rows]
<1>1. load[l].pc = "upsert" /\ UNCHANGED <<table, setup>> /\ IsLoad(load[l]) /\ MayRun(l)
  BY DEF UpsertUnits, Rest, RowsInv, TypeOK
<1>2. CASE TouchesTwice(l)
  BY <1>1, <1>2, LoadEnds DEF UpsertUnits
<1>3. CASE ~TouchesTwice(l)
  <2>1. Goes(l, t)
    <3>1. IsLoad(load[l])
      BY <1>1
    <3> QED BY <3>1, <1>3 DEF UpsertUnits, IsLoad, HasFields, LoadFields
  <2>2. DOMAIN rows = ids \cup DOMAIN load[l].rows /\ \A id \in DOMAIN load[l].rows \ ids : rows[id] = load[l].rows[id]
    OBVIOUS
  <2>3. \A i \in load[l].staged : i \in Nat /\ <<l, i>> \notin DOMAIN View(l)
    <3> SUFFICES ASSUME NEW i \in load[l].staged, <<l, i>> \in DOMAIN View(l) PROVE FALSE
      BY <1>1 DEF IsLoad
    <3>1. i \in Nat /\ Own(l, <<l, i>>)
      BY <1>1 DEF IsLoad, Own
    <3>2. <<l, i>> \notin DOMAIN table
      BY <1>1, <3>1 DEF RowsInv, Inserted
    <3>3. <<l, i>>[2] < i
      BY <1>1, <3>2, ViewIs DEF RowsInv, Inserted
    <3> QED BY <3>1, <3>3
  <2>4. ASSUME NEW id \in ids
        PROVE  /\ IsRow(rows[id])
               /\ \/ /\ id \in Needs(l) /\ id \in DOMAIN View(l)
                     /\ Moved(rows[id], View(l)[id])
                  \/ id \notin DOMAIN View(l) /\ \E i \in load[l].staged : id = <<l, i>>
    <3>1. PICK i \in load[l].staged : Written(id) = i /\ IdOf(i) = id
      BY <2>4
    <3>2. rows[id] = IF id \in DOMAIN View(l) THEN Overwritten(View(l)[id], Unit(l, i), <<l, i>>)
                     ELSE Row(Unit(l, i), 0, <<l, i>>)
      BY <2>4, <3>1
    <3>3. Existing(i) = {} => id = <<l, i>>
      BY <3>1
    <3>4. Existing(i) # {} => id \in Existing(i)
      BY <3>1
    <3>5. id \in DOMAIN View(l) => SameDedupKey(View(l)[id], Unit(l, i)) /\ id \in Needs(l)
      BY <2>3, <3>3, <3>4, <1>1 DEF Needs, ConflictsWith
    <3>6. id \notin DOMAIN View(l) => id = <<l, i>>
      BY <3>3, <3>4
    <3> HIDE DEF rows, RowAt, Written, IdOf, Existing, ids
    <3>7. CASE id \in DOMAIN View(l)
      <4>1. IsRow(View(l)[id])
        BY <3>7, ViewRows
      <4> QED BY <3>2, <3>5, <3>7, <4>1, OverwrittenIs DEF SameDedupKey, SameText
    <3>8. CASE id \notin DOMAIN View(l)
      BY <3>2, <3>6, <3>8, NewRow
    <3> QED BY <3>7, <3>8
  <2> HIDE DEF rows, RowAt, Written, IdOf, ids
  <2>5. /\ IsLoad(t) /\ t.pc = "map_loaded" /\ t.rows = rows
        /\ t.read = load[l].read /\ t.staged = load[l].staged
    <3>1. HasFields(t)
      BY <1>1 DEF IsLoad, HasFields, LoadFields
    <3>2. t.pc = "map_loaded" /\ t.rows = rows /\ t.doc = load[l].doc /\ t.read = load[l].read /\ t.staged = load[l].staged
      BY <1>1 DEF IsLoad, HasFields, LoadFields
    <3> HIDE DEF t
    <3> QED BY <1>1, <3>1, <3>2 DEF IsLoad, Phases
  <2> HIDE DEF t
  <2> QED BY <1>1, <2>1, <2>2, <2>4, <2>5, LoadWrites
<1> QED BY <1>2, <1>3

LEMMA RowsMapLoaded ==
  ASSUME RowsInv, NEW l \in Loaders, MapLoadedUnits(l)
  PROVE  RowsInv'
<1>1. load[l].pc = "map_loaded" /\ UNCHANGED <<table, setup>> /\ IsLoad(load[l])
  BY DEF MapLoadedUnits, Rest, RowsInv, TypeOK
<1>2. PICK map : Goes(l, [load[l] EXCEPT !.pc = "children", !.staged = {}, !.map = map])
  <2>1. HasFields(load[l])
    BY <1>1 DEF IsLoad
  <2> QED BY <2>1 DEF MapLoadedUnits, HasFields, LoadFields
<1> DEFINE t == [load[l] EXCEPT !.pc = "children", !.staged = {}, !.map = map]
<1>3. IsLoad(t) /\ t.pc = "children" /\ t.rows = load[l].rows /\ t.read = load[l].read /\ t.staged = {}
  <2>1. HasFields(t)
    BY <1>1 DEF IsLoad, HasFields, LoadFields
  <2>2. t.pc = "children" /\ t.rows = load[l].rows /\ t.doc = load[l].doc /\ t.read = load[l].read /\ t.staged = {}
    BY <1>1 DEF IsLoad, HasFields, LoadFields
  <2> HIDE DEF t
  <2> QED BY <1>1, <2>1, <2>2 DEF IsLoad, Phases
<1>4. Goes(l, t) /\ load[l].read \in Nat
  BY <1>1, <1>2 DEF IsLoad
<1> HIDE DEF t
<1> QED BY <1>1, <1>3, <1>4, LoadKeepsRows

LEMMA RowsReplace ==
  ASSUME RowsInv, NEW l \in Loaders, ReplaceChildren(l)
  PROVE  RowsInv'
<1>1. load[l].pc = "children" /\ UNCHANGED <<table, setup>> /\ IsLoad(load[l])
  BY DEF ReplaceChildren, Rest, RowsInv, TypeOK
<1>2. PICK written, gone, born :
        Goes(l, [load[l] EXCEPT !.pc = "next", !.map = Empty, !.written = written, !.gone = gone, !.born = born])
  <2>1. HasFields(load[l])
    BY <1>1 DEF IsLoad
  <2> QED BY <2>1 DEF ReplaceChildren, HasFields, LoadFields
<1> DEFINE t == [load[l] EXCEPT !.pc = "next", !.map = Empty, !.written = written, !.gone = gone, !.born = born]
<1>3. IsLoad(t) /\ t.pc = "next" /\ t.rows = load[l].rows /\ t.read = load[l].read /\ t.staged = load[l].staged
  <2>1. HasFields(t)
    BY <1>1 DEF IsLoad, HasFields, LoadFields
  <2>2. /\ t.pc = "next" /\ t.rows = load[l].rows /\ t.doc = load[l].doc /\ t.read = load[l].read
        /\ t.staged = load[l].staged
    BY <1>1 DEF IsLoad, HasFields, LoadFields
  <2> HIDE DEF t
  <2> QED BY <1>1, <2>1, <2>2 DEF IsLoad, Phases
<1>4. Goes(l, t) /\ load[l].read \in Nat /\ \A i \in load[l].staged : i <= load[l].read
  BY <1>1, <1>2 DEF IsLoad, RowsInv, Inserted
<1> HIDE DEF t
<1> QED BY <1>1, <1>3, <1>4, LoadKeepsRows

LEMMA CommitIs ==
  ASSUME RowsInv, NEW l \in Loaders, Commit(l)
  PROVE  /\ load[l].pc = "next" /\ table' = View(l) /\ setup' = setup
         /\ DOMAIN table' = DOMAIN load[l].rows \cup DOMAIN table
         /\ \A id \in DOMAIN load[l].rows : table'[id] = load[l].rows[id]
         /\ \A id \in DOMAIN table \ DOMAIN load[l].rows : table'[id] = table[id]
         /\ load'[l].pc = "done" /\ load'[l].staged = {} /\ DOMAIN load'[l].rows = {} /\ IsLoad(load'[l])
         /\ load' = [m \in Loaders |-> load'[m]]
         /\ \A m \in Loaders \ {l} : load'[m] = load[m]
<1> DEFINE t == [Idle EXCEPT !.pc = "done", !.doc = load[l].doc, !.read = load[l].read, !.written = load[l].written]
<1>1. load[l].pc = "next" /\ table' = View(l) /\ setup' = setup /\ Goes(l, t) /\ IsLoad(load[l])
  BY DEF Commit, RowsInv, TypeOK
<1>2. t.pc = "done" /\ t.staged = {} /\ DOMAIN t.rows = {} /\ t.doc = load[l].doc /\ t.read = load[l].read
  BY IdleIs DEF HasFields, LoadFields
<1>3. HasFields(t)
  BY IdleIs DEF HasFields, LoadFields
<1> HIDE DEF t
<1>4. IsLoad(t)
  BY <1>1, <1>2, <1>3 DEF IsLoad, Phases
<1>5. load'[l] = t /\ load' = [m \in Loaders |-> load'[m]] /\ \A m \in Loaders \ {l} : load'[m] = load[m]
  BY <1>1 DEF Goes, RowsInv, TypeOK
<1> QED BY <1>1, <1>2, <1>4, <1>5, ViewIs

LEMMA RowsCommit ==
  ASSUME RowsInv, NEW l \in Loaders, Commit(l)
  PROVE  RowsInv'
<1>0. /\ DOMAIN table' = DOMAIN load[l].rows \cup DOMAIN table
      /\ \A id \in DOMAIN load[l].rows : table'[id] = load[l].rows[id]
      /\ \A id \in DOMAIN table \ DOMAIN load[l].rows : table'[id] = table[id]
      /\ setup' = setup /\ DOMAIN load'[l].rows = {} /\ \A m \in Loaders \ {l} : load'[m] = load[m]
  BY CommitIs
<1>1. TypeOK'
  <2>1. \A id \in DOMAIN table' : id \in Ids /\ IsRow(table'[id])
    BY CommitIs, ViewRows
  <2>2. /\ load' = [m \in Loaders |-> load'[m]]
        /\ setup' = [s \in Setups |-> setup'[s]] /\ \A s \in Setups : IsSetup(setup'[s])
    BY CommitIs DEF RowsInv, TypeOK
  <2>3. ASSUME NEW m \in Loaders
        PROVE  IsLoad(load'[m]) /\ \A id \in DOMAIN load'[m].rows : IsRow(load'[m].rows[id])
    BY CommitIs DEF RowsInv, TypeOK
  <2> QED BY <2>1, <2>2, <2>3 DEF TypeOK, Ids
<1>2. Locks'
  <2>1. \A m \in Loaders : DOMAIN load'[m].rows \subseteq DOMAIN load[m].rows /\ (Open(m)' \/ DOMAIN load'[m].rows = {})
    BY <1>0 DEF RowsInv, Locks, Open
  <2> QED BY <2>1, <1>0 DEF RowsInv, Locks
<1>3. \A m \in Loaders : Inserted(m)'
  <2>1. Inserted(l)'
    BY CommitIs DEF Inserted
  <2>2. ASSUME NEW m \in Loaders \ {l} PROVE Inserted(m)'
    <3>1. load'[m] = load[m] /\ DOMAIN table' = DOMAIN load[l].rows \cup DOMAIN table
      BY <2>2, CommitIs, ViewIs
    <3>2. \A id \in DOMAIN table' : Own(m, id) => load'[m].pc = "done"
      BY <2>2, <3>1 DEF RowsInv, Inserted, Own
    <3> QED BY <2>2, <3>1, <3>2 DEF RowsInv, Inserted, Own
  <2> QED BY <2>1, <2>2
<1>4. RowsMove'
  <2> SUFFICES ASSUME NEW m \in Loaders, NEW id \in DOMAIN load'[m].rows \cap DOMAIN table'
               PROVE  Moved(load'[m].rows[id], table'[id])
    BY DEF RowsMove, Moved, SameKeys
  <2>1. m # l /\ load'[m] = load[m] /\ id \in DOMAIN load[m].rows
    BY CommitIs
  <2>2. id \notin DOMAIN load[l].rows
    BY <2>1 DEF RowsInv, Locks
  <2>3. id \in DOMAIN table /\ table'[id] = table[id]
    BY <2>1, <2>2, <1>0
  <2> QED BY <2>1, <2>3 DEF RowsInv, RowsMove
<1>5. Reindexed'
  <2> SUFFICES ASSUME NEW s \in Setups, setup[s].pc = "ready", NEW id \in setup[s].owed
               PROVE  table'[id].indexed
    BY CommitIs DEF Reindexed
  <2>1. id \in DOMAIN table /\ table[id].indexed
    BY DEF RowsInv, Locks, Reindexed
  <2>2. CASE id \in DOMAIN load[l].rows
    BY <2>1, <2>2, <1>0 DEF RowsInv, RowsMove, Moved
  <2>3. CASE id \notin DOMAIN load[l].rows
    BY <2>1, <2>3, <1>0
  <2> QED BY <2>2, <2>3
<1> QED BY <1>1, <1>2, <1>3, <1>4, <1>5 DEF RowsInv

LEMMA RowsLoadFails ==
  ASSUME RowsInv, NEW l \in Loaders, Fail(l) \/ BreakDeadlock(l)
  PROVE  RowsInv'
<1>1. load[l].pc # "done"
  <2>1. CASE Fail(l)
    BY <2>1 DEF Fail, Open
  <2>2. CASE BreakDeadlock(l)
    <3>1. PICK m \in Loaders : m \in BlockingLoads(l) /\ l \in BlockingLoads(m)
      BY <2>2 DEF BreakDeadlock, BlockingLoads
    <3>2. load[l].pc = "done" => Needs(l) = {}
      BY DEF Needs
    <3> QED BY <3>1, <3>2 DEF BlockingLoads, LoadsHolding
  <2> QED BY <2>1, <2>2
<1>2. Goes(l, [Idle EXCEPT !.pc = "failed", !.doc = load[l].doc]) /\ UNCHANGED <<table, setup>>
  BY DEF Fail, BreakDeadlock, Rest
<1> QED BY <1>1, <1>2, LoadEnds

\* What a step of one setup has to show that changes no row
LEMMA SetupGoesOn ==
  ASSUME RowsInv, NEW s \in Setups, NEW new, SetupGoes(s, new), UNCHANGED <<table, load>>,
         IsSetup(new), new.rows \cup new.owed \subseteq DOMAIN table,
         \A l \in Loaders : DOMAIN load[l].rows \cap new.rows = {},
         new.pc = "ready" => \A id \in new.owed : table[id].indexed
  PROVE  RowsInv'
<1>1. setup'[s] = new /\ (\A r \in Setups \ {s} : setup'[r] = setup[r]) /\ setup' = [r \in Setups |-> setup'[r]]
  BY DEF SetupGoes, RowsInv, TypeOK
<1>2. TypeOK'
  BY <1>1 DEF RowsInv, TypeOK, Ids, IsRow, IsLoad
<1>3. Locks'
  BY <1>1 DEF RowsInv, Locks, Open
<1>4. \A l \in Loaders : Inserted(l)'
  BY DEF RowsInv, Inserted, Own
<1>5. RowsMove'
  BY DEF RowsInv, RowsMove, Moved, SameKeys
<1>6. Reindexed'
  BY <1>1 DEF RowsInv, Reindexed
<1> QED BY <1>2, <1>3, <1>4, <1>5, <1>6 DEF RowsInv

\* Rows are fetched as long as there are stale ones: the first of them is within any
\* batch.
LEMMA NoneStale ==
  ASSUME RowsInv, FirstStale(ReindexRows) = {}
  PROVE  Stale = {}
<1> SUFFICES ASSUME Stale # {} PROVE FALSE
  OBVIOUS
<1> DEFINE Seconds == {id[2] : id \in Stale}
<1>1. \A id \in Ids : id[2] \in Nat
  BY LegacyAssumption DEF Ids
<1>2. Seconds \subseteq Nat /\ Seconds # {}
  BY <1>1 DEF Stale, RowsInv, TypeOK
<1>3. PICK id \in Stale : \A x \in Stale : id[2] <= x[2]
  <2>1. PICK n \in Seconds : \A k \in Seconds : n <= k
    <3> HIDE DEF Seconds
    <3> QED BY <1>2, Least
  <2> QED BY <2>1
<1>4. {x \in Stale : x[2] < id[2]} = {}
  BY <1>1, <1>3 DEF Stale, RowsInv, TypeOK
<1>5. id \in FirstStale(ReindexRows)
  BY <1>3, <1>4, FS_EmptySet, LimitsAssumption DEF FirstStale
<1> QED BY <1>5

LEMMA RowsSetup ==
  ASSUME RowsInv, NEW s \in Setups, Migrate(s) \/ FetchReindexBatch(s) \/ RestartSetup(s)
  PROVE  RowsInv'
<1>1. setup[s] \in [pc : {"start", "fetch", "update", "ready"}, rows : {setup[s].rows}, owed : {setup[s].owed}]
  BY DEF RowsInv, TypeOK, IsSetup
<1>2. CASE Migrate(s)
  <2> DEFINE new == [setup[s] EXCEPT !.pc = "fetch", !.owed = Stale]
  <2>1. IsSetup(new) /\ new.pc = "fetch" /\ new.rows = setup[s].rows /\ new.owed = Stale
    BY <1>1 DEF IsSetup
  <2>2. SetupGoes(s, new) /\ UNCHANGED <<table, load>>
    BY <1>2 DEF Migrate
  <2> HIDE DEF new
  <2> QED BY <2>1, <2>2, SetupGoesOn DEF RowsInv, Locks, Stale
<1>3. CASE FetchReindexBatch(s)
  <2> DEFINE found == FirstStale(ReindexRows)
             new == [setup[s] EXCEPT !.rows = found, !.pc = IF found = {} THEN "ready" ELSE "update"]
  <2>1. IsSetup(new) /\ new.pc = (IF found = {} THEN "ready" ELSE "update") /\ new.rows = found /\ new.owed = setup[s].owed
    BY <1>1 DEF IsSetup
  <2>2. SetupGoes(s, new) /\ UNCHANGED <<table, load>> /\ LoadsHolding(found) = {}
    BY <1>3 DEF FetchReindexBatch
  <2>3. found \subseteq Stale /\ Stale \subseteq DOMAIN table /\ setup[s].owed \subseteq DOMAIN table
    BY DEF FirstStale, Stale, RowsInv, Locks
  <2>4. new.pc = "ready" => \A id \in new.owed : table[id].indexed
    BY <2>1, <2>3, NoneStale DEF Stale
  <2>5. \A l \in Loaders : DOMAIN load[l].rows \cap new.rows = {}
    BY <2>1, <2>2 DEF LoadsHolding
  <2> HIDE DEF new, found
  <2> QED BY <2>1, <2>2, <2>3, <2>4, <2>5, SetupGoesOn
<1>4. CASE RestartSetup(s)
  <2> DEFINE new == [pc |-> "start", rows |-> {}, owed |-> {}]
  <2>1. IsSetup(new) /\ new.pc = "start" /\ new.rows = {} /\ new.owed = {}
    BY DEF IsSetup
  <2>2. SetupGoes(s, new) /\ UNCHANGED <<table, load>>
    BY <1>4 DEF RestartSetup
  <2> HIDE DEF new
  <2> QED BY <2>1, <2>2, SetupGoesOn
<1> QED BY <1>2, <1>3, <1>4

\* A step that leaves the loads alone, and changes and adds only rows no load holds
LEMMA TableChanges ==
  ASSUME RowsInv, UNCHANGED load,
         setup' = [s \in Setups |-> setup'[s]],
         \A s \in Setups :
           /\ IsSetup(setup'[s]) /\ setup'[s].rows \subseteq setup[s].rows /\ setup'[s].owed = setup[s].owed
           /\ setup'[s].pc = "ready" => setup[s].pc = "ready",
         DOMAIN table \subseteq DOMAIN table',
         \A id \in DOMAIN table' \ DOMAIN table : id \in DOMAIN LegacyRows /\ IsRow(table'[id]),
         \A id \in DOMAIN table :
           /\ IsRow(table'[id]) /\ (table[id].indexed => table'[id].indexed)
           /\ (\E l \in Loaders : id \in DOMAIN load[l].rows) => table'[id] = table[id]
  PROVE  RowsInv'
<1>1. \A id \in DOMAIN table' \ DOMAIN table : \A l \in Loaders : ~Own(l, id)
  <2>1. \A id \in DOMAIN LegacyRows : id \notin Loaders \X Nat
    BY LegacyAssumption
  <2> QED BY <2>1 DEF Own
<1>2. ASSUME NEW l \in Loaders, NEW id \in DOMAIN load[l].rows \cap DOMAIN table'
      PROVE  id \in DOMAIN table /\ table'[id] = table[id]
  BY <1>1, <1>2 DEF RowsInv, Inserted
<1>3. TypeOK'
  BY DEF RowsInv, TypeOK, Ids
<1>4. Locks'
  BY DEF RowsInv, Locks, Open
<1>5. \A l \in Loaders : Inserted(l)'
  <2> SUFFICES ASSUME NEW l \in Loaders PROVE Inserted(l)'
    OBVIOUS
  <2>1. \A id \in DOMAIN table' : Own(l, id) => load[l].pc = "done"
    BY <1>1 DEF RowsInv, Inserted
  <2> QED BY <2>1 DEF RowsInv, Inserted, Own
<1>6. RowsMove'
  BY <1>2 DEF RowsInv, RowsMove, Moved, SameKeys
<1>7. Reindexed'
  BY DEF RowsInv, Reindexed, Locks
<1> QED BY <1>3, <1>4, <1>5, <1>6, <1>7 DEF RowsInv

LEMMA ReindexIs ==
  ASSUME RowsInv, NEW s \in Setups, UpdateReindexBatch(s)
  PROVE  /\ DOMAIN table' = DOMAIN table
         /\ \A id \in DOMAIN table :
              /\ IsRow(table'[id]) /\ SameKeys(table'[id], table[id])
              /\ table'[id].usage = table[id].usage /\ table'[id].by = table[id].by
              /\ table'[id].key = table[id].key
              /\ table'[id].src = table[id].src /\ table'[id].ctx = table[id].ctx /\ table'[id].tgt = table[id].tgt
              /\ table'[id].indexed \/ table'[id] = table[id]
              /\ id \notin setup[s].rows => table'[id] = table[id]
<1>1. PICK n : LET ids == {id \in setup[s].rows : Cardinality({x \in setup[s].rows : x[2] < id[2]}) < n}
               IN table' = [id \in DOMAIN table |->
                              IF id \in ids THEN [table[id] EXCEPT !.indexed = TRUE] ELSE table[id]]
  BY DEF UpdateReindexBatch
<1>2. \A id \in DOMAIN table : table'[id] = table[id] \/ (id \in setup[s].rows /\ table'[id] = [table[id] EXCEPT !.indexed = TRUE])
  BY <1>1
<1>3. \A row : IsRow(row) => LET new == [row EXCEPT !.indexed = TRUE] IN
        /\ IsRow(new) /\ new.usage = row.usage /\ new.by = row.by /\ new.indexed
        /\ new.key = row.key /\ new.src = row.src /\ new.ctx = row.ctx /\ new.tgt = row.tgt
  BY DEF IsRow
<1>4. \A id \in DOMAIN table : IsRow(table[id])
  BY DEF RowsInv, TypeOK
<1>5. DOMAIN table' = DOMAIN table
  BY <1>1
<1>6. ASSUME NEW id \in DOMAIN table
      PROVE  /\ IsRow(table'[id]) /\ table'[id].usage = table[id].usage /\ table'[id].by = table[id].by
             /\ table'[id].key = table[id].key
             /\ table'[id].src = table[id].src /\ table'[id].ctx = table[id].ctx /\ table'[id].tgt = table[id].tgt
             /\ table'[id].indexed \/ table'[id] = table[id]
             /\ id \notin setup[s].rows => table'[id] = table[id]
  <2>1. CASE table'[id] = table[id]
    BY <1>4, <2>1
  <2>2. CASE id \in setup[s].rows /\ table'[id] = [table[id] EXCEPT !.indexed = TRUE]
    BY <1>3, <1>4, <2>2
  <2> QED BY <1>2, <2>1, <2>2
<1> QED BY <1>5, <1>6 DEF SameKeys

LEMMA RowsReindex ==
  ASSUME RowsInv, NEW s \in Setups, UpdateReindexBatch(s)
  PROVE  RowsInv'
<1>1. setup[s] \in [pc : {"start", "fetch", "update", "ready"}, rows : {setup[s].rows}, owed : {setup[s].owed}]
  BY DEF RowsInv, TypeOK, IsSetup
<1> DEFINE new == [setup[s] EXCEPT !.pc = "fetch", !.rows = {}]
<1>2. IsSetup(new) /\ new.pc = "fetch" /\ new.rows = {} /\ new.owed = setup[s].owed
  BY <1>1 DEF IsSetup
<1>3. SetupGoes(s, new) /\ UNCHANGED load
  BY DEF UpdateReindexBatch
<1> HIDE DEF new
<1>4. setup'[s] = new /\ (\A r \in Setups \ {s} : setup'[r] = setup[r]) /\ setup' = [r \in Setups |-> setup'[r]]
  BY <1>3 DEF SetupGoes, RowsInv, TypeOK
<1>5. \A r \in Setups : IsSetup(setup[r])
  BY DEF RowsInv, TypeOK
<1>6. \A id \in DOMAIN table : (\E l \in Loaders : id \in DOMAIN load[l].rows) => id \notin setup[s].rows
  BY DEF RowsInv, Locks
<1>7. /\ DOMAIN table' = DOMAIN table
      /\ \A id \in DOMAIN table :
           /\ IsRow(table'[id]) /\ (table[id].indexed => table'[id].indexed)
           /\ (\E l \in Loaders : id \in DOMAIN load[l].rows) => table'[id] = table[id]
  BY <1>6, ReindexIs
<1> QED BY <1>2, <1>3, <1>4, <1>5, <1>7, TableChanges

LEMMA RowsLegacy ==
  ASSUME RowsInv, NEW id \in DOMAIN LegacyRows, LegacyInsert(id)
  PROVE  RowsInv'
<1>1. /\ UNCHANGED <<load, setup>> /\ DOMAIN table' = DOMAIN table \cup {id} /\ id \notin DOMAIN table
      /\ table'[id] = LegacyRows[id] /\ \A x \in DOMAIN table : table'[x] = table[x]
  BY DEF LegacyInsert
<1>2. IsRow(LegacyRows[id])
  BY LegacyAssumption DEF IsRow
<1>3. /\ setup' = [s \in Setups |-> setup'[s]] /\ \A s \in Setups : IsSetup(setup'[s])
      /\ \A x \in DOMAIN table : IsRow(table[x])
  BY <1>1 DEF RowsInv, TypeOK
<1> QED BY <1>1, <1>2, <1>3, TableChanges

LEMMA RowsSame ==
  ASSUME RowsInv, UNCHANGED vars
  PROVE  RowsInv'
<1>1. UNCHANGED <<table, load, setup>>
  BY DEF vars
<1>2. TypeOK' /\ Locks'
  BY <1>1 DEF RowsInv, TypeOK, Ids, Locks, Open
<1>3. (\A l \in Loaders : Inserted(l)') /\ RowsMove' /\ Reindexed'
  BY <1>1 DEF RowsInv, Inserted, Own, RowsMove, Moved, SameKeys, Reindexed
<1> QED BY <1>2, <1>3 DEF RowsInv

LEMMA RowsNext == RowsInv /\ [Next]_vars => RowsInv'
<1> SUFFICES ASSUME RowsInv, [Next]_vars PROVE RowsInv'
  OBVIOUS
<1>1. CASE UNCHANGED vars
  BY <1>1, RowsSame
<1>2. ASSUME NEW l \in Loaders, LoadStep(l) \/ Fail(l) PROVE RowsInv'
  BY <1>2, RowsBegin, RowsStage, RowsUpdate, RowsMap, RowsUpsert, RowsMapLoaded, RowsReplace, RowsCommit,
     RowsLoadFails DEF LoadStep, Statement
<1>3. ASSUME NEW s \in Setups, SetupStep(s) \/ RestartSetup(s) PROVE RowsInv'
  BY <1>3, RowsSetup, RowsReindex DEF SetupStep
<1>4. ASSUME NEW id \in DOMAIN LegacyRows, LegacyInsert(id) PROVE RowsInv'
  BY <1>4, RowsLegacy
<1> QED BY <1>1, <1>2, <1>3, <1>4 DEF Next

\* Whatever happens, rows stay, keep their keys and move only up.
LEMMA StoreStep ==
  ASSUME RowsInv, [Next]_vars
  PROVE  /\ DOMAIN table \subseteq DOMAIN table'
         /\ \A id \in DOMAIN table :
              \/ table'[id] = table[id]
              \/ Moved(table'[id], table[id])
              \/ /\ SameKeys(table'[id], table[id]) /\ table'[id].usage = table[id].usage
                 /\ table'[id].indexed = table[id].indexed \/ (table'[id].indexed /\ ~table[id].indexed)
<1>1. CASE table' = table
  BY <1>1
<1>2. ASSUME NEW l \in Loaders, Commit(l)
      PROVE  /\ DOMAIN table \subseteq DOMAIN table'
             /\ \A id \in DOMAIN table : table'[id] = table[id] \/ Moved(table'[id], table[id])
  <2>1. /\ DOMAIN table' = DOMAIN load[l].rows \cup DOMAIN table
        /\ \A id \in DOMAIN load[l].rows : table'[id] = load[l].rows[id]
        /\ \A id \in DOMAIN table \ DOMAIN load[l].rows : table'[id] = table[id]
    BY <1>2, CommitIs
  <2>2. \A id \in DOMAIN load[l].rows \cap DOMAIN table : Moved(load[l].rows[id], table[id])
    BY DEF RowsInv, RowsMove
  <2> QED BY <2>1, <2>2
<1>3. ASSUME NEW s \in Setups, UpdateReindexBatch(s)
      PROVE  /\ DOMAIN table' = DOMAIN table
             /\ \A id \in DOMAIN table :
                  /\ SameKeys(table'[id], table[id]) /\ table'[id].usage = table[id].usage
                  /\ table'[id].indexed = table[id].indexed \/ (table'[id].indexed /\ ~table[id].indexed)
  <2>1. \A id \in DOMAIN table : IsRow(table[id])
    BY DEF RowsInv, TypeOK
  <2> QED BY <1>3, <2>1, ReindexIs DEF IsRow
<1>4. ASSUME NEW id \in DOMAIN LegacyRows, LegacyInsert(id)
      PROVE  DOMAIN table \subseteq DOMAIN table' /\ \A x \in DOMAIN table : table'[x] = table[x]
  BY <1>4 DEF LegacyInsert
<1>5. \/ table' = table
      \/ \E l \in Loaders : Commit(l)
      \/ \E s \in Setups : UpdateReindexBatch(s)
      \/ \E id \in DOMAIN LegacyRows : LegacyInsert(id)
  BY DEF Next, vars, LoadStep, SetupStep, Statement, Begin, Stage, UpdateExistingUntranslated,
     MapExistingUntranslated, UpsertUnits, MapLoadedUnits, ReplaceChildren, BreakDeadlock, Fail, Migrate,
     FetchReindexBatch, RestartSetup, Rest
<1> QED BY <1>1, <1>2, <1>3, <1>4, <1>5

-----------------------------------------------------------------------------
(* What the steps do to a load *)

\* A step of l that only it knows of
Alters(l) ==
  /\ \A m \in Loaders \ {l} : load'[m] = load[m]
  /\ UNCHANGED <<partitioned, table, kids>>

Ended(l) ==
  /\ Alters(l)
  /\ load'[l].pc = "failed" /\ load'[l].doc = load[l].doc /\ load'[l].staged = {}
  /\ load'[l].read = 0 /\ load'[l].written = 0
  /\ DOMAIN load'[l].rows = {} /\ DOMAIN load'[l].map = {} /\ DOMAIN load'[l].born = {}

LEMMA EndedIs ==
  ASSUME RowsInv, NEW l \in Loaders, Goes(l, [Idle EXCEPT !.pc = "failed", !.doc = load[l].doc]),
         UNCHANGED <<partitioned, table, kids>>
  PROVE  Ended(l)
<1> DEFINE t == [Idle EXCEPT !.pc = "failed", !.doc = load[l].doc]
<1>1. /\ t.pc = "failed" /\ t.doc = load[l].doc /\ t.staged = {} /\ t.read = 0 /\ t.written = 0
      /\ DOMAIN t.rows = {} /\ DOMAIN t.map = {} /\ DOMAIN t.born = {}
  BY IdleIs DEF HasFields, LoadFields
<1>2. Goes(l, t)
  OBVIOUS
<1> HIDE DEF t
<1> QED BY <1>1, <1>2 DEF Ended, Alters, Goes, RowsInv, TypeOK

\* The fields of l that are not among 'changed'
Keeps(l, changed) == \A field \in LoadFields \ changed : load'[l][field] = load[l][field]

LEMMA BeginIs ==
  ASSUME RowsInv, NEW l \in Loaders, Begin(l)
  PROVE  /\ Alters(l) /\ Keeps(l, {"pc"}) /\ EnsurePartition(l)
         /\ load[l].pc = "start" /\ load'[l].pc = "next"
<1>1. HasFields(load[l])
  BY DEF RowsInv, TypeOK, IsLoad
<1>2. load'[l] = [load[l] EXCEPT !.pc = "next"] /\ Alters(l)
  BY DEF Begin, Go, Rest, Alters, RowsInv, TypeOK
<1> QED BY <1>1, <1>2 DEF Begin, Keeps, HasFields, LoadFields

LEMMA StageIs ==
  ASSUME RowsInv, NEW l \in Loaders, Stage(l)
  PROVE  /\ load[l].pc = "next"
         /\ \/ Ended(l)
            \/ /\ Alters(l) /\ Keeps(l, {"pc", "read", "map", "staged"})
               /\ load'[l].pc = "update" /\ DOMAIN load'[l].map = {}
               /\ load'[l].staged \subseteq DOMAIN load[l].doc
               /\ \A i, j \in load'[l].staged : i # j => ~SameSignature(Unit(l, i), Unit(l, j))
               /\ \E n \in Nat : /\ load'[l].read = load[l].read + n /\ load'[l].read <= Len(load[l].doc)
                                 /\ load'[l].staged = DeduplicatedFrom(load[l].doc, load[l].read, n)
<1> DEFINE todo == SubSeq(load[l].doc, load[l].read + 1, Len(load[l].doc))
           n == BatchLength(todo)
           staged == DeduplicatedFrom(load[l].doc, load[l].read, n)
           t == [load[l] EXCEPT !.pc = "update", !.read = load[l].read + n, !.map = Empty, !.staged = staged]
<1>1. load[l].pc = "next" /\ UNCHANGED <<partitioned, table, kids>> /\ IsLoad(load[l])
  BY DEF Stage, Rest, RowsInv, TypeOK
<1>2. load[l].read \in Nat /\ load[l].doc \in Seq(DOMAIN Bytes) /\ todo # <<>>
  BY <1>1, DocumentsAssumption DEF IsLoad, Stage
<1>3. n \in Nat /\ load[l].read + n <= Len(load[l].doc)
  <2>1. Len(todo) \in Nat /\ load[l].read + Len(todo) <= Len(load[l].doc)
    <3>1. Len(load[l].doc) \in Nat
      BY <1>2
    <3>2. CASE load[l].read + 1 <= Len(load[l].doc)
      BY <1>2, <3>1, <3>2
    <3>3. CASE load[l].read + 1 > Len(load[l].doc)
      BY <1>2, <3>1, <3>3
    <3> QED BY <1>2, <3>1, <3>2, <3>3
  <2> HIDE DEF todo
  <2> QED BY <1>2, <2>1, BatchLengthType
<1>4. CASE Goes(l, t)
  <2> HIDE DEF n
  <2>1. \A i \in staged : i \in DOMAIN load[l].doc
    BY <1>2, <1>3 DEF DeduplicatedFrom
  <2>2. \A i, j \in staged : i # j => ~SameSignature(Unit(l, i), Unit(l, j))
    <3> SUFFICES ASSUME NEW i \in staged, NEW j \in staged, i # j, SameSignature(Unit(l, i), Unit(l, j))
                 PROVE  FALSE
      OBVIOUS
    <3>1. i \in Nat /\ j \in Nat
      BY <1>2, <1>3 DEF DeduplicatedFrom
    <3>2. CASE i < j
      BY <1>2, <1>3, <3>1, <3>2 DEF DeduplicatedFrom, SameSignature, Unit
    <3>3. CASE j < i
      BY <1>2, <1>3, <3>1, <3>3 DEF DeduplicatedFrom, SameSignature, Unit
    <3> QED BY <3>1, <3>2, <3>3
  <2> HIDE DEF staged
  <2>3. load'[l] = t /\ Alters(l)
    BY <1>1, <1>4 DEF Goes, Alters, RowsInv, TypeOK
  <2>4. /\ Keeps(l, {"pc", "read", "map", "staged"}) /\ t.pc = "update" /\ t.map = Empty /\ t.staged = staged
        /\ t.read = load[l].read + n
    BY <1>1, <2>3 DEF Keeps, IsLoad, HasFields, LoadFields
  <2>5. DOMAIN Empty = {}
    BY DEF Empty
  <2> HIDE DEF t
  <2> QED BY <1>1, <1>3, <2>1, <2>2, <2>3, <2>4, <2>5 DEF staged
<1>5. CASE Goes(l, [Idle EXCEPT !.pc = "failed", !.doc = load[l].doc])
  BY <1>1, <1>5, EndedIs
<1> QED BY <1>4, <1>5 DEF Stage

LEMMA UpdateIs ==
  ASSUME RowsInv, NEW l \in Loaders, UpdateExistingUntranslated(l)
  PROVE  LET hits == UntranslatedHits(l) IN
         /\ Alters(l) /\ Keeps(l, {"pc", "rows"})
         /\ load[l].pc = "update" /\ load'[l].pc = "map"
         /\ hits \subseteq DOMAIN View(l)
         /\ DOMAIN load'[l].rows = hits \cup DOMAIN load[l].rows
         /\ \A id \in DOMAIN load[l].rows \ hits : load'[l].rows[id] = load[l].rows[id]
         /\ \A id \in hits : \E i \in load[l].staged :
              /\ SameUntranslated(View(l)[id], Unit(l, i))
              /\ SameKeys(load'[l].rows[id], View(l)[id]) /\ load'[l].rows[id].by = <<l, i>>
<1> DEFINE hits == UntranslatedHits(l)
           By(id) == CHOOSE i \in load[l].staged : SameUntranslated(View(l)[id], Unit(l, i))
           new == [id \in hits |-> Overwritten(View(l)[id], Unit(l, By(id)), <<l, By(id)>>)]
           rows == [id \in hits \cup DOMAIN load[l].rows |-> IF id \in hits THEN new[id] ELSE load[l].rows[id]]
           t == [load[l] EXCEPT !.pc = "map", !.rows = rows]
<1>1. load[l].pc = "update" /\ UNCHANGED <<partitioned, table, kids>> /\ HasFields(load[l])
  BY DEF UpdateExistingUntranslated, Rest, RowsInv, TypeOK, IsLoad
<1>2. Goes(l, t)
  BY <1>1 DEF UpdateExistingUntranslated, HasFields, LoadFields
<1>3. hits \subseteq DOMAIN View(l)
  BY DEF UntranslatedHits
<1>4. ASSUME NEW id \in hits
      PROVE  \E i \in load[l].staged :
               /\ SameUntranslated(View(l)[id], Unit(l, i))
               /\ SameKeys(rows[id], View(l)[id]) /\ rows[id].by = <<l, i>>
  <2>1. By(id) \in load[l].staged /\ SameUntranslated(View(l)[id], Unit(l, By(id)))
    BY <1>4 DEF UntranslatedHits
  <2>2. IsRow(View(l)[id])
    BY <1>3, <1>4, ViewRows
  <2>3. rows[id] = Overwritten(View(l)[id], Unit(l, By(id)), <<l, By(id)>>)
    BY <1>4
  <2> HIDE DEF By, rows
  <2>4. Moved(rows[id], View(l)[id]) /\ rows[id].by = <<l, By(id)>>
    BY <2>1, <2>2, <2>3, OverwrittenIs DEF SameUntranslated, SameText
  <2> QED BY <2>1, <2>4 DEF Moved
<1>5. DOMAIN rows = hits \cup DOMAIN load[l].rows /\ \A id \in DOMAIN load[l].rows \ hits : rows[id] = load[l].rows[id]
  OBVIOUS
<1> HIDE DEF rows, new, By
<1>6. load'[l] = t /\ Alters(l)
  BY <1>1, <1>2 DEF Goes, Alters, RowsInv, TypeOK
<1>7. t.pc = "map" /\ t.rows = rows /\ Keeps(l, {"pc", "rows"})
  BY <1>1, <1>6 DEF HasFields, LoadFields, Keeps
<1> HIDE DEF t, hits
<1> QED BY <1>1, <1>3, <1>4, <1>5, <1>6, <1>7 DEF hits

LEMMA MapIs ==
  ASSUME RowsInv, NEW l \in Loaders, MapExistingUntranslated(l)
  PROVE  LET map == load'[l].map
             Matches(i) == {id \in DOMAIN View(l) : SameUntranslated(View(l)[id], Unit(l, i))}
         IN
         /\ Alters(l) /\ Keeps(l, {"pc", "map", "staged"})
         /\ load[l].pc = "map" /\ load'[l].pc = "upsert"
         /\ DOMAIN map = {i \in load[l].staged : Matches(i) # {}}
         /\ \A i \in DOMAIN map : map[i] \in Matches(i)
         /\ load'[l].staged = load[l].staged \ DOMAIN map
<1> DEFINE Matches(i) == {id \in DOMAIN View(l) : SameUntranslated(View(l)[id], Unit(l, i))}
           found == {i \in load[l].staged : Matches(i) # {}}
<1>1. load[l].pc = "map" /\ UNCHANGED <<partitioned, table, kids>> /\ HasFields(load[l])
  BY DEF MapExistingUntranslated, Rest, RowsInv, TypeOK, IsLoad
<1>2. PICK map \in [found -> DOMAIN View(l)] :
        /\ \A i \in found : map[i] \in Matches(i)
        /\ Goes(l, [load[l] EXCEPT !.pc = "upsert", !.map = map, !.staged = load[l].staged \ found])
  BY <1>1 DEF MapExistingUntranslated, HasFields, LoadFields
<1> DEFINE t == [load[l] EXCEPT !.pc = "upsert", !.map = map, !.staged = load[l].staged \ found]
<1>3. DOMAIN map = found
  BY <1>2
<1>4. Goes(l, t)
  BY <1>2
<1>5. load'[l] = t /\ Alters(l)
  BY <1>1, <1>4 DEF Goes, Alters, RowsInv, TypeOK
<1> HIDE DEF found
<1>6. /\ t.pc = "upsert" /\ t.map = map /\ t.staged = load[l].staged \ found
      /\ Keeps(l, {"pc", "map", "staged"})
  BY <1>1, <1>5 DEF HasFields, LoadFields, Keeps
<1> HIDE DEF t
<1> QED BY <1>1, <1>2, <1>3, <1>5, <1>6 DEF found

\* How an upsert writes the row of a staged unit: over an older one, or as a new one
Writes(l, i, id) ==
  /\ load'[l].rows[id].by = <<l, i>>
  /\ \/ /\ id \in DOMAIN View(l) /\ SameDedupKey(View(l)[id], Unit(l, i))
        /\ SameKeys(load'[l].rows[id], View(l)[id]) /\ <<l, i>> \notin DOMAIN load'[l].rows
     \/ /\ id = <<l, i>> /\ id \notin DOMAIN View(l) /\ SameKeys(load'[l].rows[id], Unit(l, i))
        /\ \A x \in DOMAIN View(l) : ~SameDedupKey(View(l)[x], Unit(l, i))

LEMMA UpsertIs ==
  ASSUME RowsInv, NEW l \in Loaders, UpsertUnits(l)
  PROVE  /\ load[l].pc = "upsert" /\ MayRun(l)
         /\ \/ Ended(l)
            \/ /\ Alters(l) /\ Keeps(l, {"pc", "rows"}) /\ load'[l].pc = "map_loaded"
               /\ ~TouchesTwice(l)
               /\ DOMAIN load[l].rows \subseteq DOMAIN load'[l].rows
               /\ \A id \in DOMAIN load'[l].rows :
                    \/ id \in DOMAIN load[l].rows /\ load'[l].rows[id] = load[l].rows[id]
                    \/ \E i \in load[l].staged : Writes(l, i, id)
               /\ \A i \in load[l].staged : \E id \in DOMAIN load'[l].rows : Writes(l, i, id)
<1> DEFINE Existing(i) == {id \in DOMAIN View(l) : SameDedupKey(View(l)[id], Unit(l, i))}
           IdOf(i) == IF Existing(i) = {} THEN <<l, i>> ELSE CHOOSE id \in Existing(i) : TRUE
           Written(id) == CHOOSE i \in load[l].staged : IdOf(i) = id
           ids == {IdOf(i) : i \in load[l].staged}
           RowAt(id) == LET i == Written(id) IN
             IF id \in DOMAIN View(l) THEN Overwritten(View(l)[id], Unit(l, i), <<l, i>>)
             ELSE Row(Unit(l, i), 0, <<l, i>>)
           rows == [id \in ids \cup DOMAIN load[l].rows |-> IF id \in ids THEN RowAt(id) ELSE load[l].rows[id]]
           t == [load[l] EXCEPT !.pc = "map_loaded", !.rows = rows]
<1>1. /\ load[l].pc = "upsert" /\ MayRun(l) /\ UNCHANGED <<partitioned, table, kids>>
      /\ HasFields(load[l]) /\ load[l].staged \subseteq Nat
  BY DEF UpsertUnits, Rest, RowsInv, TypeOK, IsLoad
<1>2. CASE TouchesTwice(l)
  <2>1. Goes(l, [Idle EXCEPT !.pc = "failed", !.doc = load[l].doc])
    BY <1>2 DEF UpsertUnits
  <2> QED BY <1>1, <2>1, EndedIs
<1>3. CASE ~TouchesTwice(l)
  <2>1. Goes(l, t)
    BY <1>1, <1>3 DEF UpsertUnits, HasFields, LoadFields
  <2>2. \A i \in load[l].staged : <<l, i>> \notin DOMAIN View(l)
    <3> SUFFICES ASSUME NEW i \in load[l].staged, <<l, i>> \in DOMAIN View(l) PROVE FALSE
      OBVIOUS
    <3>1. i \in Nat /\ Own(l, <<l, i>>)
      BY <1>1 DEF Own
    <3>2. <<l, i>> \notin DOMAIN table
      BY <1>1, <3>1 DEF RowsInv, Inserted
    <3>3. <<l, i>>[2] < i
      BY <1>1, <3>2, ViewIs DEF RowsInv, Inserted
    <3> QED BY <3>1, <3>3
  <2>3. /\ \A i : Existing(i) = {} => IdOf(i) = <<l, i>>
        /\ \A i : Existing(i) # {} => IdOf(i) \in DOMAIN View(l) /\ SameDedupKey(View(l)[IdOf(i)], Unit(l, i))
    OBVIOUS
  <2>4. \A i : Existing(i) = {} => \A x \in DOMAIN View(l) : ~SameDedupKey(View(l)[x], Unit(l, i))
    OBVIOUS
  <2>5. DOMAIN rows = ids \cup DOMAIN load[l].rows /\ \A id \in DOMAIN load[l].rows \ ids : rows[id] = load[l].rows[id]
    OBVIOUS
  <2>6. \A id \in ids : Written(id) \in load[l].staged /\ IdOf(Written(id)) = id
    OBVIOUS
  <2>7. \A i \in load[l].staged : IdOf(i) \in ids
    OBVIOUS
  <2>8. \A id \in ids : rows[id] =
          IF id \in DOMAIN View(l) THEN Overwritten(View(l)[id], Unit(l, Written(id)), <<l, Written(id)>>)
          ELSE Row(Unit(l, Written(id)), 0, <<l, Written(id)>>)
    OBVIOUS
  <2>9. \A id \in ids : \E i \in load[l].staged : id = IdOf(i)
    OBVIOUS
  <2> HIDE DEF rows, RowAt, Written, IdOf, ids, Existing
  <2>10. \A i, j \in load[l].staged : IdOf(i) = IdOf(j) => i = j
    <3> SUFFICES ASSUME NEW i \in load[l].staged, NEW j \in load[l].staged, IdOf(i) = IdOf(j) PROVE i = j
      OBVIOUS
    <3>1. CASE Existing(i) = {}
      BY <2>2, <2>3, <3>1
    <3>2. CASE Existing(j) = {}
      BY <2>2, <2>3, <3>2
    <3>3. CASE Existing(i) # {} /\ Existing(j) # {}
      <4>1. SameDedupKey(Unit(l, i), Unit(l, j))
        BY <2>3, <3>3 DEF SameDedupKey, SameText
      <4> QED BY <1>3, <4>1 DEF TouchesTwice
    <3> QED BY <3>1, <3>2, <3>3
  <2>11. \A i \in load[l].staged : Existing(i) # {} => <<l, i>> \notin DOMAIN rows
    <3> SUFFICES ASSUME NEW i \in load[l].staged, Existing(i) # {}, <<l, i>> \in DOMAIN rows PROVE FALSE
      OBVIOUS
    <3>1. <<l, i>> \in ids
      BY <2>2, <2>5, ViewIs
    <3>2. PICK j \in load[l].staged : IdOf(j) = <<l, i>>
      BY <2>9, <3>1
    <3>3. Existing(j) = {}
      BY <2>2, <2>3, <3>2
    <3> QED BY <2>3, <3>2, <3>3
  <2>12. load'[l] = t /\ Alters(l)
    BY <1>1, <2>1 DEF Goes, Alters, RowsInv, TypeOK
  <2>13. t.pc = "map_loaded" /\ t.rows = rows /\ Keeps(l, {"pc", "rows"})
    BY <1>1, <2>12 DEF HasFields, LoadFields, Keeps
  <2> HIDE DEF t
  <2>14. ASSUME NEW id \in ids, NEW i \in load[l].staged, IdOf(i) = id PROVE Writes(l, i, id)
    <3>1. Written(id) = i
      BY <2>6, <2>10, <2>14
    <3>2. CASE Existing(i) # {}
      <4>1. /\ id \in DOMAIN View(l) /\ SameDedupKey(View(l)[id], Unit(l, i)) /\ <<l, i>> \notin DOMAIN rows
            /\ rows[id] = Overwritten(View(l)[id], Unit(l, i), <<l, i>>)
        BY <2>3, <2>8, <2>11, <2>14, <3>1, <3>2
      <4>2. IsRow(View(l)[id])
        BY <4>1, ViewRows
      <4>3. Moved(rows[id], View(l)[id]) /\ rows[id].by = <<l, i>>
        BY <4>1, <4>2, OverwrittenIs DEF SameDedupKey, SameText
      <4> QED BY <2>12, <2>13, <4>1, <4>3 DEF Writes, Moved
    <3>3. CASE Existing(i) = {}
      <4>1. /\ id = <<l, i>> /\ id \notin DOMAIN View(l) /\ \A x \in DOMAIN View(l) : ~SameDedupKey(View(l)[x], Unit(l, i))
            /\ rows[id] = Row(Unit(l, i), 0, <<l, i>>)
        BY <2>2, <2>3, <2>4, <2>8, <2>14, <3>1, <3>3
      <4>2. SameKeys(rows[id], Unit(l, i)) /\ rows[id].by = <<l, i>>
        BY <4>1, NewRow
      <4> QED BY <2>12, <2>13, <4>1, <4>2 DEF Writes
    <3> QED BY <3>2, <3>3
  <2>15. \A id \in DOMAIN rows : \/ id \in DOMAIN load[l].rows /\ rows[id] = load[l].rows[id]
                                 \/ \E i \in load[l].staged : Writes(l, i, id)
    BY <2>5, <2>9, <2>14
  <2>16. \A i \in load[l].staged : \E id \in DOMAIN rows : Writes(l, i, id)
    BY <2>5, <2>7, <2>14
  <2> QED BY <1>1, <1>3, <2>5, <2>12, <2>13, <2>15, <2>16
<1> QED BY <1>2, <1>3

LEMMA MapLoadedIs ==
  ASSUME RowsInv, NEW l \in Loaders, MapLoadedUnits(l)
  PROVE  LET map == load'[l].map IN
         /\ Alters(l) /\ Keeps(l, {"pc", "map", "staged"})
         /\ load[l].pc = "map_loaded" /\ load'[l].pc = "children" /\ load'[l].staged = {}
         /\ DOMAIN map = DOMAIN load[l].map \cup load[l].staged
         /\ \A i \in DOMAIN load[l].map : map[i] = load[l].map[i]
         /\ \A i \in load[l].staged \ DOMAIN load[l].map : map[i] = LoadedRow(l, i)
<1> DEFINE map == [i \in DOMAIN load[l].map \cup load[l].staged |->
                     IF i \in DOMAIN load[l].map THEN load[l].map[i] ELSE LoadedRow(l, i)]
           t == [load[l] EXCEPT !.pc = "children", !.staged = {}, !.map = map]
<1>1. load[l].pc = "map_loaded" /\ UNCHANGED <<partitioned, table, kids>> /\ HasFields(load[l])
  BY DEF MapLoadedUnits, Rest, RowsInv, TypeOK, IsLoad
<1>2. Goes(l, t)
  BY <1>1 DEF MapLoadedUnits, HasFields, LoadFields
<1>3. load'[l] = t /\ Alters(l)
  BY <1>1, <1>2 DEF Goes, Alters, RowsInv, TypeOK
<1>4. /\ DOMAIN map = DOMAIN load[l].map \cup load[l].staged
      /\ \A i \in DOMAIN load[l].map : map[i] = load[l].map[i]
      /\ \A i \in load[l].staged \ DOMAIN load[l].map : map[i] = LoadedRow(l, i)
  OBVIOUS
<1> HIDE DEF map
<1>5. t.pc = "children" /\ t.map = map /\ t.staged = {} /\ Keeps(l, {"pc", "map", "staged"})
  BY <1>1, <1>3 DEF HasFields, LoadFields, Keeps
<1> HIDE DEF t
<1> QED BY <1>1, <1>3, <1>4, <1>5

LEMMA ReplaceIs ==
  ASSUME RowsInv, NEW l \in Loaders, ReplaceChildren(l)
  PROVE  LET map == load[l].map
             ids == {map[i] : i \in DOMAIN map}
         IN
         /\ Alters(l) /\ Keeps(l, {"pc", "map", "written", "gone", "born"})
         /\ load[l].pc = "children" /\ load'[l].pc = "next" /\ DOMAIN load'[l].map = {}
         /\ load'[l].written = load[l].written + Cardinality(DOMAIN map)
         /\ DOMAIN load'[l].gone = ids \cup DOMAIN load[l].gone
         /\ DOMAIN load'[l].born = ids \cup DOMAIN load[l].born
         /\ \A id \in ids :
              /\ load'[l].gone[id] = IF id \in DOMAIN kids THEN kids[id] ELSE {}
              /\ load'[l].born[id] = {<<l, i>> : i \in {j \in DOMAIN map : map[j] = id}}
         /\ \A id \in DOMAIN load[l].gone \ ids : load'[l].gone[id] = load[l].gone[id]
         /\ \A id \in DOMAIN load[l].born \ ids : load'[l].born[id] = load[l].born[id]
<1> DEFINE map == load[l].map
           ids == {map[i] : i \in DOMAIN map}
           newGone == [id \in ids |-> IF id \in DOMAIN kids THEN kids[id] ELSE {}]
           newBorn == [id \in ids |-> {<<l, i>> : i \in {j \in DOMAIN map : map[j] = id}}]
           gone == [id \in ids \cup DOMAIN load[l].gone |-> IF id \in ids THEN newGone[id] ELSE load[l].gone[id]]
           born == [id \in ids \cup DOMAIN load[l].born |-> IF id \in ids THEN newBorn[id] ELSE load[l].born[id]]
           t == [load[l] EXCEPT !.pc = "next", !.map = Empty,
                   !.written = load[l].written + Cardinality(DOMAIN map), !.gone = gone, !.born = born]
<1>1. load[l].pc = "children" /\ UNCHANGED <<partitioned, table, kids>> /\ HasFields(load[l])
  BY DEF ReplaceChildren, Rest, RowsInv, TypeOK, IsLoad
<1>2. Goes(l, t)
  BY <1>1 DEF ReplaceChildren, HasFields, LoadFields
<1>3. load'[l] = t /\ Alters(l)
  BY <1>1, <1>2 DEF Goes, Alters, RowsInv, TypeOK
<1>4. /\ DOMAIN gone = ids \cup DOMAIN load[l].gone /\ DOMAIN born = ids \cup DOMAIN load[l].born
      /\ \A id \in ids : gone[id] = newGone[id] /\ born[id] = newBorn[id]
      /\ \A id \in DOMAIN load[l].gone \ ids : gone[id] = load[l].gone[id]
      /\ \A id \in DOMAIN load[l].born \ ids : born[id] = load[l].born[id]
  OBVIOUS
<1>5. \A id \in ids : newGone[id] = (IF id \in DOMAIN kids THEN kids[id] ELSE {})
                      /\ newBorn[id] = {<<l, i>> : i \in {j \in DOMAIN map : map[j] = id}}
  OBVIOUS
<1> HIDE DEF gone, born, newGone, newBorn
<1>6. /\ t.pc = "next" /\ t.map = Empty /\ t.gone = gone /\ t.born = born
      /\ t.written = load[l].written + Cardinality(DOMAIN map)
      /\ Keeps(l, {"pc", "map", "written", "gone", "born"})
  BY <1>1, <1>3 DEF HasFields, LoadFields, Keeps
<1>7. DOMAIN Empty = {}
  BY DEF Empty
<1> HIDE DEF t, ids
<1> QED BY <1>1, <1>3, <1>4, <1>5, <1>6, <1>7 DEF ids

-----------------------------------------------------------------------------
(* UniqueInv: each step *)

LEMMA ClashKept ==
  ASSUME NEW a, NEW b, NEW c, NEW d, SameKeys(a, c), SameKeys(b, d), Clash(a, b)
  PROVE  Clash(c, d)
BY DEF SameKeys, Clash, SameDedupKey, SameUntranslated, SameText

LEMMA ClashSymmetric ==
  ASSUME NEW a, NEW b, Clash(a, b)
  PROVE  Clash(b, a)
BY DEF Clash, SameDedupKey, SameUntranslated, SameText

LEMMA SameKeysItself == \A row : SameKeys(row, row)
BY DEF SameKeys

LEMMA ViewKnown ==
  ASSUME NEW l \in Loaders, NEW id \in DOMAIN View(l)
  PROVE  <<id, View(l)[id]>> \in Known
<1>1. CASE id \in DOMAIN load[l].rows
  <2> DEFINE held == {<<x, load[l].rows[x]>> : x \in DOMAIN load[l].rows}
  <2>1. <<id, View(l)[id]>> \in held
    BY <1>1, ViewIs
  <2>2. held \subseteq Known
    BY DEF Known
  <2> QED BY <2>1, <2>2
<1>2. CASE id \in DOMAIN table \ DOMAIN load[l].rows
  BY <1>2, ViewIs DEF Known
<1> QED BY <1>1, <1>2, ViewIs

\* No two rows clash if none has changed its key.
LEMMA NoClashKept ==
  ASSUME NoClash, partitioned' = partitioned,
         \A p \in Known' : \E q \in Known : q[1] = p[1] /\ SameKeys(p[2], q[2])
  PROVE  NoClash'
<1> SUFFICES ASSUME NEW p \in Known', NEW q \in Known', p[1] # q[1], Clash(p[2], q[2])
             PROVE  FALSE
  BY DEF NoClash, Clash, SameDedupKey, SameUntranslated, SameText
<1>1. PICK x \in Known : x[1] = p[1] /\ SameKeys(p[2], x[2])
  OBVIOUS
<1>2. PICK y \in Known : y[1] = q[1] /\ SameKeys(q[2], y[2])
  OBVIOUS
<1>3. Clash(x[2], y[2])
  BY <1>1, <1>2, ClashKept
<1> QED BY <1>1, <1>2, <1>3 DEF NoClash

\* What a step of one load has to show that inserts no row
LEMMA UniqueGoes ==
  ASSUME RowsInv, UniqueInv, NEW l \in Loaders, Alters(l), NEW t, load'[l] = t,
         t.doc = load[l].doc,
         t.pc \notin {"start", "done", "failed"} =>
           Open(l) \/ (partitioned => \A m \in Loaders : ~Open(m)),
         \A id \in DOMAIN t.rows : id \in DOMAIN View(l) /\ SameKeys(t.rows[id], View(l)[id]),
         t.pc \in {"update", "map", "upsert", "map_loaded"} =>
           /\ t.staged \subseteq DOMAIN t.doc
           /\ \A i, j \in t.staged : i # j => ~SameSignature(t.doc[i], t.doc[j]),
         t.pc = "upsert" /\ partitioned =>
           /\ t.rows = load[l].rows
           /\ \A i \in t.staged, id \in DOMAIN View(l) : ~SameUntranslated(View(l)[id], t.doc[i])
  PROVE  UniqueInv'
<1>1. load'[l] = t /\ \A m \in Loaders \ {l} : load'[m] = load[m]
  BY DEF Alters
<1>t. UNCHANGED <<partitioned, table>>
  BY DEF Alters
<1>2. Alone'
  BY <1>1, <1>t DEF UniqueInv, Alone, Open
<1>3. NoClash'
  <2>1. ASSUME NEW p \in Known' PROVE \E q \in Known : q[1] = p[1] /\ SameKeys(p[2], q[2])
    <3>1. CASE \E id \in DOMAIN table : p = <<id, table[id]>>
      BY <3>1, SameKeysItself DEF Known
    <3>2. CASE \E id \in DOMAIN t.rows : p = <<id, t.rows[id]>>
      <4>1. PICK id \in DOMAIN t.rows : p = <<id, t.rows[id]>>
        BY <3>2
      <4>2. <<id, View(l)[id]>> \in Known /\ SameKeys(t.rows[id], View(l)[id])
        BY ViewKnown
      <4> QED BY <4>1, <4>2
    <3>3. CASE \E m \in Loaders \ {l} : \E id \in DOMAIN load[m].rows : p = <<id, load[m].rows[id]>>
      BY <3>3, SameKeysItself DEF Known
    <3>4. \/ \E id \in DOMAIN table : p = <<id, table[id]>>
          \/ \E m \in Loaders : \E id \in DOMAIN load'[m].rows : p = <<id, load'[m].rows[id]>>
      BY <1>t, <2>1 DEF Known
    <3> QED BY <1>1, <3>1, <3>2, <3>3, <3>4
  <2> QED BY <1>t, <2>1, NoClashKept DEF UniqueInv
<1>4. ASSUME NEW m \in Loaders PROVE Staged(m)'
  <2>1. CASE m # l
    <3>1. load'[m] = load[m] /\ View(m)' = View(m)
      BY <1>1, <1>t, <2>1 DEF View
    <3> QED BY <1>t, <3>1 DEF UniqueInv, Staged, Unit, SameSignature, SameUntranslated, SameText
  <2>2. CASE m = l
    <3>1. load'[l] = t /\ \A i : Unit(l, i)' = t.doc[i]
      BY <1>1 DEF Unit
    <3>2. t.rows = load[l].rows => View(l)' = View(l)
      BY <1>1, <1>t DEF View
    <3> QED BY <1>t, <2>2, <3>1, <3>2 DEF Staged, SameSignature, SameUntranslated, SameText
  <2> QED BY <2>1, <2>2
<1> QED BY <1>2, <1>3, <1>4 DEF UniqueInv

LEMMA UniqueInit == Init => UniqueInv
<1> SUFFICES ASSUME Init PROVE UniqueInv
  OBVIOUS
<1>1. \A l \in Loaders : load[l].pc = "start" /\ DOMAIN load[l].rows = {}
  <2> SUFFICES ASSUME NEW l \in Loaders PROVE load[l].pc = "start" /\ DOMAIN load[l].rows = {}
    OBVIOUS
  <2>1. load \in [Loaders -> {[Idle EXCEPT !.doc = d] : d \in Documents}]
    BY DEF Init
  <2>2. PICK d : load[l] = [Idle EXCEPT !.doc = d]
    BY <2>1
  <2> QED BY <2>2, IdleIs DEF HasFields, LoadFields
<1>2. Alone /\ \A l \in Loaders : Staged(l)
  BY <1>1 DEF Alone, Open, Staged
<1>3. \A p \in Known : \E id \in DOMAIN LegacyRows : p = <<id, LegacyRows[id]>>
  BY <1>1 DEF Known, Init
<1>4. NoClash
  <2>1. \A a, b \in DOMAIN LegacyRows : a # b => ~Clash(LegacyRows[a], LegacyRows[b])
    BY LegacyKeysAssumption DEF Clash
  <2> QED BY <1>3, <2>1 DEF NoClash
<1> QED BY <1>2, <1>4 DEF UniqueInv

\* A step of a load that inserts no row and stages no unit
LEMMA UniqueKeeps ==
  ASSUME RowsInv, UniqueInv, NEW l \in Loaders, Alters(l), load'[l].doc = load[l].doc,
         load'[l].pc \notin {"start", "done", "failed"} => Open(l),
         load'[l].pc \notin {"update", "upsert"},
         \/ load'[l].staged = {}
         \/ load'[l].staged = load[l].staged /\ load[l].pc \in {"update", "map", "upsert", "map_loaded"},
         \A id \in DOMAIN load'[l].rows : id \in DOMAIN View(l) /\ SameKeys(load'[l].rows[id], View(l)[id])
  PROVE  UniqueInv'
<1>1. load'[l].staged \subseteq DOMAIN load'[l].doc /\ \A i, j \in load'[l].staged : i # j => ~SameSignature(load'[l].doc[i], load'[l].doc[j])
  BY DEF UniqueInv, Staged, Unit
<1> QED BY <1>1, UniqueGoes

LEMMA UniqueEnded ==
  ASSUME RowsInv, UniqueInv, NEW l \in Loaders, Ended(l)
  PROVE  UniqueInv'
BY UniqueKeeps DEF Ended

\* The rows a load keeps have the keys they had.
LEMMA RowsKept ==
  ASSUME NEW l \in Loaders, load'[l].rows = load[l].rows
  PROVE  \A id \in DOMAIN load'[l].rows : id \in DOMAIN View(l) /\ SameKeys(load'[l].rows[id], View(l)[id])
BY ViewIs, SameKeysItself

LEMMA UniqueBegin ==
  ASSUME RowsInv, UniqueInv, NEW l \in Loaders, Begin(l)
  PROVE  UniqueInv'
<1>1. /\ Alters(l) /\ EnsurePartition(l) /\ load'[l].pc = "next"
      /\ load'[l].doc = load[l].doc /\ load'[l].rows = load[l].rows
  BY BeginIs DEF Keeps, LoadFields
<1> QED BY <1>1, RowsKept, UniqueGoes DEF EnsurePartition

LEMMA UniqueStage ==
  ASSUME RowsInv, UniqueInv, NEW l \in Loaders, Stage(l)
  PROVE  UniqueInv'
<1>1. CASE Ended(l)
  BY <1>1, UniqueEnded
<1>2. CASE /\ Alters(l) /\ Keeps(l, {"pc", "read", "map", "staged"})
           /\ load'[l].pc = "update" /\ DOMAIN load'[l].map = {}
           /\ load'[l].staged \subseteq DOMAIN load[l].doc
           /\ \A i, j \in load'[l].staged : i # j => ~SameSignature(Unit(l, i), Unit(l, j))
  <2>1. load'[l].doc = load[l].doc /\ load'[l].rows = load[l].rows /\ Open(l)
    BY <1>2, StageIs DEF Keeps, LoadFields, Open
  <2> QED BY <1>2, <2>1, RowsKept, UniqueGoes DEF Unit
<1> QED BY <1>1, <1>2, StageIs

LEMMA UniqueUpdate ==
  ASSUME RowsInv, UniqueInv, NEW l \in Loaders, UpdateExistingUntranslated(l)
  PROVE  UniqueInv'
<1>1. /\ Alters(l) /\ load[l].pc = "update" /\ load'[l].pc = "map" /\ Open(l)
      /\ load'[l].doc = load[l].doc /\ load'[l].staged = load[l].staged
  BY UpdateIs DEF Keeps, LoadFields, Open
<1>2. ASSUME NEW id \in DOMAIN load'[l].rows
      PROVE  id \in DOMAIN View(l) /\ SameKeys(load'[l].rows[id], View(l)[id])
  <2>1. CASE id \in UntranslatedHits(l)
    BY <2>1, UpdateIs
  <2>2. CASE id \in DOMAIN load[l].rows \ UntranslatedHits(l)
    <3>1. load'[l].rows[id] = load[l].rows[id]
      BY <2>2, UpdateIs
    <3>2. id \in DOMAIN View(l) /\ View(l)[id] = load[l].rows[id]
      BY <2>2, ViewIs
    <3> QED BY <3>1, <3>2, SameKeysItself
  <2> QED BY <2>1, <2>2, UpdateIs
<1> QED BY <1>1, <1>2, UniqueKeeps

\* What is still staged after the mapping has no row without a target.
LEMMA UniqueMap ==
  ASSUME RowsInv, UniqueInv, NEW l \in Loaders, MapExistingUntranslated(l)
  PROVE  UniqueInv'
<1> DEFINE Matches(i) == {id \in DOMAIN View(l) : SameUntranslated(View(l)[id], Unit(l, i))}
           found == {i \in load[l].staged : Matches(i) # {}}
<1>1. /\ Alters(l) /\ load[l].pc = "map" /\ load'[l].pc = "upsert" /\ Open(l)
      /\ load'[l].doc = load[l].doc /\ load'[l].rows = load[l].rows
      /\ load'[l].staged = load[l].staged \ found
  BY MapIs DEF Keeps, LoadFields, Open
<1>2. /\ load'[l].staged \subseteq DOMAIN load[l].doc
      /\ \A i, j \in load'[l].staged : i # j => ~SameSignature(load[l].doc[i], load[l].doc[j])
  BY <1>1 DEF UniqueInv, Staged, Unit
<1>3. \A i \in load'[l].staged, id \in DOMAIN View(l) : ~SameUntranslated(View(l)[id], load[l].doc[i])
  BY <1>1 DEF Unit
<1> HIDE DEF found
<1> QED BY <1>1, <1>2, <1>3, RowsKept, UniqueGoes

\* A unit that has no row yet does not clash with any row somebody knows: with those
\* the load sees by the statement itself, with those of other loads because it waited
\* for them, or is the only one.
LEMMA NewIsFree ==
  ASSUME RowsInv, UniqueInv, NEW l \in Loaders, load[l].pc = "upsert", MayRun(l),
         NEW i \in load[l].staged, \A id \in DOMAIN View(l) : ~SameDedupKey(View(l)[id], Unit(l, i)),
         NEW p \in Known
  PROVE  ~Clash(p[2], Unit(l, i))
<1>1. \A id \in DOMAIN View(l) : ~Clash(View(l)[id], Unit(l, i))
  BY DEF UniqueInv, Staged, Clash
<1>2. CASE \E id \in DOMAIN table : p = <<id, table[id]>>
  <2>1. PICK id \in DOMAIN table : p = <<id, table[id]>>
    BY <1>2
  <2>2. CASE id \in DOMAIN load[l].rows
    <3>1. SameKeys(View(l)[id], table[id]) /\ id \in DOMAIN View(l)
      BY <2>1, <2>2, ViewIs DEF RowsInv, RowsMove, Moved
    <3>2. Clash(table[id], Unit(l, i)) => Clash(View(l)[id], Unit(l, i))
      BY <3>1 DEF SameKeys, Clash, SameDedupKey, SameUntranslated, SameText
    <3> QED BY <1>1, <2>1, <3>1, <3>2
  <2>3. CASE id \notin DOMAIN load[l].rows
    BY <1>1, <2>1, <2>3, ViewIs
  <2> QED BY <2>2, <2>3
<1>3. CASE \E id \in DOMAIN load[l].rows : p = <<id, load[l].rows[id]>>
  <2>1. PICK id \in DOMAIN load[l].rows : p = <<id, load[l].rows[id]>>
    BY <1>3
  <2>2. id \in DOMAIN View(l) /\ View(l)[id] = p[2]
    BY <2>1, ViewIs
  <2> QED BY <1>1, <2>2
<1>4. ASSUME NEW m \in Loaders \ {l}, NEW id \in DOMAIN load[m].rows, p = <<id, load[m].rows[id]>>
      PROVE  ~Clash(p[2], Unit(l, i))
  <2>1. ~SameDedupKey(load[m].rows[id], Unit(l, i))
    BY <1>4 DEF MayRun, BlockingLoads, ConflictsWith
  <2>2. Open(l) /\ Open(m)
    BY <1>4 DEF Open, RowsInv, Locks
  <2>3. ~partitioned
    BY <2>2 DEF UniqueInv, Alone
  <2> QED BY <1>4, <2>1, <2>3 DEF Clash
<1>5. \/ \E id \in DOMAIN table : p = <<id, table[id]>>
      \/ \E m \in Loaders : \E id \in DOMAIN load[m].rows : p = <<id, load[m].rows[id]>>
  BY DEF Known
<1> QED BY <1>2, <1>3, <1>4, <1>5

LEMMA UniqueUpsert ==
  ASSUME NoCollision, RowsInv, UniqueInv, NEW l \in Loaders, UpsertUnits(l)
  PROVE  UniqueInv'
<1>1. CASE Ended(l)
  BY <1>1, UniqueEnded
<1>2. CASE ~Ended(l)
  <2> DEFINE New(p, i) == /\ p[1] = <<l, i>> /\ SameKeys(p[2], Unit(l, i))
                          /\ \A x \in DOMAIN View(l) : ~SameDedupKey(View(l)[x], Unit(l, i))
             Old(p) == \E q \in Known : q[1] = p[1] /\ SameKeys(p[2], q[2])
  <2>1. /\ load[l].pc = "upsert" /\ MayRun(l)
        /\ Alters(l) /\ load'[l].pc = "map_loaded" /\ ~TouchesTwice(l) /\ Open(l)
        /\ load'[l].doc = load[l].doc /\ load'[l].staged = load[l].staged
        /\ \A id \in DOMAIN load'[l].rows :
             \/ id \in DOMAIN load[l].rows /\ load'[l].rows[id] = load[l].rows[id]
             \/ \E i \in load[l].staged : Writes(l, i, id)
    BY <1>2, UpsertIs DEF Keeps, LoadFields, Open
  <2>2. load[l].doc \in Documents /\ UNCHANGED <<partitioned, table>> /\ \A m \in Loaders \ {l} : load'[m] = load[m]
    BY <2>1 DEF RowsInv, TypeOK, IsLoad, Alters
  <2>3. ASSUME NEW p \in Known' PROVE Old(p) \/ \E i \in load[l].staged : New(p, i)
    <3>1. CASE \E id \in DOMAIN table : p = <<id, table[id]>>
      BY <3>1, SameKeysItself DEF Known
    <3>2. CASE \E m \in Loaders \ {l} : \E id \in DOMAIN load[m].rows : p = <<id, load[m].rows[id]>>
      BY <3>2, SameKeysItself DEF Known
    <3>3. ASSUME NEW id \in DOMAIN load'[l].rows, p = <<id, load'[l].rows[id]>>
          PROVE  Old(p) \/ \E i \in load[l].staged : New(p, i)
      <4>1. CASE id \in DOMAIN load[l].rows /\ load'[l].rows[id] = load[l].rows[id]
        <5>1. p \in {<<x, load[l].rows[x]>> : x \in DOMAIN load[l].rows}
          BY <3>3, <4>1
        <5>2. p \in Known
          BY <5>1 DEF Known
        <5> QED BY <5>2, SameKeysItself
      <4>2. ASSUME NEW i \in load[l].staged, Writes(l, i, id)
            PROVE  Old(p) \/ New(p, i)
        <5>1. CASE id \in DOMAIN View(l) /\ SameKeys(load'[l].rows[id], View(l)[id])
          <6>1. <<id, View(l)[id]>> \in Known
            BY <5>1, ViewKnown
          <6> QED BY <3>3, <5>1, <6>1
        <5>2. CASE /\ id = <<l, i>> /\ SameKeys(load'[l].rows[id], Unit(l, i))
                   /\ \A x \in DOMAIN View(l) : ~SameDedupKey(View(l)[x], Unit(l, i))
          BY <3>3, <5>2
        <5> QED BY <4>2, <5>1, <5>2 DEF Writes
      <4> QED BY <2>1, <3>3, <4>1, <4>2
    <3>4. \/ \E id \in DOMAIN table : p = <<id, table[id]>>
          \/ \E m \in Loaders : \E id \in DOMAIN load'[m].rows : p = <<id, load'[m].rows[id]>>
      BY <2>2, <2>3 DEF Known
    <3> QED BY <2>2, <3>1, <3>2, <3>3, <3>4
  <2>4. ASSUME NEW i \in load[l].staged, NEW p, NEW q, New(p, i), Old(q)
        PROVE  ~Clash(q[2], p[2])
    <3>1. PICK r \in Known : r[1] = q[1] /\ SameKeys(q[2], r[2])
      BY <2>4
    <3>2. ~Clash(r[2], Unit(l, i))
      BY <2>1, <2>4, NewIsFree
    <3> QED BY <2>4, <3>1, <3>2, ClashKept
  <2>5. ASSUME NEW i \in load[l].staged, NEW j \in load[l].staged, i # j
        PROVE  ~Clash(Unit(l, i), Unit(l, j))
    <3>1. ~SameDedupKey(Unit(l, i), Unit(l, j))
      BY <2>1, <2>5 DEF TouchesTwice
    <3>2. i \in DOMAIN load[l].doc /\ j \in DOMAIN load[l].doc /\ ~SameSignature(Unit(l, i), Unit(l, j))
      BY <2>1, <2>5 DEF UniqueInv, Staged
    <3>3. SameUntranslated(Unit(l, i), Unit(l, j)) => Unit(l, i).ctx = Unit(l, j).ctx
      BY <2>2, <3>2 DEF NoCollision, Unit
    <3> QED BY <3>1, <3>2, <3>3 DEF Clash, SameUntranslated, SameText, SameSignature
  <2>6. ASSUME NEW p \in Known', NEW q \in Known', p[1] # q[1], Clash(p[2], q[2])
        PROVE  FALSE
    <3>1. Clash(q[2], p[2])
      BY <2>6, ClashSymmetric
    <3>2. CASE Old(p) /\ Old(q)
      <4>1. PICK x \in Known, y \in Known : x[1] = p[1] /\ SameKeys(p[2], x[2]) /\ y[1] = q[1] /\ SameKeys(q[2], y[2])
        BY <3>2
      <4> QED BY <2>6, <4>1, ClashKept DEF UniqueInv, NoClash
    <3>3. CASE \E i, j \in load[l].staged : New(p, i) /\ New(q, j)
      <4>1. PICK i \in load[l].staged, j \in load[l].staged : New(p, i) /\ New(q, j)
        BY <3>3
      <4> QED BY <2>5, <2>6, <4>1, ClashKept
    <3> HIDE DEF New, Old
    <3> QED BY <2>3, <2>4, <2>6, <3>1, <3>2, <3>3
  <2>7. NoClash'
    BY <2>2, <2>6 DEF NoClash, Clash, SameDedupKey, SameUntranslated, SameText
  <2>8. Alone'
    BY <2>1, <2>2 DEF UniqueInv, Alone, Open
  <2>9. ASSUME NEW m \in Loaders PROVE Staged(m)'
    <3>1. CASE m # l
      <4>1. load'[m] = load[m] /\ View(m)' = View(m)
        BY <2>2, <3>1 DEF View
      <4> QED BY <2>2, <4>1 DEF UniqueInv, Staged, Unit, SameSignature, SameUntranslated, SameText
    <3>2. CASE m = l
      BY <2>1, <3>2 DEF UniqueInv, Staged, Unit, SameSignature
    <3> QED BY <3>1, <3>2
  <2> QED BY <2>7, <2>8, <2>9 DEF UniqueInv
<1> QED BY <1>1, <1>2

LEMMA UniqueMapLoaded ==
  ASSUME RowsInv, UniqueInv, NEW l \in Loaders, MapLoadedUnits(l)
  PROVE  UniqueInv'
<1>1. /\ Alters(l) /\ load'[l].pc = "children" /\ Open(l) /\ load'[l].staged = {}
      /\ load'[l].doc = load[l].doc /\ load'[l].rows = load[l].rows
  BY MapLoadedIs DEF Keeps, LoadFields, Open
<1> QED BY <1>1, RowsKept, UniqueKeeps

LEMMA UniqueReplace ==
  ASSUME RowsInv, UniqueInv, NEW l \in Loaders, ReplaceChildren(l)
  PROVE  UniqueInv'
<1>1. /\ Alters(l) /\ load'[l].pc = "next" /\ Open(l)
      /\ load'[l].doc = load[l].doc /\ load'[l].rows = load[l].rows
  BY ReplaceIs DEF Keeps, LoadFields, Open
<1> QED BY <1>1, RowsKept, UniqueGoes

\* A commit makes rows known to all that were known to one.
LEMMA UniqueCommit ==
  ASSUME RowsInv, UniqueInv, NEW l \in Loaders, Commit(l)
  PROVE  UniqueInv'
<1>1. /\ load[l].pc = "next" /\ table' = View(l) /\ load'[l].pc = "done" /\ DOMAIN load'[l].rows = {}
      /\ \A m \in Loaders \ {l} : load'[m] = load[m]
  BY CommitIs
<1>2. partitioned' = partitioned
  BY DEF Commit
<1>3. NoClash'
  <2>1. ASSUME NEW p \in Known' PROVE p \in Known
    <3>1. \/ \E id \in DOMAIN table' : p = <<id, table'[id]>>
          \/ \E m \in Loaders : \E id \in DOMAIN load'[m].rows : p = <<id, load'[m].rows[id]>>
      BY <2>1 DEF Known
    <3>2. CASE \E id \in DOMAIN View(l) : p = <<id, View(l)[id]>>
      BY <3>2, ViewKnown
    <3>3. CASE \E m \in Loaders \ {l} : \E id \in DOMAIN load[m].rows : p = <<id, load[m].rows[id]>>
      BY <3>3 DEF Known
    <3> QED BY <1>1, <3>1, <3>2, <3>3
  <2> QED BY <1>2, <2>1, SameKeysItself, NoClashKept DEF UniqueInv
<1>4. Alone'
  BY <1>1, <1>2 DEF UniqueInv, Alone, Open
<1>5. ASSUME NEW m \in Loaders PROVE Staged(m)'
  <2>1. CASE m = l
    BY <1>1, <2>1 DEF Staged
  <2>2. CASE m # l
    <3>1. load'[m] = load[m]
      BY <1>1, <2>2
    <3>2. ~(load[m].pc = "upsert" /\ partitioned)
      BY <1>1, <2>2 DEF UniqueInv, Alone, Open
    <3> QED BY <1>2, <3>1, <3>2 DEF UniqueInv, Staged, Unit, SameSignature
  <2> QED BY <2>1, <2>2
<1> QED BY <1>3, <1>4, <1>5 DEF UniqueInv

LEMMA UniqueLoadFails ==
  ASSUME RowsInv, UniqueInv, NEW l \in Loaders, Fail(l) \/ BreakDeadlock(l)
  PROVE  UniqueInv'
<1>1. /\ Goes(l, [Idle EXCEPT !.pc = "failed", !.doc = load[l].doc])
      /\ UNCHANGED <<partitioned, table, kids>>
  BY DEF Fail, BreakDeadlock, Rest
<1> QED BY <1>1, EndedIs, UniqueEnded

\* A step that leaves the loads alone and the keys of the rows as they are
LEMMA UniqueSameLoads ==
  ASSUME UniqueInv, UNCHANGED <<partitioned, load>>, DOMAIN table' = DOMAIN table,
         \A id \in DOMAIN table :
           /\ table'[id].key = table[id].key /\ table'[id].src = table[id].src
           /\ table'[id].ctx = table[id].ctx /\ table'[id].tgt = table[id].tgt
  PROVE  UniqueInv'
<1>1. NoClash'
  <2>1. ASSUME NEW p \in Known' PROVE \E q \in Known : q[1] = p[1] /\ SameKeys(p[2], q[2])
    <3>1. \/ \E id \in DOMAIN table : p = <<id, table'[id]>>
          \/ \E m \in Loaders : \E id \in DOMAIN load[m].rows : p = <<id, load[m].rows[id]>>
      BY <2>1 DEF Known
    <3>2. CASE \E m \in Loaders : \E id \in DOMAIN load[m].rows : p = <<id, load[m].rows[id]>>
      BY <3>2, SameKeysItself DEF Known
    <3>3. CASE \E id \in DOMAIN table : p = <<id, table'[id]>>
      <4>1. PICK id \in DOMAIN table : p = <<id, table'[id]>>
        BY <3>3
      <4>2. <<id, table[id]>> \in Known /\ SameKeys(table'[id], table[id])
        BY DEF Known, SameKeys
      <4> QED BY <4>1, <4>2
    <3> QED BY <3>1, <3>2, <3>3
  <2> QED BY <2>1, NoClashKept DEF UniqueInv
<1>2. Alone'
  BY DEF UniqueInv, Alone, Open
<1>3. ASSUME NEW l \in Loaders PROVE Staged(l)'
  <2>1. /\ DOMAIN View(l)' = DOMAIN View(l)
        /\ \A id \in DOMAIN View(l) :
             /\ View(l)'[id].key = View(l)[id].key /\ View(l)'[id].src = View(l)[id].src
             /\ View(l)'[id].ctx = View(l)[id].ctx /\ View(l)'[id].tgt = View(l)[id].tgt
    BY DEF View
  <2> QED BY <2>1 DEF UniqueInv, Staged, Unit, SameSignature, SameUntranslated, SameText
<1> QED BY <1>1, <1>2, <1>3 DEF UniqueInv

LEMMA UniqueLegacy ==
  ASSUME UniqueInv, NEW id \in DOMAIN LegacyRows, LegacyInsert(id)
  PROVE  UniqueInv'
<1>1. /\ UNCHANGED <<partitioned, load>> /\ DOMAIN table' = DOMAIN table \cup {id} /\ id \notin DOMAIN table
      /\ table'[id] = LegacyRows[id] /\ \A x \in DOMAIN table : table'[x] = table[x]
  BY DEF LegacyInsert
<1>2. ASSUME NEW p \in Known PROVE ~Clash(p[2], LegacyRows[id])
  BY DEF Known, LegacyInsert, Clash
<1>3. ASSUME NEW p \in Known' PROVE p \in Known \/ p = <<id, LegacyRows[id]>>
  <2>1. \/ \E x \in DOMAIN table' : p = <<x, table'[x]>>
        \/ \E m \in Loaders : \E x \in DOMAIN load[m].rows : p = <<x, load[m].rows[x]>>
    BY <1>1, <1>3 DEF Known
  <2> QED BY <1>1, <2>1 DEF Known
<1>4. ASSUME NEW p \in Known', NEW q \in Known', p[1] # q[1], Clash(p[2], q[2])
      PROVE  FALSE
  <2>1. Clash(q[2], p[2])
    BY <1>4, ClashSymmetric
  <2> QED BY <1>2, <1>3, <1>4, <2>1 DEF UniqueInv, NoClash
<1>5. NoClash'
  BY <1>1, <1>4 DEF NoClash, Clash, SameDedupKey, SameUntranslated, SameText
<1>6. Alone'
  BY <1>1 DEF UniqueInv, Alone, Open
<1>7. ASSUME NEW l \in Loaders PROVE Staged(l)'
  <2>1. ~(load[l].pc = "upsert" /\ partitioned)
    BY DEF LegacyInsert, Open
  <2> QED BY <1>1, <2>1 DEF UniqueInv, Staged, Unit, SameSignature
<1> QED BY <1>5, <1>6, <1>7 DEF UniqueInv

LEMMA UniqueNext ==
  ASSUME NoCollision
  PROVE  RowsInv /\ UniqueInv /\ [Next]_vars => UniqueInv'
<1> SUFFICES ASSUME RowsInv, UniqueInv, [Next]_vars PROVE UniqueInv'
  OBVIOUS
<1>1. CASE UNCHANGED vars
  BY <1>1, UniqueSameLoads DEF vars
<1>2. ASSUME NEW l \in Loaders, LoadStep(l) \/ Fail(l) PROVE UniqueInv'
  BY <1>2, UniqueBegin, UniqueStage, UniqueUpdate, UniqueMap, UniqueUpsert, UniqueMapLoaded, UniqueReplace,
     UniqueCommit, UniqueLoadFails DEF LoadStep, Statement
<1>3. ASSUME NEW s \in Setups, SetupStep(s) \/ RestartSetup(s) PROVE UniqueInv'
  <2>1. CASE UpdateReindexBatch(s)
    BY <2>1, ReindexIs, UniqueSameLoads DEF UpdateReindexBatch
  <2>2. CASE Migrate(s) \/ FetchReindexBatch(s) \/ RestartSetup(s)
    BY <2>2, UniqueSameLoads DEF Migrate, FetchReindexBatch, RestartSetup
  <2> QED BY <1>3, <2>1, <2>2 DEF SetupStep
<1>4. ASSUME NEW id \in DOMAIN LegacyRows, LegacyInsert(id) PROVE UniqueInv'
  BY <1>4, UniqueLegacy
<1> QED BY <1>1, <1>2, <1>3, <1>4 DEF Next

-----------------------------------------------------------------------------
(* KidsInv: each step *)

\* What other transactions do does not disturb a load: they leave the children of the
\* rows it has locked alone.
LEMMA KidsOther ==
  ASSUME NEW l \in Loaders, LoadKids(l), load'[l] = load[l], partitioned' = partitioned,
         DOMAIN table \subseteq DOMAIN table', \A id \in DOMAIN table : table'[id].tgt = table[id].tgt,
         \A id \in DOMAIN load[l].rows :
           /\ id \in DOMAIN table' => id \in DOMAIN table
           /\ id \in DOMAIN table /\ Tracked(load[l].rows[id]) => kids'[id] = kids[id],
         load[l].pc = "map" /\ partitioned =>
           /\ DOMAIN table' = DOMAIN table
           /\ \A id \in DOMAIN table : /\ table'[id].key = table[id].key /\ table'[id].src = table[id].src
                                       /\ table'[id].ctx = table[id].ctx
  PROVE  LoadKids(l)'
<1>1. /\ DOMAIN View(l) \subseteq DOMAIN View(l)'
      /\ \A id \in DOMAIN View(l) : View(l)'[id].tgt = View(l)[id].tgt
  BY DEF View
<1>2. \A i : Unit(l, i)' = Unit(l, i)
  BY DEF Unit
<1>3. \A id, i : Pending(l, id, i)' <=> Pending(l, id, i)
  BY <1>2 DEF Pending, SameUntranslated, SameDedupKey, SameText
<1>4. RowTracked(l)'
  <2> SUFFICES ASSUME NEW id \in DOMAIN load[l].rows, Tracked(load[l].rows[id])
               PROVE  Settled(l, id)' \/ \E i : Pending(l, id, i)'
    BY DEF RowTracked, Tracked
  <2>1. CASE Settled(l, id)
    BY <2>1 DEF Settled
  <2>2. CASE \E i : Pending(l, id, i)
    BY <1>3, <2>2
  <2> QED BY <2>1, <2>2 DEF LoadKids, RowTracked
<1>5. Mapped(l)'
  BY <1>1 DEF LoadKids, Mapped, Tracked
<1>6. Hits(l)'
  <2>1. load[l].pc = "map" /\ partitioned =>
          /\ DOMAIN View(l)' = DOMAIN View(l)
          /\ \A id \in DOMAIN View(l) :
               /\ View(l)'[id].key = View(l)[id].key /\ View(l)'[id].src = View(l)[id].src
               /\ View(l)'[id].ctx = View(l)[id].ctx /\ View(l)'[id].tgt = View(l)[id].tgt
    BY DEF View
  <2>2. (load[l].pc = "map" /\ partitioned =>
          \A id \in DOMAIN View(l), i \in load[l].staged :
            SameUntranslated(View(l)[id], Unit(l, i)) => id \in DOMAIN load[l].rows /\ load[l].rows[id].by = <<l, i>>)'
    BY <1>2, <2>1 DEF LoadKids, Hits, SameUntranslated, SameText
  <2>3. (load[l].pc = "map_loaded" => \A i \in load[l].staged : \E id \in DOMAIN load[l].rows : Pending(l, id, i))'
    BY <1>3 DEF LoadKids, Hits
  <2> QED BY <2>2, <2>3 DEF Hits
<1>7. Born(l)'
  BY DEF LoadKids, Born, Tracked
<1> QED BY <1>4, <1>5, <1>6, <1>7 DEF LoadKids

\* What a step of one load has to show
LEMMA KidsGoes ==
  ASSUME KidsInv, NEW l \in Loaders, Alters(l), LoadKids(l)'
  PROVE  KidsInv'
<1>1. ASSUME NEW m \in Loaders \ {l} PROVE LoadKids(m)'
  BY KidsOther DEF KidsInv, Alters
<1>2. DOMAIN kids' = DOMAIN table' /\ KidsMatchRow'
  BY DEF KidsInv, KidsMatchRow, Alters
<1> QED BY <1>1, <1>2 DEF KidsInv

LEMMA KidsInit == Init => KidsInv
<1> SUFFICES ASSUME Init PROVE KidsInv
  OBVIOUS
<1>1. \A l \in Loaders : load[l].pc = "start" /\ DOMAIN load[l].rows = {} /\ DOMAIN load[l].born = {}
  <2> SUFFICES ASSUME NEW l \in Loaders
               PROVE  load[l].pc = "start" /\ DOMAIN load[l].rows = {} /\ DOMAIN load[l].born = {}
    OBVIOUS
  <2>1. load \in [Loaders -> {[Idle EXCEPT !.doc = d] : d \in Documents}]
    BY DEF Init
  <2>2. PICK d : load[l] = [Idle EXCEPT !.doc = d]
    BY <2>1
  <2> QED BY <2>2, IdleIs DEF HasFields, LoadFields
<1>2. \A l \in Loaders : LoadKids(l)
  BY <1>1 DEF LoadKids, RowTracked, Mapped, Hits, Born
<1>3. DOMAIN kids = DOMAIN table /\ KidsMatchRow
  BY DEF Init, KidsMatchRow
<1> QED BY <1>2, <1>3 DEF KidsInv

LEMMA KidsEnded ==
  ASSUME KidsInv, NEW l \in Loaders, Ended(l)
  PROVE  KidsInv'
<1>1. LoadKids(l)'
  BY DEF Ended, LoadKids, RowTracked, Mapped, Hits, Born
<1> QED BY <1>1, KidsGoes DEF Ended

\* Between two batches everything is settled.
LEMMA KidsQuiet ==
  ASSUME KidsInv, NEW l \in Loaders, Alters(l), load[l].pc \in {"start", "next"}, load'[l].pc \in {"next", "update"},
         load'[l].rows = load[l].rows, load'[l].gone = load[l].gone, load'[l].born = load[l].born
  PROVE  KidsInv'
<1>1. RowTracked(l)'
  BY DEF KidsInv, LoadKids, RowTracked, Tracked, Settled, Pending, Alters
<1>2. Mapped(l)' /\ Hits(l)'
  BY DEF Mapped, Hits
<1>3. Born(l)'
  BY DEF KidsInv, LoadKids, Born, Tracked, Alters
<1> QED BY <1>1, <1>2, <1>3, KidsGoes DEF LoadKids

LEMMA KidsBegin ==
  ASSUME RowsInv, KidsInv, NEW l \in Loaders, Begin(l)
  PROVE  KidsInv'
BY BeginIs, KidsQuiet DEF Keeps, LoadFields

LEMMA KidsStage ==
  ASSUME RowsInv, KidsInv, NEW l \in Loaders, Stage(l)
  PROVE  KidsInv'
<1>1. CASE Ended(l)
  BY <1>1, KidsEnded
<1>2. CASE Alters(l) /\ Keeps(l, {"pc", "read", "map", "staged"}) /\ load'[l].pc = "update"
  BY <1>2, StageIs, KidsQuiet DEF Keeps, LoadFields
<1> QED BY <1>1, <1>2, StageIs

LEMMA KidsUpdate ==
  ASSUME NoCollision, RowsInv, UniqueInv, KidsInv, NEW l \in Loaders, UpdateExistingUntranslated(l)
  PROVE  KidsInv'
<1> DEFINE hits == UntranslatedHits(l)
<1>1. /\ Alters(l) /\ load[l].pc = "update" /\ load'[l].pc = "map"
      /\ load'[l].doc = load[l].doc /\ load'[l].staged = load[l].staged
      /\ load'[l].gone = load[l].gone /\ load'[l].born = load[l].born
      /\ hits \subseteq DOMAIN View(l) /\ DOMAIN load'[l].rows = hits \cup DOMAIN load[l].rows
      /\ \A id \in DOMAIN load[l].rows \ hits : load'[l].rows[id] = load[l].rows[id]
  BY UpdateIs DEF Keeps, LoadFields
<1>2. \A i : Unit(l, i)' = Unit(l, i)
  BY <1>1 DEF Unit
<1>3. ASSUME NEW id \in hits
      PROVE  \E i \in load[l].staged :
               /\ SameUntranslated(View(l)[id], Unit(l, i)) /\ SameUntranslated(load'[l].rows[id], Unit(l, i))
               /\ load'[l].rows[id].by = <<l, i>>
  <2>1. PICK i \in load[l].staged :
          /\ SameUntranslated(View(l)[id], Unit(l, i))
          /\ SameKeys(load'[l].rows[id], View(l)[id]) /\ load'[l].rows[id].by = <<l, i>>
    BY <1>3, UpdateIs
  <2> QED BY <2>1 DEF SameUntranslated, SameText, SameKeys
<1> HIDE DEF hits
<1>4. RowTracked(l)'
  <2> SUFFICES ASSUME NEW id \in DOMAIN load'[l].rows, Tracked(load[l].rows[id])'
               PROVE  Settled(l, id)' \/ \E i : Pending(l, id, i)'
    BY DEF RowTracked
  <2>1. CASE id \in hits
    <3>1. PICK i \in load[l].staged :
            SameUntranslated(load'[l].rows[id], Unit(l, i)) /\ load'[l].rows[id].by = <<l, i>>
      BY <1>3, <2>1
    <3>2. Pending(l, id, i)'
      BY <1>1, <1>2, <3>1 DEF Pending, SameUntranslated, SameText
    <3> QED BY <3>2
  <2>2. CASE id \in DOMAIN load[l].rows \ hits
    <3>1. Tracked(load[l].rows[id])
      BY <1>1, <2>2 DEF Tracked, Alters
    <3>2. Settled(l, id)
      BY <1>1, <2>2, <3>1 DEF KidsInv, LoadKids, RowTracked, Pending
    <3> QED BY <1>1, <2>2, <3>2 DEF Settled, Alters
  <2> QED BY <1>1, <2>1, <2>2
<1>5. Mapped(l)'
  BY <1>1 DEF Mapped
<1>6. Hits(l)'
  <2> SUFFICES ASSUME NEW id \in DOMAIN View(l)', NEW i \in load[l].staged, SameUntranslated(View(l)'[id], Unit(l, i))
               PROVE  id \in DOMAIN load'[l].rows /\ load'[l].rows[id].by = <<l, i>>
    BY <1>1, <1>2 DEF Hits, SameUntranslated, SameText
  <2>1. View(l)' = [x \in DOMAIN load'[l].rows \cup DOMAIN table |->
                      IF x \in DOMAIN load'[l].rows THEN load'[l].rows[x] ELSE table[x]]
    BY <1>1 DEF View, Alters
  <2>2. id \in DOMAIN View(l)
    BY <1>1, <2>1, ViewIs
  <2>3. id \in hits
    <3>1. CASE id \in DOMAIN load'[l].rows /\ id \notin hits
      <4>1. id \in DOMAIN load[l].rows /\ load'[l].rows[id] = load[l].rows[id]
        BY <1>1, <3>1
      <4>2. View(l)'[id] = load'[l].rows[id]
        BY <2>1, <3>1
      <4>3. View(l)[id] = load[l].rows[id]
        BY <4>1, ViewIs
      <4> QED BY <2>2, <4>1, <4>2, <4>3 DEF UntranslatedHits, hits
    <3>2. CASE id \notin DOMAIN load'[l].rows
      <4>1. id \in DOMAIN table /\ id \notin DOMAIN load[l].rows
        BY <1>1, <2>2, <3>2, ViewIs
      <4>2. View(l)'[id] = table[id]
        BY <2>1, <3>2, <4>1
      <4>3. View(l)[id] = table[id]
        BY <4>1, ViewIs
      <4> QED BY <2>2, <4>2, <4>3 DEF UntranslatedHits, hits
    <3> QED BY <3>1, <3>2
  <2>4. PICK j \in load[l].staged :
          SameUntranslated(load'[l].rows[id], Unit(l, j)) /\ load'[l].rows[id].by = <<l, j>>
    BY <1>3, <2>3
  <2>5. SameUntranslated(load'[l].rows[id], Unit(l, i))
    BY <1>1, <2>1, <2>3
  <2>6. SameUntranslated(Unit(l, i), Unit(l, j))
    BY <2>4, <2>5 DEF SameUntranslated, SameText
  <2>7. load[l].doc \in Documents /\ i \in DOMAIN load[l].doc /\ j \in DOMAIN load[l].doc
    BY <1>1 DEF UniqueInv, Staged, RowsInv, TypeOK, IsLoad
  <2>8. SameSignature(Unit(l, i), Unit(l, j))
    BY <2>6, <2>7 DEF NoCollision, Unit, SameUntranslated, SameText, SameSignature
  <2>9. i = j
    BY <1>1, <2>8 DEF UniqueInv, Staged
  <2> QED BY <1>1, <2>3, <2>4, <2>9
<1>7. Born(l)'
  BY <1>1 DEF KidsInv, LoadKids, Born, Tracked, Alters
<1> QED BY <1>1, <1>4, <1>5, <1>6, <1>7, KidsGoes DEF LoadKids

\* Two rows of the view that stand for one unit are one row.
LEMMA ViewUnique ==
  ASSUME UniqueInv, NEW l \in Loaders, NEW a \in DOMAIN View(l), NEW b \in DOMAIN View(l),
         Clash(View(l)[a], View(l)[b])
  PROVE  a = b
<1>1. <<a, View(l)[a]>> \in Known /\ <<b, View(l)[b]>> \in Known
  BY ViewKnown
<1> QED BY <1>1 DEF UniqueInv, NoClash

LEMMA KidsMap ==
  ASSUME RowsInv, UniqueInv, KidsInv, NEW l \in Loaders, MapExistingUntranslated(l)
  PROVE  KidsInv'
<1> DEFINE map == load'[l].map
           Matches(i) == {id \in DOMAIN View(l) : SameUntranslated(View(l)[id], Unit(l, i))}
<1>1. /\ Alters(l) /\ load[l].pc = "map" /\ load'[l].pc = "upsert"
      /\ load'[l].doc = load[l].doc /\ load'[l].rows = load[l].rows
      /\ load'[l].gone = load[l].gone /\ load'[l].born = load[l].born
      /\ DOMAIN map = {i \in load[l].staged : Matches(i) # {}}
      /\ \A i \in DOMAIN map : map[i] \in Matches(i)
      /\ load'[l].staged = load[l].staged \ DOMAIN map
  BY MapIs DEF Keeps, LoadFields
<1>2. View(l)' = View(l)
  BY <1>1 DEF View, Alters
<1>3. ASSUME NEW i \in DOMAIN map
      PROVE  map[i] \in DOMAIN View(l) /\ SameUntranslated(View(l)[map[i]], Unit(l, i))
  BY <1>1, <1>3
<1>4. ASSUME NEW i \in DOMAIN map, partitioned
      PROVE  map[i] \in DOMAIN load[l].rows /\ load[l].rows[map[i]].by = <<l, i>>
  <2>1. i \in load[l].staged
    BY <1>1, <1>4
  <2> QED BY <1>1, <1>3, <1>4, <2>1 DEF KidsInv, LoadKids, Hits
<1>5. RowTracked(l)'
  <2> SUFFICES ASSUME NEW id \in DOMAIN load[l].rows, Tracked(load[l].rows[id])
               PROVE  Settled(l, id)' \/ \E i : Pending(l, id, i)'
    BY <1>1 DEF RowTracked, Tracked, Alters
  <2>1. CASE Settled(l, id)
    BY <1>1, <2>1 DEF Settled, Alters
  <2>2. ASSUME NEW i, Pending(l, id, i) PROVE Pending(l, id, i)'
    <3>1. i \in load[l].staged /\ SameUntranslated(load[l].rows[id], Unit(l, i)) /\ load[l].rows[id].by = <<l, i>>
      BY <1>1, <2>2 DEF Pending
    <3>2. id \in DOMAIN View(l) /\ View(l)[id] = load[l].rows[id]
      BY ViewIs
    <3>3. id \in Matches(i)
      BY <3>1, <3>2
    <3>4. i \in DOMAIN map
      BY <1>1, <3>1, <3>3
    <3>5. map[i] \in DOMAIN View(l) /\ SameUntranslated(View(l)[map[i]], Unit(l, i))
      BY <1>3, <3>4
    <3>6. partitioned
      BY <3>1 DEF Tracked, SameUntranslated
    <3>7. Clash(View(l)[map[i]], View(l)[id])
      BY <3>1, <3>2, <3>5, <3>6 DEF Clash, SameUntranslated, SameText
    <3>8. map[i] = id
      BY <3>2, <3>5, <3>7, ViewUnique
    <3> HIDE DEF map
    <3> QED BY <1>1, <3>1, <3>4, <3>8 DEF Pending, map
  <2> QED BY <2>1, <2>2 DEF KidsInv, LoadKids, RowTracked
<1>6. Mapped(l)'
  <2>1. \A i \in DOMAIN map :
          /\ i \notin load'[l].staged
          /\ map[i] \in DOMAIN View(l) /\ View(l)[map[i]].tgt = NoTarget
          /\ \/ map[i] \in DOMAIN load[l].rows /\ load[l].rows[map[i]].by = <<l, i>>
             \/ ~Tracked(View(l)[map[i]])
    BY <1>1, <1>3, <1>4 DEF SameUntranslated, Tracked
  <2> HIDE DEF map
  <2> QED BY <1>1, <1>2, <2>1 DEF Mapped, Tracked, Alters, map
<1>7. Hits(l)'
  BY <1>1 DEF Hits
<1>8. Born(l)'
  BY <1>1 DEF KidsInv, LoadKids, Born, Tracked, Alters
<1> QED BY <1>1, <1>5, <1>6, <1>7, <1>8, KidsGoes DEF LoadKids

LEMMA KidsUpsert ==
  ASSUME RowsInv, KidsInv, NEW l \in Loaders, UpsertUnits(l)
  PROVE  KidsInv'
<1>1. CASE Ended(l)
  BY <1>1, KidsEnded
<1>2. CASE ~Ended(l)
  <2>1. /\ load[l].pc = "upsert" /\ Alters(l) /\ load'[l].pc = "map_loaded"
        /\ load'[l].doc = load[l].doc /\ load'[l].staged = load[l].staged /\ load'[l].map = load[l].map
        /\ load'[l].gone = load[l].gone /\ load'[l].born = load[l].born
        /\ DOMAIN load[l].rows \subseteq DOMAIN load'[l].rows
        /\ \A id \in DOMAIN load'[l].rows :
             \/ id \in DOMAIN load[l].rows /\ load'[l].rows[id] = load[l].rows[id]
             \/ \E i \in load[l].staged : Writes(l, i, id)
        /\ \A i \in load[l].staged : \E id \in DOMAIN load'[l].rows : Writes(l, i, id)
    BY <1>2, UpsertIs DEF Keeps, LoadFields
  <2>2. \A i : Unit(l, i)' = Unit(l, i)
    BY <2>1 DEF Unit
  <2>3. ASSUME NEW i \in load[l].staged, NEW id, Writes(l, i, id) PROVE Pending(l, id, i)'
    <3>1. CASE /\ SameDedupKey(View(l)[id], Unit(l, i)) /\ SameKeys(load'[l].rows[id], View(l)[id])
               /\ <<l, i>> \notin DOMAIN load'[l].rows
      <4>1. SameDedupKey(load'[l].rows[id], Unit(l, i))
        BY <3>1 DEF SameDedupKey, SameText, SameKeys
      <4> QED BY <2>1, <2>2, <2>3, <3>1, <4>1 DEF Pending, Writes, SameDedupKey, SameText
    <3>2. CASE id = <<l, i>>
      BY <2>1, <2>3, <3>2 DEF Pending, Writes
    <3> QED BY <2>3, <3>1, <3>2 DEF Writes
  <2>4. RowTracked(l)'
    <3> SUFFICES ASSUME NEW id \in DOMAIN load'[l].rows, Tracked(load[l].rows[id])'
                 PROVE  Settled(l, id)' \/ \E i : Pending(l, id, i)'
      BY DEF RowTracked
    <3>1. CASE \E i \in load[l].staged : Writes(l, i, id)
      BY <2>3, <3>1
    <3>2. CASE id \in DOMAIN load[l].rows /\ load'[l].rows[id] = load[l].rows[id]
      <4>1. Tracked(load[l].rows[id])
        BY <2>1, <3>2 DEF Tracked, Alters
      <4>2. CASE Settled(l, id)
        BY <2>1, <3>2, <4>2 DEF Settled, Alters
      <4>3. ASSUME NEW i, Pending(l, id, i) PROVE Pending(l, id, i)'
        BY <2>1, <3>2, <4>3 DEF Pending
      <4> QED BY <3>2, <4>1, <4>2, <4>3 DEF KidsInv, LoadKids, RowTracked
    <3> QED BY <2>1, <3>1, <3>2
  <2>5. Mapped(l)'
    <3> SUFFICES ASSUME NEW i \in DOMAIN load[l].map
                 PROVE  /\ i \notin load[l].staged
                        /\ \/ load[l].map[i] \in DOMAIN load'[l].rows /\ load'[l].rows[load[l].map[i]].by = <<l, i>>
                           \/ load[l].map[i] \in DOMAIN View(l)' /\ ~Tracked(View(l)[load[l].map[i]])'
      BY <2>1 DEF Mapped
    <3> DEFINE id == load[l].map[i]
    <3>1. /\ i \notin load[l].staged
          /\ id \in DOMAIN View(l) /\ View(l)[id].tgt = NoTarget
          /\ \/ id \in DOMAIN load[l].rows /\ load[l].rows[id].by = <<l, i>>
             \/ ~Tracked(View(l)[id])
      BY <2>1 DEF KidsInv, LoadKids, Mapped
    <3> HIDE DEF id
    <3>2. \A j \in load[l].staged : ~Writes(l, j, id)
      BY <3>1 DEF Writes, SameDedupKey
    <3>3. CASE id \in DOMAIN load[l].rows
      <4>1. id \in DOMAIN load'[l].rows /\ load'[l].rows[id] = load[l].rows[id]
        BY <2>1, <3>2, <3>3
      <4>2. View(l)[id] = load[l].rows[id] /\ id \in DOMAIN View(l)' /\ View(l)'[id] = load'[l].rows[id]
        BY <3>3, <4>1, ViewIs DEF View
      <4> QED BY <2>1, <3>1, <4>1, <4>2 DEF id, Tracked, Alters
    <3>4. CASE id \notin DOMAIN load[l].rows
      <4>1. id \notin DOMAIN load'[l].rows /\ id \in DOMAIN table
        BY <2>1, <3>1, <3>2, <3>4, ViewIs
      <4>2. View(l)[id] = table[id] /\ id \in DOMAIN View(l)' /\ View(l)'[id] = table[id]
        BY <2>1, <3>4, <4>1, ViewIs DEF View, Alters
      <4> QED BY <2>1, <3>1, <3>4, <4>2 DEF id, Tracked, Alters
    <3> QED BY <3>3, <3>4
  <2>6. Hits(l)'
    BY <2>1, <2>3 DEF Hits
  <2>7. Born(l)'
    BY <2>1 DEF KidsInv, LoadKids, Born, Tracked, Alters
  <2> QED BY <2>1, <2>4, <2>5, <2>6, <2>7, KidsGoes DEF LoadKids
<1> QED BY <1>1, <1>2

LEMMA KidsMapLoaded ==
  ASSUME RowsInv, UniqueInv, KidsInv, NEW l \in Loaders, MapLoadedUnits(l)
  PROVE  KidsInv'
<1> DEFINE map == load'[l].map
<1>1. /\ Alters(l) /\ load[l].pc = "map_loaded" /\ load'[l].pc = "children" /\ load'[l].staged = {}
      /\ load'[l].doc = load[l].doc /\ load'[l].rows = load[l].rows
      /\ load'[l].gone = load[l].gone /\ load'[l].born = load[l].born
      /\ DOMAIN map = DOMAIN load[l].map \cup load[l].staged
      /\ \A i \in DOMAIN load[l].map : map[i] = load[l].map[i]
      /\ \A i \in load[l].staged \ DOMAIN load[l].map : map[i] = LoadedRow(l, i)
  BY MapLoadedIs DEF Keeps, LoadFields
<1> HIDE DEF map
<1>2. View(l)' = View(l)
  BY <1>1 DEF View, Alters
<1>3. ASSUME NEW id \in DOMAIN load[l].rows, NEW i, Pending(l, id, i)
      PROVE  i \in DOMAIN map /\ map[i] = id
  <2>1. CASE i \in DOMAIN load[l].map /\ load[l].map[i] = id
    BY <1>1, <2>1
  <2>2. CASE /\ i \in load[l].staged
             /\ id = <<l, i>> \/ (<<l, i>> \notin DOMAIN load[l].rows /\ SameDedupKey(load[l].rows[id], Unit(l, i)))
    <3>1. i \notin DOMAIN load[l].map
      BY <1>1, <2>2 DEF KidsInv, LoadKids, Mapped
    <3>2. i \in DOMAIN map /\ map[i] = LoadedRow(l, i)
      BY <1>1, <2>2, <3>1
    <3>3. CASE id = <<l, i>>
      BY <3>2, <3>3, ViewIs DEF LoadedRow
    <3>4. CASE <<l, i>> \notin DOMAIN load[l].rows /\ SameDedupKey(load[l].rows[id], Unit(l, i))
      <4>1. Own(l, <<l, i>>)
        BY <2>2 DEF Own, RowsInv, TypeOK, IsLoad
      <4>2. <<l, i>> \notin DOMAIN View(l)
        BY <1>1, <3>4, <4>1, ViewIs DEF RowsInv, Inserted
      <4>3. id \in DOMAIN View(l) /\ View(l)[id] = load[l].rows[id]
        BY ViewIs
      <4>4. map[i] \in DOMAIN View(l) /\ SameDedupKey(View(l)[map[i]], Unit(l, i))
        BY <3>2, <3>4, <4>2, <4>3 DEF LoadedRow
      <4>5. Clash(View(l)[map[i]], View(l)[id])
        BY <3>4, <4>3, <4>4 DEF Clash, SameDedupKey, SameText
      <4> QED BY <3>2, <4>3, <4>4, <4>5, ViewUnique
    <3> QED BY <2>2, <3>3, <3>4
  <2> QED BY <1>1, <1>3, <2>1, <2>2 DEF Pending
<1>4. RowTracked(l)'
  <2> SUFFICES ASSUME NEW id \in DOMAIN load[l].rows, Tracked(load[l].rows[id])
               PROVE  Settled(l, id)' \/ \E i : Pending(l, id, i)'
    BY <1>1 DEF RowTracked, Tracked, Alters
  <2>1. CASE Settled(l, id)
    BY <1>1, <2>1 DEF Settled, Alters
  <2>2. ASSUME NEW i, Pending(l, id, i) PROVE Pending(l, id, i)'
    <3>1. i \in DOMAIN map /\ map[i] = id /\ load[l].rows[id].by = <<l, i>>
      BY <1>3, <2>2 DEF Pending
    <3> QED BY <1>1, <3>1 DEF Pending, map
  <2> QED BY <2>1, <2>2 DEF KidsInv, LoadKids, RowTracked
<1>5. Mapped(l)'
  <2>1. ASSUME NEW i \in DOMAIN map
        PROVE  \/ map[i] \in DOMAIN load[l].rows /\ load[l].rows[map[i]].by = <<l, i>>
               \/ map[i] \in DOMAIN View(l) /\ ~Tracked(View(l)[map[i]])
    <3>1. CASE i \in DOMAIN load[l].map
      BY <1>1, <3>1 DEF KidsInv, LoadKids, Mapped
    <3>2. CASE i \in load[l].staged
      <4>1. PICK id \in DOMAIN load[l].rows : Pending(l, id, i)
        BY <1>1, <3>2 DEF KidsInv, LoadKids, Hits
      <4> QED BY <1>3, <4>1 DEF Pending
    <3> QED BY <1>1, <3>1, <3>2
  <2> QED BY <1>1, <1>2, <2>1 DEF Mapped, Tracked, Alters, map
<1>6. Hits(l)'
  BY <1>1 DEF Hits
<1>7. Born(l)'
  BY <1>1 DEF KidsInv, LoadKids, Born, Tracked, Alters
<1> QED BY <1>1, <1>4, <1>5, <1>6, <1>7, KidsGoes DEF LoadKids

LEMMA KidsReplace ==
  ASSUME RowsInv, KidsInv, NEW l \in Loaders, ReplaceChildren(l)
  PROVE  KidsInv'
<1> DEFINE map == load[l].map
           ids == {map[i] : i \in DOMAIN map}
<1>1. /\ Alters(l) /\ load[l].pc = "children" /\ load'[l].pc = "next"
      /\ load'[l].rows = load[l].rows
      /\ DOMAIN load'[l].gone = ids \cup DOMAIN load[l].gone
      /\ DOMAIN load'[l].born = ids \cup DOMAIN load[l].born
      /\ \A id \in ids :
           /\ load'[l].gone[id] = IF id \in DOMAIN kids THEN kids[id] ELSE {}
           /\ load'[l].born[id] = {<<l, i>> : i \in {j \in DOMAIN map : map[j] = id}}
      /\ \A id \in DOMAIN load[l].gone \ ids : load'[l].gone[id] = load[l].gone[id]
      /\ \A id \in DOMAIN load[l].born \ ids : load'[l].born[id] = load[l].born[id]
  BY ReplaceIs DEF Keeps, LoadFields
<1>2. \A i \in DOMAIN map :
        \/ map[i] \in DOMAIN load[l].rows /\ load[l].rows[map[i]].by = <<l, i>>
        \/ map[i] \in DOMAIN View(l) /\ ~Tracked(View(l)[map[i]])
  BY <1>1 DEF KidsInv, LoadKids, Mapped
<1>3. \A id : id \in ids <=> \E i \in DOMAIN map : map[i] = id
  OBVIOUS
<1>4. ASSUME NEW id \in DOMAIN load[l].rows, Tracked(load[l].rows[id]), NEW i \in DOMAIN map, map[i] = id
      PROVE  load[l].rows[id].by = <<l, i>>
  BY <1>2, <1>4, ViewIs
<1>5. RowTracked(l)'
  <2> SUFFICES ASSUME NEW id \in DOMAIN load[l].rows, Tracked(load[l].rows[id])
               PROVE  Settled(l, id)'
    BY <1>1 DEF RowTracked, Tracked, Alters
  <2>1. CASE id \in ids
    <3>1. \A x : x \in load'[l].born[id] <=> \E i \in DOMAIN map : map[i] = id /\ x = <<l, i>>
      BY <1>1, <2>1
    <3>2. PICK j \in DOMAIN map : map[j] = id
      BY <2>1
    <3>3. \A i \in DOMAIN map : map[i] = id => <<l, i>> = load[l].rows[id].by
      BY <1>4
    <3>4. \A x : x \in load'[l].born[id] <=> x = load[l].rows[id].by
      BY <3>1, <3>2, <3>3
    <3>5. load'[l].born[id] = {load[l].rows[id].by}
      BY <3>4
    <3> HIDE DEF ids, map
    <3> QED BY <1>1, <2>1, <3>5 DEF Settled, Alters, KidsInv
  <2>2. CASE id \notin ids
    <3>1. \A i : ~Pending(l, id, i)
      BY <1>1, <2>2 DEF Pending
    <3>2. Settled(l, id)
      BY <3>1 DEF KidsInv, LoadKids, RowTracked
    <3> HIDE DEF ids, map
    <3> QED BY <1>1, <2>2, <3>2 DEF Settled, Alters
  <2> QED BY <2>1, <2>2
<1>6. Mapped(l)' /\ Hits(l)'
  BY <1>1 DEF Mapped, Hits
<1>7. Born(l)'
  <2> SUFFICES ASSUME NEW id \in DOMAIN load'[l].born \ DOMAIN load[l].rows
               PROVE  id \in DOMAIN table /\ ~Tracked(table[id])
    BY <1>1 DEF Born, Tracked, Alters
  <2>1. CASE id \in ids
    <3>1. id \in DOMAIN View(l) /\ ~Tracked(View(l)[id])
      BY <1>2, <1>3, <2>1
    <3> QED BY <3>1, ViewIs
  <2>2. CASE id \in DOMAIN load[l].born
    BY <2>2 DEF KidsInv, LoadKids, Born
  <2> QED BY <1>1, <2>1, <2>2
<1> QED BY <1>1, <1>5, <1>6, <1>7, KidsGoes DEF LoadKids

\* A commit settles what it commits, and locks have kept the others away from it.
LEMMA KidsCommit ==
  ASSUME RowsInv, UniqueInv, KidsInv, NEW l \in Loaders, Commit(l)
  PROVE  KidsInv'
<1>1. /\ load[l].pc = "next" /\ load'[l].pc = "done"
      /\ DOMAIN table' = DOMAIN load[l].rows \cup DOMAIN table
      /\ \A id \in DOMAIN load[l].rows : table'[id] = load[l].rows[id]
      /\ \A id \in DOMAIN table \ DOMAIN load[l].rows : table'[id] = table[id]
      /\ DOMAIN load'[l].rows = {} /\ \A m \in Loaders \ {l} : load'[m] = load[m]
  BY CommitIs
<1>2. partitioned' = partitioned
  BY DEF Commit
<1>3. DOMAIN load'[l].born = {}
  <2> DEFINE t == [Idle EXCEPT !.pc = "done", !.doc = load[l].doc, !.read = load[l].read, !.written = load[l].written]
  <2>1. load'[l] = t
    BY DEF Commit, Goes, RowsInv, TypeOK
  <2>2. DOMAIN t.born = {}
    BY IdleIs DEF HasFields, LoadFields
  <2> HIDE DEF t
  <2> QED BY <2>1, <2>2
<1>4. /\ DOMAIN kids' = DOMAIN table'
      /\ \A id \in DOMAIN table' :
           LET old == IF id \in DOMAIN kids THEN kids[id] ELSE {}
           IN kids'[id] = IF id \in DOMAIN load[l].born THEN (old \ load[l].gone[id]) \cup load[l].born[id] ELSE old
  BY DEF Commit
<1>5. DOMAIN kids = DOMAIN table /\ LoadKids(l)
  BY DEF KidsInv
<1>6. KidsMatchRow'
  <2> SUFFICES ASSUME NEW id \in DOMAIN table', Tracked(table'[id])
               PROVE  kids'[id] = {table'[id].by}
    BY <1>2 DEF KidsMatchRow, Tracked
  <2>1. CASE id \in DOMAIN load[l].rows
    <3>1. Settled(l, id)
      BY <1>1, <1>5, <2>1 DEF LoadKids, RowTracked, Pending
    <3> QED BY <1>1, <1>4, <1>5, <2>1, <3>1 DEF Settled
  <2>2. CASE id \in DOMAIN table \ DOMAIN load[l].rows
    <3>1. id \notin DOMAIN load[l].born
      BY <1>1, <1>5, <2>2 DEF LoadKids, Born
    <3>2. kids[id] = {table[id].by}
      BY <1>1, <2>2 DEF KidsInv, KidsMatchRow, Tracked
    <3> QED BY <1>1, <1>4, <1>5, <2>2, <3>1, <3>2
  <2> QED BY <1>1, <2>1, <2>2
<1>7. LoadKids(l)'
  BY <1>1, <1>3 DEF LoadKids, RowTracked, Mapped, Hits, Born
<1>8. ASSUME NEW m \in Loaders \ {l} PROVE LoadKids(m)'
  <2>1. \A id \in DOMAIN table : table'[id].tgt = table[id].tgt
    BY <1>1 DEF RowsInv, RowsMove, Moved, SameKeys
  <2>2. ASSUME NEW id \in DOMAIN load[m].rows
        PROVE  /\ id \in DOMAIN table' => id \in DOMAIN table
               /\ id \in DOMAIN table /\ Tracked(load[m].rows[id]) => kids'[id] = kids[id]
    <3>1. id \notin DOMAIN load[l].rows
      BY <1>8 DEF RowsInv, Locks
    <3>2. id \in DOMAIN table => load[m].rows[id].tgt = table[id].tgt
      BY DEF RowsInv, RowsMove, Moved, SameKeys
    <3>3. id \in DOMAIN table /\ Tracked(load[m].rows[id]) => id \notin DOMAIN load[l].born
      BY <1>5, <3>1, <3>2 DEF LoadKids, Born, Tracked
    <3> QED BY <1>1, <1>4, <1>5, <3>1, <3>3
  <2>3. ~(load[m].pc = "map" /\ partitioned)
    BY <1>1, <1>8 DEF UniqueInv, Alone, Open
  <2>4. load'[m] = load[m] /\ LoadKids(m) /\ DOMAIN table \subseteq DOMAIN table'
    BY <1>1, <1>8 DEF KidsInv
  <2> QED BY <1>2, <2>1, <2>2, <2>3, <2>4, KidsOther
<1> QED BY <1>1, <1>4, <1>6, <1>7, <1>8 DEF KidsInv

LEMMA KidsLoadFails ==
  ASSUME RowsInv, KidsInv, NEW l \in Loaders, Fail(l) \/ BreakDeadlock(l)
  PROVE  KidsInv'
<1>1. /\ Goes(l, [Idle EXCEPT !.pc = "failed", !.doc = load[l].doc])
      /\ UNCHANGED <<partitioned, table, kids>>
  BY DEF Fail, BreakDeadlock, Rest
<1> QED BY <1>1, EndedIs, KidsEnded

\* A step that leaves the loads, the children and what KidsMatchRow sees of the rows
LEMMA KidsSameLoads ==
  ASSUME KidsInv, UNCHANGED <<partitioned, load, kids>>, DOMAIN table' = DOMAIN table,
         \A id \in DOMAIN table :
           /\ table'[id].key = table[id].key /\ table'[id].src = table[id].src
           /\ table'[id].ctx = table[id].ctx /\ table'[id].tgt = table[id].tgt
           /\ table'[id].by = table[id].by
  PROVE  KidsInv'
<1>1. \A l \in Loaders : LoadKids(l)'
  BY KidsOther DEF KidsInv
<1>2. DOMAIN kids' = DOMAIN table' /\ KidsMatchRow'
  BY DEF KidsInv, KidsMatchRow
<1> QED BY <1>1, <1>2 DEF KidsInv

LEMMA KidsLegacy ==
  ASSUME RowsInv, KidsInv, NEW id \in DOMAIN LegacyRows, LegacyInsert(id)
  PROVE  KidsInv'
<1>1. /\ UNCHANGED <<partitioned, load>> /\ DOMAIN table' = DOMAIN table \cup {id} /\ id \notin DOMAIN table
      /\ table'[id] = LegacyRows[id] /\ \A x \in DOMAIN table : table'[x] = table[x]
      /\ DOMAIN kids' = DOMAIN table' /\ kids'[id] = {LegacyRows[id].by}
      /\ \A x \in DOMAIN table : kids'[x] = kids[x]
  BY DEF LegacyInsert
<1>2. KidsMatchRow'
  BY <1>1 DEF KidsInv, KidsMatchRow
<1>3. ASSUME NEW l \in Loaders PROVE LoadKids(l)'
  <2>1. ~Own(l, id)
    BY LegacyAssumption DEF Own
  <2>2. id \notin DOMAIN load[l].rows
    BY <1>1, <2>1 DEF RowsInv, Inserted
  <2>3. ~(load[l].pc = "map" /\ partitioned)
    BY DEF LegacyInsert, Open
  <2> QED BY <1>1, <2>2, <2>3, KidsOther DEF KidsInv
<1> QED BY <1>1, <1>2, <1>3 DEF KidsInv

LEMMA KidsNext ==
  ASSUME NoCollision
  PROVE  RowsInv /\ UniqueInv /\ KidsInv /\ [Next]_vars => KidsInv'
<1> SUFFICES ASSUME RowsInv, UniqueInv, KidsInv, [Next]_vars PROVE KidsInv'
  OBVIOUS
<1>1. CASE UNCHANGED vars
  BY <1>1, KidsSameLoads DEF vars
<1>2. ASSUME NEW l \in Loaders, LoadStep(l) \/ Fail(l) PROVE KidsInv'
  BY <1>2, KidsBegin, KidsStage, KidsUpdate, KidsMap, KidsUpsert, KidsMapLoaded, KidsReplace,
     KidsCommit, KidsLoadFails DEF LoadStep, Statement
<1>3. ASSUME NEW s \in Setups, SetupStep(s) \/ RestartSetup(s) PROVE KidsInv'
  <2>1. CASE UpdateReindexBatch(s)
    BY <2>1, ReindexIs, KidsSameLoads DEF UpdateReindexBatch
  <2>2. CASE Migrate(s) \/ FetchReindexBatch(s) \/ RestartSetup(s)
    BY <2>2, KidsSameLoads DEF Migrate, FetchReindexBatch, RestartSetup
  <2> QED BY <1>3, <2>1, <2>2 DEF SetupStep
<1>4. ASSUME NEW id \in DOMAIN LegacyRows, LegacyInsert(id) PROVE KidsInv'
  BY <1>4, KidsLegacy
<1> QED BY <1>1, <1>2, <1>3, <1>4 DEF Next

-----------------------------------------------------------------------------
(* CompleteInv: each step *)

\* Of several units alike the first is staged.
LEMMA DeduplicatedCovers ==
  ASSUME NEW doc, NEW from \in Nat, NEW n \in Nat, NEW i \in from + 1..from + n
  PROVE  \E j \in DeduplicatedFrom(doc, from, n) : SameSignature(doc[j], doc[i])
<1> DEFINE Alike == {j \in from + 1..from + n : SameSignature(doc[j], doc[i])}
<1>1. Alike \subseteq Nat /\ i \in Alike
  BY DEF SameSignature
<1>2. PICK j \in Alike : \A k \in Alike : j <= k
  <2> HIDE DEF Alike
  <2> QED BY <1>1, Least
<1>3. ASSUME NEW k \in from + 1..j - 1, SameSignature(doc[j], doc[k]) PROVE FALSE
  <2>1. k \in Alike /\ k < j
    BY <1>2, <1>3 DEF SameSignature
  <2> QED BY <1>2, <2>1
<1> QED BY <1>2, <1>3 DEF DeduplicatedFrom

\* A unit stays covered as long as its row keeps its keys.
LEMMA CoveredKept ==
  ASSUME NEW l \in Loaders, Covered(l), load'[l].doc = load[l].doc, load'[l].read = load[l].read,
         DOMAIN View(l) \subseteq DOMAIN View(l)',
         \A id \in DOMAIN View(l) : SameKeys(View(l)'[id], View(l)[id]),
         load[l].pc \in {"update", "map", "upsert"} => \A j \in load[l].staged :
           \/ load'[l].pc \in {"update", "map", "upsert"} /\ j \in load'[l].staged
           \/ \E id \in DOMAIN View(l)' : Stands(View(l)'[id], Unit(l, j))
  PROVE  Covered(l)'
<1>1. \A i : Unit(l, i)' = Unit(l, i)
  BY DEF Unit
<1> SUFFICES ASSUME NEW i \in 1..load[l].read
             PROVE  \/ \E id \in DOMAIN View(l)' : Stands(View(l)'[id], Unit(l, i))
                    \/ /\ load'[l].pc \in {"update", "map", "upsert"}
                       /\ \E j \in load'[l].staged : SameSignature(Unit(l, j), Unit(l, i))
  BY <1>1 DEF Covered, Stands, SameText, SameSignature
<1>2. CASE \E id \in DOMAIN View(l) : Stands(View(l)[id], Unit(l, i))
  <2>1. PICK id \in DOMAIN View(l) : Stands(View(l)[id], Unit(l, i))
    BY <1>2
  <2>2. id \in DOMAIN View(l)' /\ Stands(View(l)'[id], Unit(l, i))
    BY <2>1 DEF Stands, SameText, SameKeys
  <2> QED BY <2>2
<1>3. ASSUME load[l].pc \in {"update", "map", "upsert"}, NEW j \in load[l].staged,
             SameSignature(Unit(l, j), Unit(l, i))
      PROVE  \/ \E id \in DOMAIN View(l)' : Stands(View(l)'[id], Unit(l, i))
             \/ load'[l].pc \in {"update", "map", "upsert"} /\ j \in load'[l].staged
  <2>1. CASE \E id \in DOMAIN View(l)' : Stands(View(l)'[id], Unit(l, j))
    BY <1>3, <2>1 DEF Stands, SameText, SameSignature
  <2> QED BY <1>3, <2>1
<1> QED BY <1>2, <1>3 DEF Covered

\* What the others commit covers no unit less.
LEMMA CompleteOther ==
  ASSUME RowsInv, [Next]_vars, NEW l \in Loaders, load'[l] = load[l], Covered(l), Counted(l)
  PROVE  Covered(l)' /\ Counted(l)'
<1>1. DOMAIN table \subseteq DOMAIN table' /\ \A id \in DOMAIN table : SameKeys(table'[id], table[id])
  BY StoreStep, SameKeysItself DEF Moved
<1>2. /\ DOMAIN View(l) \subseteq DOMAIN View(l)'
      /\ \A id \in DOMAIN View(l) : SameKeys(View(l)'[id], View(l)[id])
  BY <1>1, SameKeysItself DEF View
<1>3. Covered(l)'
  BY <1>2, CoveredKept
<1>4. Counted(l)'
  BY DEF Counted
<1> QED BY <1>3, <1>4

\* What a step of one load does to what it sees
LEMMA ViewKept ==
  ASSUME NEW l \in Loaders, Alters(l), DOMAIN load[l].rows \subseteq DOMAIN load'[l].rows,
         \A id \in DOMAIN load'[l].rows : id \in DOMAIN View(l) => SameKeys(load'[l].rows[id], View(l)[id])
  PROVE  /\ DOMAIN View(l) \subseteq DOMAIN View(l)'
         /\ \A id \in DOMAIN View(l) : SameKeys(View(l)'[id], View(l)[id])
         /\ \A id \in DOMAIN load'[l].rows : id \in DOMAIN View(l)' /\ View(l)'[id] = load'[l].rows[id]
<1>1. View(l)' = [id \in DOMAIN load'[l].rows \cup DOMAIN table |->
                    IF id \in DOMAIN load'[l].rows THEN load'[l].rows[id] ELSE table[id]]
  BY DEF View, Alters
<1>2. DOMAIN View(l) \subseteq DOMAIN View(l)'
  BY <1>1, ViewIs
<1>3. \A id \in DOMAIN load'[l].rows : id \in DOMAIN View(l)' /\ View(l)'[id] = load'[l].rows[id]
  BY <1>1
<1>4. ASSUME NEW id \in DOMAIN View(l) PROVE SameKeys(View(l)'[id], View(l)[id])
  <2>1. CASE id \in DOMAIN load'[l].rows
    BY <1>3, <2>1
  <2>2. CASE id \notin DOMAIN load'[l].rows
    <3>1. id \in DOMAIN table \ DOMAIN load[l].rows
      BY <2>2, ViewIs
    <3>2. View(l)'[id] = table[id]
      BY <1>1, <2>2, <3>1
    <3> QED BY <3>1, <3>2, ViewIs, SameKeysItself
  <2> QED BY <2>1, <2>2
<1> QED BY <1>2, <1>3, <1>4

LEMMA CompleteInit == Init => CompleteInv
<1> SUFFICES ASSUME Init, NEW l \in Loaders PROVE Covered(l) /\ Counted(l)
  BY DEF CompleteInv
<1>1. PICK d \in Documents : load[l] = [Idle EXCEPT !.doc = d]
  <2>1. load \in [Loaders -> {[Idle EXCEPT !.doc = d] : d \in Documents}]
    BY DEF Init
  <2> QED BY <2>1
<1>2. /\ load[l].pc = "start" /\ load[l].doc = d /\ load[l].read = 0 /\ load[l].written = 0
      /\ load[l].staged = {} /\ DOMAIN load[l].map = {}
  BY <1>1, IdleIs DEF HasFields, LoadFields, Idle
<1>3. Len(d) \in Nat
  BY DocumentsAssumption
<1> QED BY <1>2, <1>3 DEF Covered, Counted

LEMMA CompleteEnded ==
  ASSUME RowsInv, NEW l \in Loaders, Ended(l)
  PROVE  Covered(l)' /\ Counted(l)'
<1>1. load[l].doc \in Documents
  BY DEF RowsInv, TypeOK, IsLoad
<1>2. Len(load'[l].doc) \in Nat
  BY <1>1, DocumentsAssumption DEF Ended
<1> QED BY <1>2 DEF Ended, Covered, Counted

LEMMA CompleteBegin ==
  ASSUME RowsInv, NEW l \in Loaders, Covered(l), Counted(l), Begin(l)
  PROVE  Covered(l)' /\ Counted(l)'
<1>1. /\ Alters(l) /\ load[l].pc = "start" /\ load'[l].pc = "next"
      /\ load'[l].doc = load[l].doc /\ load'[l].read = load[l].read /\ load'[l].written = load[l].written
      /\ load'[l].staged = load[l].staged /\ load'[l].map = load[l].map /\ load'[l].rows = load[l].rows
  BY BeginIs DEF Keeps, LoadFields
<1>2. Covered(l)'
  BY <1>1, RowsKept, ViewKept, CoveredKept
<1>3. Counted(l)'
  BY <1>1 DEF Counted
<1> QED BY <1>2, <1>3

LEMMA CompleteStage ==
  ASSUME RowsInv, NEW l \in Loaders, Covered(l), Counted(l), Stage(l)
  PROVE  Covered(l)' /\ Counted(l)'
<1>1. CASE Ended(l)
  BY <1>1, CompleteEnded
<1>2. CASE ~Ended(l)
  <2>1. /\ Alters(l) /\ Keeps(l, {"pc", "read", "map", "staged"})
        /\ load[l].pc = "next" /\ load'[l].pc = "update" /\ DOMAIN load'[l].map = {}
        /\ \E n \in Nat : /\ load'[l].read = load[l].read + n /\ load'[l].read <= Len(load[l].doc)
                          /\ load'[l].staged = DeduplicatedFrom(load[l].doc, load[l].read, n)
    BY <1>2, StageIs
  <2>2. PICK n \in Nat : /\ load'[l].read = load[l].read + n /\ load'[l].read <= Len(load[l].doc)
                         /\ load'[l].staged = DeduplicatedFrom(load[l].doc, load[l].read, n)
    BY <2>1
  <2>3. /\ load'[l].doc = load[l].doc /\ load'[l].written = load[l].written /\ load'[l].rows = load[l].rows
        /\ load[l].read \in Nat
    BY <2>1 DEF Keeps, LoadFields, RowsInv, TypeOK, IsLoad
  <2>4. View(l)' = View(l) /\ \A i : Unit(l, i)' = Unit(l, i)
    BY <2>1, <2>3 DEF View, Unit, Alters
  <2>5. ASSUME NEW i \in 1..load'[l].read
        PROVE  \/ \E id \in DOMAIN View(l) : Stands(View(l)[id], Unit(l, i))
               \/ \E j \in load'[l].staged : SameSignature(Unit(l, j), Unit(l, i))
    <3>1. CASE i <= load[l].read
      <4>1. i \in 1..load[l].read
        BY <2>2, <2>3, <3>1
      <4> QED BY <2>1, <4>1 DEF Covered
    <3>2. CASE i > load[l].read
      <4>1. i \in load[l].read + 1..load[l].read + n
        BY <2>2, <2>3, <3>2
      <4> QED BY <2>2, <2>3, <4>1, DeduplicatedCovers DEF Unit
    <3> QED BY <2>2, <2>3, <3>1, <3>2
  <2>6. Covered(l)'
    BY <2>1, <2>4, <2>5 DEF Covered, Stands, SameText, SameSignature
  <2>7. \A i \in load'[l].staged : i \in Nat /\ load[l].read < i /\ i <= load'[l].read
    BY <2>2, <2>3 DEF DeduplicatedFrom
  <2>8. Counted(l)'
    BY <2>1, <2>2, <2>3, <2>7 DEF Counted
  <2> QED BY <2>6, <2>8
<1> QED BY <1>1, <1>2

LEMMA CompleteUpdate ==
  ASSUME RowsInv, NEW l \in Loaders, Covered(l), Counted(l), UpdateExistingUntranslated(l)
  PROVE  Covered(l)' /\ Counted(l)'
<1>1. /\ Alters(l) /\ load[l].pc = "update" /\ load'[l].pc = "map"
      /\ load'[l].doc = load[l].doc /\ load'[l].read = load[l].read /\ load'[l].written = load[l].written
      /\ load'[l].staged = load[l].staged /\ load'[l].map = load[l].map
      /\ DOMAIN load[l].rows \subseteq DOMAIN load'[l].rows
  BY UpdateIs DEF Keeps, LoadFields
<1>2. ASSUME NEW id \in DOMAIN load'[l].rows PROVE SameKeys(load'[l].rows[id], View(l)[id])
  <2>1. CASE id \in UntranslatedHits(l)
    BY <2>1, UpdateIs
  <2>2. CASE id \in DOMAIN load[l].rows \ UntranslatedHits(l)
    <3>1. load'[l].rows[id] = load[l].rows[id]
      BY <2>2, UpdateIs
    <3>2. View(l)[id] = load[l].rows[id]
      BY <2>2, ViewIs
    <3> QED BY <3>1, <3>2, SameKeysItself
  <2> QED BY <2>1, <2>2, UpdateIs
<1>3. /\ DOMAIN View(l) \subseteq DOMAIN View(l)'
      /\ \A id \in DOMAIN View(l) : SameKeys(View(l)'[id], View(l)[id])
  BY <1>1, <1>2, ViewKept
<1>4. Covered(l)'
  BY <1>1, <1>3, CoveredKept
<1>5. Counted(l)'
  BY <1>1 DEF Counted
<1> QED BY <1>4, <1>5

LEMMA CompleteMap ==
  ASSUME RowsInv, NEW l \in Loaders, Covered(l), Counted(l), MapExistingUntranslated(l)
  PROVE  Covered(l)' /\ Counted(l)'
<1> DEFINE Matches(i) == {id \in DOMAIN View(l) : SameUntranslated(View(l)[id], Unit(l, i))}
<1>1. /\ Alters(l) /\ load[l].pc = "map" /\ load'[l].pc = "upsert"
      /\ load'[l].doc = load[l].doc /\ load'[l].read = load[l].read /\ load'[l].written = load[l].written
      /\ load'[l].rows = load[l].rows
      /\ DOMAIN load'[l].map = {i \in load[l].staged : Matches(i) # {}}
      /\ load'[l].staged = load[l].staged \ DOMAIN load'[l].map
  BY MapIs DEF Keeps, LoadFields
<1>2. View(l)' = View(l)
  BY <1>1 DEF View, Alters
<1>3. ASSUME NEW j \in load[l].staged, j \notin load'[l].staged
      PROVE  \E id \in DOMAIN View(l) : Stands(View(l)[id], Unit(l, j))
  <2>1. Matches(j) # {}
    BY <1>1, <1>3
  <2> QED BY <2>1 DEF Stands, SameUntranslated
<1> HIDE DEF Matches
<1>4. Covered(l)'
  BY <1>1, <1>2, <1>3, SameKeysItself, CoveredKept
<1>5. Counted(l)'
  BY <1>1 DEF Counted
<1> QED BY <1>4, <1>5

LEMMA CompleteUpsert ==
  ASSUME RowsInv, NEW l \in Loaders, Covered(l), Counted(l), UpsertUnits(l)
  PROVE  Covered(l)' /\ Counted(l)'
<1>1. CASE Ended(l)
  BY <1>1, CompleteEnded
<1>2. CASE ~Ended(l)
  <2>1. /\ load[l].pc = "upsert" /\ Alters(l) /\ load'[l].pc = "map_loaded"
        /\ load'[l].doc = load[l].doc /\ load'[l].read = load[l].read /\ load'[l].written = load[l].written
        /\ load'[l].staged = load[l].staged /\ load'[l].map = load[l].map
        /\ DOMAIN load[l].rows \subseteq DOMAIN load'[l].rows
        /\ \A id \in DOMAIN load'[l].rows :
             \/ id \in DOMAIN load[l].rows /\ load'[l].rows[id] = load[l].rows[id]
             \/ \E i \in load[l].staged : Writes(l, i, id)
        /\ \A i \in load[l].staged : \E id \in DOMAIN load'[l].rows : Writes(l, i, id)
    BY <1>2, UpsertIs DEF Keeps, LoadFields
  <2>2. \A id \in DOMAIN load'[l].rows : id \in DOMAIN View(l) => SameKeys(load'[l].rows[id], View(l)[id])
    BY <2>1, ViewIs, SameKeysItself DEF Writes
  <2>3. /\ DOMAIN View(l) \subseteq DOMAIN View(l)'
        /\ \A id \in DOMAIN View(l) : SameKeys(View(l)'[id], View(l)[id])
        /\ \A id \in DOMAIN load'[l].rows : id \in DOMAIN View(l)' /\ View(l)'[id] = load'[l].rows[id]
    BY <2>1, <2>2, ViewKept
  <2>4. ASSUME NEW j \in load[l].staged
        PROVE  \E id \in DOMAIN View(l)' : Stands(View(l)'[id], Unit(l, j))
    <3>1. PICK id \in DOMAIN load'[l].rows : Writes(l, j, id)
      BY <2>1
    <3>2. Stands(load'[l].rows[id], Unit(l, j))
      BY <3>1 DEF Writes, SameDedupKey, SameKeys, SameText, Stands
    <3> QED BY <2>3, <3>2
  <2>5. Covered(l)'
    BY <2>1, <2>3, <2>4, CoveredKept
  <2>6. Counted(l)'
    BY <2>1 DEF Counted
  <2> QED BY <2>5, <2>6
<1> QED BY <1>1, <1>2

LEMMA CompleteMapLoaded ==
  ASSUME RowsInv, NEW l \in Loaders, Covered(l), Counted(l), MapLoadedUnits(l)
  PROVE  Covered(l)' /\ Counted(l)'
<1>1. /\ Alters(l) /\ load[l].pc = "map_loaded" /\ load'[l].pc = "children"
      /\ load'[l].doc = load[l].doc /\ load'[l].read = load[l].read /\ load'[l].written = load[l].written
      /\ load'[l].rows = load[l].rows /\ load'[l].staged = {}
      /\ DOMAIN load'[l].map = DOMAIN load[l].map \cup load[l].staged
  BY MapLoadedIs DEF Keeps, LoadFields
<1>2. Covered(l)'
  BY <1>1, RowsKept, ViewKept, CoveredKept
<1>3. Counted(l)'
  BY <1>1 DEF Counted
<1> QED BY <1>2, <1>3

LEMMA BetweenIs ==
  ASSUME NEW a \in Nat, NEW b \in Nat, a <= b
  PROVE  IsFiniteSet(a + 1..b) /\ Cardinality(a + 1..b) = b - a
<1> DEFINE c == a + 1
<1>1. c \in Int /\ b \in Int
  OBVIOUS
<1>2. b - c + 1 = b - a /\ (c > b => b - a = 0)
  OBVIOUS
<1> HIDE DEF c
<1>3. IsFiniteSet(c..b) /\ Cardinality(c..b) = IF c > b THEN 0 ELSE b - c + 1
  BY <1>1, FS_Interval
<1> QED BY <1>2, <1>3 DEF c

\* The units that are mapped are counted, no more than were read since the last count.
LEMMA CompleteReplace ==
  ASSUME RowsInv, NEW l \in Loaders, Covered(l), Counted(l), ReplaceChildren(l)
  PROVE  Covered(l)' /\ Counted(l)'
<1>1. /\ Alters(l) /\ load[l].pc = "children" /\ load'[l].pc = "next"
      /\ load'[l].doc = load[l].doc /\ load'[l].read = load[l].read
      /\ load'[l].written = load[l].written + Cardinality(DOMAIN load[l].map)
      /\ load'[l].rows = load[l].rows /\ load'[l].staged = load[l].staged /\ DOMAIN load'[l].map = {}
  BY ReplaceIs DEF Keeps, LoadFields
<1>2. Covered(l)'
  BY <1>1, RowsKept, ViewKept, CoveredKept
<1>3. /\ load[l].written \in Nat /\ load[l].read \in Nat /\ load[l].written <= load[l].read
      /\ DOMAIN load[l].map \subseteq load[l].written + 1..load[l].read
  BY DEF Counted, RowsInv, TypeOK, IsLoad
<1>4. /\ IsFiniteSet(load[l].written + 1..load[l].read)
      /\ Cardinality(load[l].written + 1..load[l].read) = load[l].read - load[l].written
  BY <1>3, BetweenIs
<1>5. /\ Cardinality(DOMAIN load[l].map) \in Nat
      /\ Cardinality(DOMAIN load[l].map) <= load[l].read - load[l].written
  <2>1. IsFiniteSet(DOMAIN load[l].map) /\ Cardinality(DOMAIN load[l].map) <= load[l].read - load[l].written
    BY <1>3, <1>4, FS_Subset
  <2> QED BY <2>1, FS_CardinalityType
<1>6. Counted(l)'
  BY <1>1, <1>3, <1>5 DEF Counted
<1> QED BY <1>2, <1>6

LEMMA CompleteCommit ==
  ASSUME RowsInv, NEW l \in Loaders, Covered(l), Counted(l), Commit(l)
  PROVE  Covered(l)' /\ Counted(l)'
<1> DEFINE t == [Idle EXCEPT !.pc = "done", !.doc = load[l].doc, !.read = load[l].read, !.written = load[l].written]
<1>1. load'[l] = t /\ load[l].read = Len(load[l].doc) /\ load[l].pc = "next" /\ table' = View(l)
  BY DEF Commit, Goes, RowsInv, TypeOK
<1>2. /\ t.pc = "done" /\ t.doc = load[l].doc /\ t.read = load[l].read /\ t.written = load[l].written
      /\ t.staged = {} /\ DOMAIN t.map = {} /\ DOMAIN t.rows = {}
  BY IdleIs DEF HasFields, LoadFields
<1> HIDE DEF t
<1>3. /\ DOMAIN View(l)' = DOMAIN View(l)
      /\ \A id \in DOMAIN View(l) : View(l)'[id] = View(l)[id]
  <2>1. View(l)' = [id \in DOMAIN load'[l].rows \cup DOMAIN table' |->
                      IF id \in DOMAIN load'[l].rows THEN load'[l].rows[id] ELSE table'[id]]
    BY DEF View
  <2> QED BY <1>1, <1>2, <2>1
<1>4. Covered(l)'
  BY <1>1, <1>2, <1>3, SameKeysItself, CoveredKept
<1>5. Counted(l)'
  BY <1>1, <1>2 DEF Counted
<1> QED BY <1>4, <1>5

LEMMA CompleteNext == RowsInv /\ CompleteInv /\ [Next]_vars => CompleteInv'
<1> SUFFICES ASSUME RowsInv, CompleteInv, [Next]_vars, NEW m \in Loaders PROVE Covered(m)' /\ Counted(m)'
  BY DEF CompleteInv
<1>1. Covered(m) /\ Counted(m)
  BY DEF CompleteInv
<1>2. CASE load'[m] = load[m]
  BY <1>1, <1>2, CompleteOther
<1>3. ASSUME load'[m] # load[m], NEW l \in Loaders, LoadStep(l) \/ Fail(l)
      PROVE  Covered(m)' /\ Counted(m)'
  <2>1. m = l
    BY <1>3 DEF LoadStep, Fail, Statement, Begin, Stage, UpdateExistingUntranslated, MapExistingUntranslated,
       UpsertUnits, MapLoadedUnits, ReplaceChildren, Commit, BreakDeadlock, Go, Goes, RowsInv, TypeOK
  <2>2. Fail(l) \/ BreakDeadlock(l) => Covered(l)' /\ Counted(l)'
    BY EndedIs, CompleteEnded DEF Fail, BreakDeadlock, Rest
  <2> QED BY <1>1, <1>3, <2>1, <2>2, CompleteBegin, CompleteStage, CompleteUpdate, CompleteMap, CompleteUpsert,
       CompleteMapLoaded, CompleteReplace, CompleteCommit DEF LoadStep, Statement
<1>4. CASE UNCHANGED load \/ \E l \in Loaders : LoadStep(l) \/ Fail(l)
  BY <1>2, <1>3, <1>4
<1>5. UNCHANGED load \/ \E l \in Loaders : LoadStep(l) \/ Fail(l)
  BY DEF Next, vars, SetupStep, Migrate, FetchReindexBatch, UpdateReindexBatch, RestartSetup, LegacyInsert
<1> QED BY <1>4, <1>5

-----------------------------------------------------------------------------
(* Theorems *)

\* Rows are locked by one transaction at a time, a load's own rows are known to it alone,
\* and what it has changed of the others only moved up, at every step of any run.
THEOREM RowsInvariant == Spec => []RowsInv
BY RowsInit, RowsNext, PTL DEF Spec

\* What setup promises holds whatever loads, crashes and older clients do meanwhile.
THEOREM ReindexCompletes == Spec => []ReindexIsComplete
<1>1. RowsInv => ReindexIsComplete
  BY DEF RowsInv, Reindexed, ReindexIsComplete
<1> QED BY <1>1, RowsInvariant, PTL

\* No unit gets a second row, with or without a target, however many loads of the locale
\* overlap, as long as no two contexts of a document collide.
THEOREM OneRow ==
  ASSUME NoCollision
  PROVE  Spec => []OneRowPerUnit
<1>1. UniqueInv => OneRowPerUnit
  <2> SUFFICES ASSUME UniqueInv, partitioned, NEW a \in DOMAIN table, NEW b \in DOMAIN table, a # b
               PROVE  ~SameUntranslated(table[a], table[b]) /\ ~SameDedupKey(table[a], table[b])
    BY DEF OneRowPerUnit
  <2>1. <<a, table[a]>> \in Known /\ <<b, table[b]>> \in Known
    BY DEF Known
  <2> QED BY <2>1 DEF UniqueInv, NoClash, Clash
<1>2. RowsInv /\ UniqueInv /\ [Next]_vars => UniqueInv'
  BY UniqueNext
<1> QED BY <1>1, <1>2, UniqueInit, RowsInvariant, PTL DEF Spec

\* The children of a row are those of the unit that wrote it last, whichever loads
\* overlap, fail or are cancelled.
THEOREM KidsMatch ==
  ASSUME NoCollision
  PROVE  Spec => []KidsMatchRow
<1>1. KidsInv => KidsMatchRow
  BY DEF KidsInv
<1>2. RowsInv /\ UniqueInv /\ [Next]_vars => UniqueInv'
  BY UniqueNext
<1>3. RowsInv /\ UniqueInv /\ KidsInv /\ [Next]_vars => KidsInv'
  BY KidsNext
<1> QED BY <1>1, <1>2, <1>3, UniqueInit, KidsInit, RowsInvariant, PTL DEF Spec

\* A load that returns has read its whole document, every unit of it has a row, and it
\* counts no more units than it read.
THEOREM LoadCompletes == Spec => []LoadIsComplete
<1>1. RowsInv /\ CompleteInv => LoadIsComplete
  <2> SUFFICES ASSUME RowsInv, CompleteInv, NEW l \in Loaders, load[l].pc = "done"
               PROVE  /\ load[l].read = Len(load[l].doc) /\ load[l].written <= load[l].read
                      /\ \A i \in 1..Len(load[l].doc) : \E id \in DOMAIN table :
                           SameText(table[id], Unit(l, i)) /\ table[id].tgt = Unit(l, i).tgt
    BY DEF LoadIsComplete
  <2>1. Covered(l) /\ Counted(l) /\ load[l].read = Len(load[l].doc)
    BY DEF CompleteInv, Counted
  <2>2. DOMAIN load[l].rows = {}
    BY DEF RowsInv, Locks, Open
  <2>3. DOMAIN View(l) = DOMAIN table /\ \A id \in DOMAIN table : View(l)[id] = table[id]
    BY <2>2, ViewIs
  <2>4. ASSUME NEW i \in 1..Len(load[l].doc)
        PROVE  \E id \in DOMAIN table : SameText(table[id], Unit(l, i)) /\ table[id].tgt = Unit(l, i).tgt
    <3>1. PICK id \in DOMAIN View(l) : Stands(View(l)[id], Unit(l, i))
      BY <2>1 DEF Covered
    <3> QED BY <2>3, <3>1 DEF Stands
  <2> QED BY <2>1, <2>4 DEF Counted
<1> QED BY <1>1, CompleteInit, CompleteNext, RowsInvariant, PTL DEF Spec

\* Readers may rely on TmStore between two queries: rows are never lost, keep standing
\* for their unit, and move only up, whatever commits in between.
THEOREM Refinement == Spec => RefinesTmStore
<1> DEFINE Shown(t) == [id \in DOMAIN t |->
             [unit |-> <<t[id].src, Hash[t[id].ctx], t[id].tgt>>, usage |-> t[id].usage, indexed |-> t[id].indexed]]
<1>1. RowsInv /\ [Next]_vars => [Store!Commit]_(Shown(table))
  <2> SUFFICES ASSUME RowsInv, [Next]_vars PROVE Store!Commit
    OBVIOUS
  <2>1. ASSUME NEW id \in DOMAIN table PROVE Store!Advances(Shown(table')[id], Shown(table)[id])
    BY <2>1, StoreStep DEF Store!Advances, Store!SameUnit, Moved, SameKeys
  <2> QED BY <2>1, StoreStep DEF Store!Commit
<1> QED BY <1>1, RowsInvariant, PTL DEF Spec, RefinesTmStore, Store!Spec
=============================================================================
