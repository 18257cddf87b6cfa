------------------------------ MODULE IdRegistry ------------------------------
(***************************************************************************)
(* BoundedIdRegistry (native/lokit-format/src/id_registry.rs): a map from  *)
(* identifiers to counters, in memory up to a limit, then in a hash table  *)
(* in one temporary file and the bytes of its keys in another.             *)
(*                                                                         *)
(* A call holds the registry exclusively (&mut self), so it is one step;   *)
(* any of its accesses to a file may fail, and what it had done by then    *)
(* stays.  An identifier is a sequence of symbols, each one byte long; the *)
(* file of keys is a sequence of symbols too, with its cursor and the      *)
(* writer's buffer, which is flushed only where the code flushes it.       *)
(***************************************************************************)
EXTENDS Naturals, Sequences, FiniteSets, SequencesExt

CONSTANTS
  Ids,                 \* the identifiers, sequences of symbols
  Seeds,               \* the seeds a table's hash function may be given
  Hash(_, _),          \* the hash of an identifier under a seed
  MaxResidentEntries,  \* MAX_RESIDENT_ENTRIES
  MaxResidentKeyBytes, \* MAX_RESIDENT_KEY_BYTES
  MinDiskSlots,        \* MIN_DISK_SLOTS, a power of two
  HeadroomThreshold,   \* LARGE_REGISTRY_HEADROOM_THRESHOLD
  HeadroomFactor,      \* LARGE_REGISTRY_HEADROOM_FACTOR
  MaxSuffix,           \* MAX_SUFFIX
  Absent,              \* None
  Error                \* Err(_)

ASSUME IdsAssumption == \A id \in Ids : id \in Seq(Nat \ {0})
ASSUME HashAssumption == \A seed \in Seeds, id \in Ids : Hash(seed, id) \in Nat
ASSUME SlotsAssumption == MinDiskSlots \in {2^k : k \in 0..30}
ASSUME LimitsAssumption ==
  /\ MaxResidentEntries \in Nat /\ MaxResidentKeyBytes \in Nat
  /\ HeadroomThreshold \in Nat /\ HeadroomFactor \in Nat \ {0}
  /\ MaxSuffix \in Nat
ASSUME AnswersAssumption == Absent # Error /\ Absent \notin Nat /\ Error \notin Nat

VARIABLES
  entries,            \* the resident map
  resident_key_bytes, \* the length of its keys
  disk,               \* the disk registry, or Absent
  poisoned,           \* a spill failed
  call,               \* the last call
  answer              \* and its answer

registryVars == <<entries, resident_key_bytes, disk, poisoned, call, answer>>

With(f, id, v) == [x \in DOMAIN f \cup {id} |-> IF x = id THEN v ELSE f[x]]
Nothing == [id \in {} |-> 0]

(***************************************************************************)
(* The table.                                                              *)
(***************************************************************************)
ZeroSlot == [hash |-> 0, key_offset |-> 0, encoded_len |-> 0, stored |-> 0]
IsVacant(slot) == slot.encoded_len = 0
EmptyTable(slots) == [index \in 0..slots - 1 |-> ZeroSlot]
Slots(table) == Cardinality(DOMAIN table)

ExceedsLoad(count, slots) == count > (slots * 7) \div 10

\* The least doubling of MinDiskSlots that takes the entries with their headroom.
TableSlotsFor(expected) ==
  LET planned == IF expected >= HeadroomThreshold THEN expected * HeadroomFactor
                 ELSE expected
      sizes   == {MinDiskSlots * 2^k : k \in 0..planned}
  IN CHOOSE n \in sizes :
       /\ ~ExceedsLoad(planned, n)
       /\ \A m \in sizes : m < n => ExceedsLoad(planned, m)

\* The offsets of a linear probe, and the place of an offset for a hash.
Offsets(table) == 0..Slots(table) - 1
Place(table, hash, offset) == (hash + offset) % Slots(table)
First(S) == CHOOSE offset \in S : \A other \in S : offset <= other

VacantOffsets(table, hash) ==
  {offset \in Offsets(table) : IsVacant(table[Place(table, hash, offset)])}
FindVacantSlot(table, hash) ==
  Place(table, hash, First(VacantOffsets(table, hash)))

\* Mutant: the slots keep their indices.
GrownInPlace(table) ==
  [index \in 0..2 * Slots(table) - 1 |->
     IF index < Slots(table) THEN table[index] ELSE ZeroSlot]

Grown(table) ==
  FoldLeft(LAMBDA new, slot : IF IsVacant(slot) THEN new
                              ELSE [new EXCEPT ![FindVacantSlot(new, slot.hash)] = slot],
           EmptyTable(2 * Slots(table)),
           [i \in 1..Slots(table) |-> table[i - 1]])

Grow(d) == [d EXCEPT !.table = Grown(d.table)]

(***************************************************************************)
(* The file of keys: what it holds, its cursor, and what is buffered.      *)
(***************************************************************************)
\* The symbols from an offset on; those past the end of the file are no symbols.
ReadAt(bytes, offset, length) ==
  [i \in 1..length |-> IF offset + i <= Len(bytes) THEN bytes[offset + i] ELSE 0]

Overwrite(bytes, cursor, new) ==
  ReadAt(bytes, 0, cursor) \o new \o SubSeq(bytes, cursor + Len(new) + 1, Len(bytes))

Flush(d) == [d EXCEPT !.file = Overwrite(d.file, d.cursor, d.buffer),
                      !.cursor = d.cursor + Len(d.buffer), !.buffer = <<>>]

KeyEquals(bytes, slot, id) == ReadAt(bytes, slot.key_offset, Len(id)) = id

(***************************************************************************)
(* find_with_hash.  The probe ends at a vacant slot or at the identifier;  *)
(* it compares, and so flushes and seeks, at every slot whose hash and     *)
(* length agree.                                                           *)
(***************************************************************************)
SlotAt(d, id, offset) == d.table[Place(d.table, Hash(d.seed, id), offset)]
IsCompared(d, id, slot) == slot.hash = Hash(d.seed, id) /\ slot.encoded_len = Len(id) + 1
ProbeEnds(d, id) ==
  LET flushed == Flush(d).file IN
  {o \in Offsets(d.table) :
     LET slot == SlotAt(d, id, o) IN
     IsVacant(slot) \/ (IsCompared(d, id, slot) /\ KeyEquals(flushed, slot, id))}
ProbeEnd(d, id) == First(ProbeEnds(d, id))
Compared(d, id) ==
  LET end == ProbeEnd(d, id) IN {o \in 0..end : IsCompared(d, id, SlotAt(d, id, o))}

FoundIndex(d, id) == Place(d.table, Hash(d.seed, id), ProbeEnd(d, id))
FoundSlot(d, id) == d.table[FoundIndex(d, id)]
IsKnown(d, id) == ~IsVacant(FoundSlot(d, id))

\* The registry after the search.
Searched(d, id) ==
  LET compared == Compared(d, id) IN
  IF compared = {} THEN d
  ELSE LET last == CHOOSE o \in compared : \A other \in compared : other <= o
       IN [Flush(d) EXCEPT !.cursor = SlotAt(d, id, last).key_offset + Len(id),
                           !.key_cursor_displaced = TRUE]

(***************************************************************************)
(* insert_at, in the order of its writes.                                  *)
(***************************************************************************)
\* Mutant: the cursor stays where the last comparison left it.
KeyWrittenAtCursor(d, id) == [d EXCEPT !.buffer = @ \o id]

KeyWritten(d, id) ==
  LET placed == IF d.key_cursor_displaced
                THEN [d EXCEPT !.cursor = d.key_bytes, !.key_cursor_displaced = FALSE]
                ELSE d
  IN [placed EXCEPT !.buffer = @ \o id]

SlotWritten(d, index, id, stored) ==
  [KeyWritten(d, id) EXCEPT !.table[index] =
     [hash |-> Hash(d.seed, id), key_offset |-> d.key_bytes, encoded_len |-> Len(id) + 1,
      stored |-> stored]]

InsertSlot(d, index, id, stored) ==
  [SlotWritten(d, index, id, stored) EXCEPT !.key_bytes = @ + Len(id), !.len = @ + 1]

\* insert_known_absent
InsertKnownAbsent(d, id, stored) ==
  LET sized == IF ExceedsLoad(d.len + 1, Slots(d.table)) THEN Grow(d) ELSE d
  IN InsertSlot(sized, FindVacantSlot(sized.table, Hash(d.seed, id)), id, stored)

\* get_or_insert_inner: the registry with its place for a new identifier
MadeRoom(d, id) ==
  IF ExceedsLoad(d.len + 1, Slots(d.table)) THEN Grow(Searched(d, id)) ELSE Searched(d, id)
NewIndex(d, id) ==
  IF ExceedsLoad(d.len + 1, Slots(d.table))
  THEN FindVacantSlot(MadeRoom(d, id).table, Hash(d.seed, id))
  ELSE FoundIndex(d, id)
Inserted(d, id, initial) == InsertSlot(MadeRoom(d, id), NewIndex(d, id), id, initial)

\* DiskRegistry::new
NewDisk(expected, seed) ==
  [table |-> EmptyTable(TableSlotsFor(expected)), seed |-> seed, file |-> <<>>,
   buffer |-> <<>>, cursor |-> 0, key_cursor_displaced |-> FALSE, key_bytes |-> 0,
   len |-> 0, poisoned |-> FALSE]

Answers(op, id, value) == call' = <<op, id>> /\ answer' = value

(***************************************************************************)
(* The state, and the calls while the registry is healthy.                 *)
(***************************************************************************)
RegistryInit ==
  /\ entries = Nothing
  /\ resident_key_bytes = 0
  /\ disk = Absent
  /\ poisoned = FALSE
  /\ call = <<"none", Absent>>
  /\ answer = Absent

IsResident == ~poisoned /\ disk = Absent
IsSpilled == disk # Absent

\* A disk registry is only there when no spill failed, so one flag is set at most.
Broken == poisoned \/ (IsSpilled /\ disk.poisoned)

\* ensure_healthy, of the registry and of its disk table
Refuse(op, id) ==
  /\ Broken
  /\ Answers(op, id, Error)
  /\ UNCHANGED <<entries, resident_key_bytes, disk, poisoned>>

\* A call on the disk table leaves it as d and answers value.
DiskAnswers(op, id, d, value) ==
  /\ disk' = d
  /\ Answers(op, id, value)
  /\ UNCHANGED <<entries, resident_key_bytes, poisoned>>

\* poison_on_error: an access to a file fails when the table has become d.
DiskFails(op, id, d) == DiskAnswers(op, id, [d EXCEPT !.poisoned = TRUE], Error)

(***************************************************************************)
(* get_or_insert, with the spill it may begin with.                        *)
(***************************************************************************)
WouldExceedResidentLimits(id) ==
  \/ Cardinality(DOMAIN entries) >= MaxResidentEntries
  \/ Len(id) + resident_key_bytes > MaxResidentKeyBytes

ResidentInsert(id, initial) ==
  /\ IsResident
  /\ IF id \in DOMAIN entries
     THEN /\ Answers("insert", id, entries[id])
          /\ UNCHANGED <<entries, resident_key_bytes>>
     ELSE /\ ~WouldExceedResidentLimits(id)
          /\ Answers("insert", id, Absent)
          /\ entries' = With(entries, id, initial)
          /\ resident_key_bytes' = resident_key_bytes + Len(id)
  /\ UNCHANGED <<disk, poisoned>>

Spills(id) == IsResident /\ id \notin DOMAIN entries /\ WouldExceedResidentLimits(id)

\* spill_to_disk moves the entries in the arbitrary order of the resident map.
Moved(seed, order) ==
  FoldLeft(LAMBDA d, key : InsertKnownAbsent(d, key, entries[key]),
           NewDisk(Cardinality(DOMAIN entries) + 1, seed), order)

SpillAndInsert(id, initial) ==
  /\ Spills(id)
  /\ \E seed \in Seeds, order \in SetToSeqs(DOMAIN entries) :
       /\ disk' = Inserted(Moved(seed, order), id, initial)
       /\ Answers("insert", id, Absent)
  /\ entries' = Nothing
  /\ resident_key_bytes' = 0
  /\ UNCHANGED poisoned

\* Mutant: a spill that fails half-way leaves an empty registry in use.
SpillFailsQuietly(id) ==
  /\ Spills(id)
  /\ entries' = Nothing /\ resident_key_bytes' = 0
  /\ Answers("insert", id, Error)
  /\ UNCHANGED <<disk, poisoned>>

\* The temporary files cannot be made, before or after the entries are taken.
SpillFails(id) ==
  /\ Spills(id)
  /\ poisoned' = TRUE
  /\ \/ UNCHANGED <<entries, resident_key_bytes>>
     \/ entries' = Nothing /\ resident_key_bytes' = 0
  /\ Answers("insert", id, Error)
  /\ UNCHANGED disk

\* The insertion that follows the spill fails.
SpillThenFails(id, initial) ==
  /\ Spills(id)
  /\ \E seed \in Seeds, order \in SetToSeqs(DOMAIN entries) :
       LET d == Moved(seed, order) IN
       \E left \in {d, MadeRoom(d, id), KeyWritten(MadeRoom(d, id), id)} :
         disk' = [left EXCEPT !.poisoned = TRUE]
  /\ entries' = Nothing
  /\ resident_key_bytes' = 0
  /\ Answers("insert", id, Error)
  /\ UNCHANGED poisoned

DiskInsert(id, initial) ==
  /\ IsSpilled /\ ~Broken
  /\ IF IsKnown(disk, id)
     THEN DiskAnswers("insert", id, Searched(disk, id), FoundSlot(disk, id).stored)
     ELSE DiskAnswers("insert", id, Inserted(disk, id, initial), Absent)

DiskInsertFails(id, initial) ==
  /\ IsSpilled /\ ~Broken
  /\ \E left \in {disk, Searched(disk, id)} \cup
                 (IF IsKnown(disk, id) THEN {}
                  ELSE LET room == MadeRoom(disk, id) IN
                       {room, KeyWritten(room, id),
                        SlotWritten(room, NewIndex(disk, id), id, initial)}) :
       DiskFails("insert", id, left)

GetOrInsert(id, initial) ==
  \/ Refuse("insert", id)
  \/ ResidentInsert(id, initial)
  \/ SpillAndInsert(id, initial)
  \/ SpillFails(id)
  \/ SpillThenFails(id, initial)
  \/ DiskInsert(id, initial)
  \/ DiskInsertFails(id, initial)

(***************************************************************************)
(* next_suffix.  An unknown identifier and an exhausted counter are errors *)
(* that change nothing and do not poison.                                  *)
(***************************************************************************)
CanIncrement(current) == current + 1 <= MaxSuffix

ResidentSuffix(id) ==
  /\ IsResident
  /\ IF id \in DOMAIN entries /\ CanIncrement(entries[id])
     THEN /\ Answers("suffix", id, entries[id])
          /\ entries' = [entries EXCEPT ![id] = @ + 1]
     ELSE /\ Answers("suffix", id, Error)
          /\ UNCHANGED entries
  /\ UNCHANGED <<resident_key_bytes, disk, poisoned>>

\* Mutant: the incremented slot is not written back.
IncrementedInMemory(d, id) == Searched(d, id)

Incremented(d, id) == [Searched(d, id) EXCEPT !.table[FoundIndex(d, id)].stored = @ + 1]

DiskSuffix(id) ==
  /\ IsSpilled /\ ~Broken
  /\ IF IsKnown(disk, id) /\ CanIncrement(FoundSlot(disk, id).stored)
     THEN DiskAnswers("suffix", id, Incremented(disk, id), FoundSlot(disk, id).stored)
     ELSE DiskAnswers("suffix", id, Searched(disk, id), Error)

DiskSuffixFails(id) ==
  /\ IsSpilled /\ ~Broken
  /\ \E left \in {disk, Searched(disk, id)} \cup
                 (IF IsKnown(disk, id) /\ CanIncrement(FoundSlot(disk, id).stored)
                  THEN {Incremented(disk, id)} ELSE {}) :
       DiskFails("suffix", id, left)

NextSuffix(id) ==
  \/ Refuse("suffix", id)
  \/ ResidentSuffix(id)
  \/ DiskSuffix(id)
  \/ DiskSuffixFails(id)

(***************************************************************************)
(* get                                                                     *)
(***************************************************************************)
ResidentGet(id) ==
  /\ IsResident
  /\ Answers("get", id, IF id \in DOMAIN entries THEN entries[id] ELSE Absent)
  /\ UNCHANGED <<entries, resident_key_bytes, disk, poisoned>>

DiskGet(id) ==
  /\ IsSpilled /\ ~Broken
  /\ DiskAnswers("get", id, Searched(disk, id),
                 IF IsKnown(disk, id) THEN FoundSlot(disk, id).stored ELSE Absent)

DiskGetFails(id) ==
  /\ IsSpilled /\ ~Broken
  /\ \E left \in {disk, Searched(disk, id)} : DiskFails("get", id, left)

Get(id) ==
  \/ Refuse("get", id)
  \/ ResidentGet(id)
  \/ DiskGet(id)
  \/ DiskGetFails(id)

(***************************************************************************)
(* What the registry holds, as the abstract map sees it.                   *)
(***************************************************************************)
KeyOf(slot) == ReadAt(Flush(disk).file, slot.key_offset, slot.encoded_len - 1)
Occupied == {slot \in {disk.table[i] : i \in DOMAIN disk.table} : ~IsVacant(slot)}

Contents ==
  IF Broken THEN Nothing
  ELSE IF ~IsSpilled THEN entries
  ELSE [id \in {KeyOf(slot) : slot \in Occupied} |->
          (CHOOSE slot \in Occupied : KeyOf(slot) = id).stored]

Map == INSTANCE IdMap WITH stored <- Contents, broken <- Broken
=============================================================================
