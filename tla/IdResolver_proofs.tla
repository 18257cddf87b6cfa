-------------------------- MODULE IdResolver_proofs --------------------------
(***************************************************************************)
(* Proofs about BoundedIdRegistry and its users, for every number of       *)
(* identifiers, every hash function and every limit: the table on disk is  *)
(* an exact map through collisions, growth and spills.                     *)
(***************************************************************************)
EXTENDS IdResolver, FiniteSetTheorems, SequenceTheorems, TLAPS

(***************************************************************************)
(* Natural numbers.                                                        *)
(***************************************************************************)
LEMMA DivMod ==
  ASSUME NEW N \in Nat \ {0}, NEW a \in Nat
  PROVE  a = N * (a \div N) + (a % N) /\ a \div N \in Nat /\ a % N \in 0..N - 1
  BY SMT

LEMMA MultiplesApart ==
  ASSUME NEW N \in Nat \ {0}, NEW q \in Nat, NEW r \in Nat, q < r
  PROVE  N * r - N * q >= N
  BY SMT

\* Quotient and remainder are the only ones.
LEMMA ModUnique ==
  ASSUME NEW N \in Nat \ {0}, NEW a \in Nat, NEW q \in Nat, NEW r \in 0..N - 1, a = N * q + r
  PROVE  a % N = r
  <1> DEFINE p == a \div N
  <1>1. a = N * p + (a % N) /\ p \in Nat /\ a % N \in 0..N - 1
    BY DivMod
  <1>2. N * p \in Nat /\ N * q \in Nat
    BY <1>1, SMT
  <1>3. ~(p < q)
    BY <1>1, <1>2, MultiplesApart
  <1>4. ~(q < p)
    BY <1>1, <1>2, MultiplesApart
  <1>5. p = q
    BY <1>1, <1>3, <1>4
  <1> QED BY <1>1, <1>2, <1>5

LEMMA ModInjective ==
  ASSUME NEW N \in Nat \ {0}, NEW h \in Nat, NEW o \in 0..N - 1, NEW p \in 0..N - 1,
         (h + o) % N = (h + p) % N
  PROVE  o = p
  <1>1. h + o \in Nat /\ h + p \in Nat
    OBVIOUS
  <1>2. PICK q \in Nat : h + o = N * q + ((h + o) % N)
    BY <1>1, DivMod
  <1>3. PICK r \in Nat : h + p = N * r + ((h + p) % N)
    BY <1>1, DivMod
  <1>4. N * q \in Nat /\ N * r \in Nat /\ (h + o) % N \in Nat
    BY <1>1, DivMod, SMT
  <1>5. o - p = N * q - N * r
    BY <1>2, <1>3, <1>4
  <1>6. ~(q < r)
    BY <1>4, <1>5, MultiplesApart
  <1>7. ~(r < q)
    BY <1>4, <1>5, MultiplesApart
  <1> QED BY <1>4, <1>5, <1>6, <1>7

\* A probe of N offsets comes to every slot of a table of N slots.
LEMMA ModSurjective ==
  ASSUME NEW N \in Nat \ {0}, NEW h \in Nat, NEW i \in 0..N - 1
  PROVE  \E o \in 0..N - 1 : (h + o) % N = i
  <1> DEFINE m == h % N
             q == h \div N
  <1>1. m \in 0..N - 1 /\ h = N * q + m /\ q \in Nat
    BY DivMod
  <1>2. N * q \in Nat /\ N * (q + 1) = N * q + N
    BY <1>1, SMT
  <1> HIDE DEF m, q
  <1>3. CASE i >= m
    <2>1. i - m \in 0..N - 1 /\ h + (i - m) \in Nat /\ h + (i - m) = N * q + i
      BY <1>1, <1>2, <1>3
    <2> QED BY <2>1, <1>1, ModUnique
  <1>4. CASE i < m
    <2> DEFINE o == i - m + N
    <2>1. o \in 0..N - 1 /\ h + o \in Nat /\ h + o = N * (q + 1) + i /\ q + 1 \in Nat
      BY <1>1, <1>2, <1>4
    <2> QED BY <2>1, ModUnique
  <1> QED BY <1>1, <1>3, <1>4

\* Two to the power of n, with what it is of n itself.
LEMMA PowerOfTwo ==
  ASSUME NEW n \in Nat
  PROVE  2^n \in Nat \ {0} /\ 2^n >= 2 * n
  <1>1. IsFiniteSet(1..n) /\ Cardinality(1..n) = n
    BY FS_Interval
  <1>2. IsFiniteSet(SUBSET (1..n)) /\ Cardinality(SUBSET (1..n)) = 2^n
    BY <1>1, FS_SUBSET
  <1>3. 2^n \in Nat /\ 2^n # 0
    BY <1>2, FS_CardinalityType, FS_EmptySet, {} \in SUBSET (1..n), Zenon
  <1>4. CASE n = 0
    BY <1>3, <1>4
  <1>5. CASE n > 0
    <2> DEFINE f == [i \in 1..2 * n |->
                       IF i <= n THEN {i} ELSE IF i = n + 1 THEN {} ELSE {1, i - n}]
    <2>1. ASSUME NEW i \in 1..2 * n PROVE f[i] \subseteq 1..n
      BY <1>5, SMT
    <2>2. ASSUME NEW i \in 1..2 * n, NEW j \in 1..2 * n, f[i] = f[j] PROVE i = j
      BY <1>5, <2>2, SMT
    <2>3. f \in Injection(1..2 * n, SUBSET (1..n))
      <3>1. f \in [1..2 * n -> SUBSET (1..n)]
        BY <2>1
      <3> HIDE DEF f
      <3> QED BY <3>1, <2>2 DEF Injection, IsInjective
    <2>4. Cardinality(1..2 * n) = 2 * n
      BY <1>5, FS_Interval, 2 * n \in Int, SMT
    <2>5. Cardinality(1..2 * n) <= 2^n
      BY <1>2, <2>3, FS_Injection
    <2> QED BY <1>3, <2>4, <2>5
  <1> QED BY <1>4, <1>5

LEMMA Least ==
  ASSUME NEW T, T \subseteq Nat, T # {}
  PROVE  \E x \in T : \A y \in T : x <= y
  <1>1. PICK x \in T : \A y \in T : <<y, x>> \notin OpToRel(<, Nat)
    <2>1. IsWellFoundedOn(OpToRel(<, Nat), Nat)
      BY NatLessThanWellFounded
    <2> QED BY <2>1, WFMin, Zenon
  <1>2. \A y \in T : ~(y < x)
    BY <1>1 DEF OpToRel
  <1> QED BY <1>2

\* What holds of zero, and of every number with its predecessor, holds of all up to N.
LEMMA UpTo ==
  ASSUME NEW N \in Nat, NEW S, 0 \in S, \A n \in 0..N - 1 : n \in S => n + 1 \in S
  PROVE  0..N \subseteq S
  <1> SUFFICES ASSUME (0..N) \ S # {} PROVE FALSE
    OBVIOUS
  <1>1. PICK n \in (0..N) \ S : \A m \in (0..N) \ S : n <= m
    BY Least, (0..N) \ S \subseteq Nat
  <1>2. n # 0 /\ n - 1 \in 0..N - 1 /\ (n - 1) + 1 = n
    BY <1>1
  <1>3. n - 1 \in S
    BY <1>1, <1>2
  <1> QED BY <1>1, <1>2, <1>3

LEMMA FirstIs ==
  ASSUME NEW S, S \subseteq Nat, S # {}
  PROVE  First(S) \in S /\ \A other \in S : First(S) <= other
  <1>1. \E offset \in S : \A other \in S : offset <= other
    BY Least
  <1> QED BY <1>1 DEF First

-----------------------------------------------------------------------------
(***************************************************************************)
(* The inductive invariant: the table.  An occupied slot is reached by the *)
(* probe for its hash without passing a vacant one, and none is there      *)
(* twice.                                                                  *)
(***************************************************************************)
Slot == [hash : Nat, key_offset : Nat, encoded_len : Nat, stored : Nat]
Positions(table) == {i \in DOMAIN table : ~IsVacant(table[i])}
SlotsOf(table) == {table[i] : i \in Positions(table)}

IsTable(table) == Slots(table) \in Nat \ {0} /\ table \in [0..Slots(table) - 1 -> Slot]

Reached(table, hash, offset) ==
  \A p \in 0..offset - 1 : ~IsVacant(table[Place(table, hash, p)])

Chained(table) ==
  \A i \in Positions(table), o \in Offsets(table) :
    Place(table, table[i].hash, o) = i => Reached(table, table[i].hash, o)

Distinct(table) == \A i, j \in Positions(table) : table[i] = table[j] => i = j

WellPlaced(table) == IsTable(table) /\ Chained(table) /\ Distinct(table)

\* A table is as long as its domain says.
LEMMA TableSize ==
  ASSUME NEW N \in Nat \ {0}, NEW table \in [0..N - 1 -> Slot]
  PROVE  Slots(table) = N /\ IsTable(table)
  <1> DEFINE c == N - 1
  <1>1. c \in Int /\ c >= 0 /\ c + 1 = N
    OBVIOUS
  <1> HIDE DEF c
  <1>2. Cardinality(0..c) = c + 1
    BY <1>1, FS_Interval
  <1>3. Slots(table) = N
    BY <1>1, <1>2 DEF Slots, c
  <1> QED BY <1>3 DEF IsTable

LEMMA PlaceType ==
  ASSUME NEW table, IsTable(table), NEW hash \in Nat, NEW offset \in Nat
  PROVE  Place(table, hash, offset) \in DOMAIN table /\ Place(table, hash, offset) \in 0..Slots(table) - 1
  <1>1. hash + offset \in Nat
    OBVIOUS
  <1> QED BY <1>1, DivMod DEF Place, IsTable

LEMMA PlaceInjective ==
  ASSUME NEW table, IsTable(table), NEW hash \in Nat, NEW o \in Offsets(table), NEW p \in Offsets(table),
         Place(table, hash, o) = Place(table, hash, p)
  PROVE  o = p
  BY ModInjective DEF Place, IsTable, Offsets

LEMMA PlaceSurjective ==
  ASSUME NEW table, IsTable(table), NEW hash \in Nat, NEW i \in DOMAIN table
  PROVE  \E o \in Offsets(table) : Place(table, hash, o) = i
  <1>1. Slots(table) \in Nat \ {0} /\ i \in 0..Slots(table) - 1
    BY DEF IsTable
  <1> QED BY <1>1, ModSurjective DEF Place, Offsets

\* An empty table is well placed.
LEMMA EmptyIsWellPlaced ==
  ASSUME NEW N \in Nat \ {0}
  PROVE  WellPlaced(EmptyTable(N)) /\ Slots(EmptyTable(N)) = N /\ SlotsOf(EmptyTable(N)) = {}
  <1>1. EmptyTable(N) \in [0..N - 1 -> Slot]
    BY DEF EmptyTable, ZeroSlot, Slot
  <1>2. IsTable(EmptyTable(N)) /\ Slots(EmptyTable(N)) = N
    BY <1>1, TableSize
  <1>3. Positions(EmptyTable(N)) = {}
    BY DEF Positions, EmptyTable, ZeroSlot, IsVacant
  <1> QED BY <1>2, <1>3 DEF WellPlaced, Chained, Distinct, SlotsOf

\* With a vacant slot in the table, the probe for any hash finds the first on its way.
LEMMA FindVacant ==
  ASSUME NEW table, IsTable(table), NEW hash \in Nat, NEW i \in DOMAIN table, IsVacant(table[i])
  PROVE  \E o \in Offsets(table) :
           /\ FindVacantSlot(table, hash) = Place(table, hash, o)
           /\ IsVacant(table[Place(table, hash, o)])
           /\ Reached(table, hash, o)
           /\ First(VacantOffsets(table, hash)) = o
  <1> DEFINE V == VacantOffsets(table, hash)
             o == First(V)
  <1>1. V # {} /\ V \subseteq Nat
    BY PlaceSurjective DEF VacantOffsets, Offsets
  <1>2. o \in V /\ \A p \in V : o <= p
    BY <1>1, FirstIs
  <1>3. o \in Offsets(table) /\ IsVacant(table[Place(table, hash, o)])
    BY <1>2 DEF VacantOffsets
  <1>4. ASSUME NEW p \in 0..o - 1 PROVE ~IsVacant(table[Place(table, hash, p)])
    <2>1. p \in Offsets(table) /\ ~(o <= p)
      BY <1>3 DEF Offsets, IsTable
    <2> QED BY <1>2, <2>1 DEF VacantOffsets
  <1> QED BY <1>3, <1>4 DEF FindVacantSlot, Reached

\* The occupied slots are as many as the positions they are at, and while they are
\* fewer than the slots there is a vacant one.
LEMMA SlotsCount ==
  ASSUME NEW table, WellPlaced(table)
  PROVE  /\ IsFiniteSet(SlotsOf(table)) /\ Cardinality(SlotsOf(table)) \in 0..Slots(table)
         /\ Cardinality(SlotsOf(table)) < Slots(table) => \E i \in DOMAIN table : IsVacant(table[i])
  <1> DEFINE N == Slots(table)
             P == Positions(table)
             S == SlotsOf(table)
             f == [i \in P |-> table[i]]
             c == N - 1
  <1>1. N \in Nat \ {0} /\ DOMAIN table = 0..c /\ c \in Int /\ c >= 0 /\ c + 1 = N
    BY DEF WellPlaced, IsTable
  <1>2. IsFiniteSet(0..c) /\ Cardinality(0..c) = N
    <2>1. c \in Int /\ c >= 0
      BY <1>1
    <2> HIDE DEF c, N
    <2>2. IsFiniteSet(0..c) /\ Cardinality(0..c) = c + 1
      BY <2>1, FS_Interval
    <2> QED BY <1>1, <2>2
  <1>3. P \subseteq 0..c
    BY <1>1 DEF Positions
  <1>4. IsFiniteSet(P) /\ Cardinality(P) \in 0..N
    BY <1>1, <1>2, <1>3, FS_Subset, FS_CardinalityType
  <1>5. f \in Bijection(P, S)
    <2>1. f \in [P -> S] /\ \A s \in S : \E i \in P : f[i] = s
      BY DEF SlotsOf
    <2>2. \A i, j \in P : f[i] = f[j] => i = j
      BY DEF WellPlaced, Distinct
    <2> HIDE DEF f, P, S
    <2> QED BY <2>1, <2>2 DEF Bijection, Injection, Surjection, IsInjective
  <1>6. IsFiniteSet(S) /\ Cardinality(S) = Cardinality(P)
    <2> HIDE DEF f, P, S
    <2> QED BY <1>4, <1>5, FS_Bijection DEF ExistsBijection
  <1>7. ASSUME Cardinality(S) < N PROVE \E i \in DOMAIN table : IsVacant(table[i])
    <2>1. P # 0..c
      BY <1>2, <1>4, <1>6, <1>7, <1>1
    <2> QED BY <2>1, <1>1, <1>3 DEF Positions
  <1> QED BY <1>4, <1>6, <1>7

\* A slot put where the probe for its hash ends.
LEMMA Put ==
  ASSUME NEW table, WellPlaced(table), NEW i \in DOMAIN table, IsVacant(table[i]),
         NEW slot \in Slot, ~IsVacant(slot), slot \notin SlotsOf(table)
  PROVE  LET v == FindVacantSlot(table, slot.hash)
             new == [table EXCEPT ![v] = slot]
         IN /\ v \in DOMAIN table /\ IsVacant(table[v])
            /\ WellPlaced(new) /\ Slots(new) = Slots(table)
            /\ SlotsOf(new) = SlotsOf(table) \cup {slot}
  <1> DEFINE v == FindVacantSlot(table, slot.hash)
             new == [table EXCEPT ![v] = slot]
             N == Slots(table)
  <1>1. IsTable(table) /\ N \in Nat \ {0} /\ table \in [0..N - 1 -> Slot] /\ slot.hash \in Nat
    BY DEF WellPlaced, IsTable, Slot
  <1>2. PICK o \in Offsets(table) : /\ v = Place(table, slot.hash, o)
                                    /\ IsVacant(table[v])
                                    /\ Reached(table, slot.hash, o)
    BY <1>1, FindVacant
  <1>3. v \in 0..N - 1 /\ v \in DOMAIN table
    BY <1>1, <1>2, PlaceType DEF Offsets
  <1> HIDE DEF v
  <1>4. new \in [0..N - 1 -> Slot]
    BY <1>1, <1>3
  <1>5. new[v] = slot /\ \A j \in 0..N - 1 : j # v => new[j] = table[j]
    BY <1>1, <1>3
  <1> HIDE DEF new
  <1>6. IsTable(new) /\ Slots(new) = N
    BY <1>1, <1>4, TableSize
  <1>7. Positions(new) = Positions(table) \cup {v} /\ v \notin Positions(table)
    BY <1>1, <1>2, <1>3, <1>4, <1>5 DEF Positions
  <1>8. Positions(table) \subseteq 0..N - 1
    BY <1>1 DEF Positions
  <1>9. SlotsOf(new) = SlotsOf(table) \cup {slot}
    BY <1>5, <1>7, <1>8 DEF SlotsOf
  <1>10. Distinct(new)
    <2>1. Distinct(table)
      BY DEF WellPlaced
    <2>2. \A j \in Positions(table) : new[j] = table[j] /\ table[j] # slot
      BY <1>5, <1>7, <1>8 DEF SlotsOf
    <2> QED BY <2>1, <2>2, <1>5, <1>7 DEF Distinct
  <1>11. Chained(new)
    <2> SUFFICES ASSUME NEW j \in Positions(new), NEW q \in Offsets(new), Place(new, new[j].hash, q) = j,
                        NEW p \in 0..q - 1
                 PROVE  ~IsVacant(new[Place(new, new[j].hash, p)])
      BY DEF Chained, Reached
    <2>1. Offsets(new) = Offsets(table) /\ \A h, r : Place(new, h, r) = Place(table, h, r)
      BY <1>6 DEF Offsets, Place
    <2>2. p \in Nat /\ p \in Offsets(table) /\ q \in Offsets(table) /\ p < q
      BY <1>1, <1>6 DEF Offsets
    <2>3. CASE j = v
      <3>1. o = q
        BY <2>1, <2>2, <2>3, <1>1, <1>2, <1>5, PlaceInjective
      <3>2. ~IsVacant(table[Place(table, slot.hash, p)])
        BY <3>1, <1>2 DEF Reached
      <3>3. Place(table, slot.hash, p) \in 0..N - 1 /\ Place(table, slot.hash, p) # v
        BY <3>2, <2>2, <1>1, <1>2, PlaceType
      <3> QED BY <2>1, <2>3, <3>2, <3>3, <1>5
    <2>4. CASE j \in Positions(table)
      <3>1. new[j] = table[j] /\ table[j].hash \in Nat
        BY <2>4, <1>5, <1>7, <1>8, <1>1 DEF Slot
      <3>2. ~IsVacant(table[Place(table, table[j].hash, p)])
        BY <2>1, <2>2, <2>4, <3>1 DEF WellPlaced, Chained, Reached
      <3>3. Place(table, table[j].hash, p) \in 0..N - 1 /\ Place(table, table[j].hash, p) # v
        BY <3>1, <3>2, <2>2, <1>1, <1>2, PlaceType
      <3> QED BY <2>1, <3>1, <3>2, <3>3, <1>5
    <2> QED BY <2>3, <2>4, <1>7
  <1> QED BY <1>2, <1>3, <1>6, <1>9, <1>10, <1>11 DEF WellPlaced, new, v

\* A slot written over one with the same hash.
IsRewritten(new, table, old, slot) ==
  /\ WellPlaced(new) /\ Slots(new) = Slots(table)
  /\ SlotsOf(new) = (SlotsOf(table) \ {old}) \cup {slot}

LEMMA Rewritten ==
  ASSUME NEW table, WellPlaced(table), NEW i \in Positions(table),
         NEW slot \in Slot, ~IsVacant(slot), slot.hash = table[i].hash,
         slot \notin SlotsOf(table) \ {table[i]}, NEW new, new = [table EXCEPT ![i] = slot]
  PROVE  IsRewritten(new, table, table[i], slot)
  <1> DEFINE N == Slots(table)
  <1>1. IsTable(table) /\ N \in Nat \ {0} /\ table \in [0..N - 1 -> Slot]
    BY DEF WellPlaced, IsTable
  <1>2. i \in 0..N - 1 /\ Positions(table) \subseteq 0..N - 1
    BY <1>1 DEF Positions
  <1>3. new \in [0..N - 1 -> Slot]
    BY <1>1, <1>2
  <1>4. new[i] = slot /\ \A j \in 0..N - 1 : j # i => new[j] = table[j]
    BY <1>1, <1>2
  <1>5. IsTable(new) /\ Slots(new) = N
    BY <1>1, <1>3, TableSize
  <1>6. \A j \in 0..N - 1 : new[j].hash = table[j].hash /\ (IsVacant(new[j]) <=> IsVacant(table[j]))
    BY <1>1, <1>2, <1>4 DEF Positions
  <1>7. Positions(new) = Positions(table)
    BY <1>1, <1>3, <1>6 DEF Positions
  <1>8. Distinct(table)
    BY DEF WellPlaced
  <1>9. SlotsOf(new) = (SlotsOf(table) \ {table[i]}) \cup {slot}
    <2>1. ASSUME NEW s PROVE s \in SlotsOf(new) <=> s \in (SlotsOf(table) \ {table[i]}) \cup {slot}
      BY <1>2, <1>4, <1>7, <1>8 DEF SlotsOf, Distinct
    <2> QED BY <2>1
  <1>10. Distinct(new)
    BY <1>2, <1>4, <1>7, <1>8 DEF SlotsOf, Distinct
  <1>11. Chained(new)
    <2> SUFFICES ASSUME NEW j \in Positions(new), NEW q \in Offsets(new), Place(new, new[j].hash, q) = j,
                        NEW p \in 0..q - 1
                 PROVE  ~IsVacant(new[Place(new, new[j].hash, p)])
      BY DEF Chained, Reached
    <2>1. Offsets(new) = Offsets(table) /\ \A h, r : Place(new, h, r) = Place(table, h, r)
      BY <1>5 DEF Offsets, Place
    <2>2. p \in Nat /\ q \in Offsets(table) /\ j \in Positions(table) /\ new[j].hash = table[j].hash
      BY <1>1, <1>2, <1>5, <1>6, <1>7 DEF Offsets
    <2>3. ~IsVacant(table[Place(table, table[j].hash, p)])
      BY <2>1, <2>2 DEF WellPlaced, Chained, Reached
    <2>4. table[j].hash \in Nat
      BY <2>2, <1>1, <1>2 DEF Slot
    <2> DEFINE x == Place(table, table[j].hash, p)
    <2>5. x \in 0..N - 1
      BY <2>2, <2>4, <1>1, PlaceType
    <2>6. Place(new, new[j].hash, p) = x
      BY <2>1, <2>2
    <2> HIDE DEF x, N
    <2> QED BY <2>3, <2>5, <2>6, <1>6, Zenon DEF x
  <1> QED BY <1>5, <1>9, <1>10, <1>11 DEF WellPlaced, IsRewritten

-----------------------------------------------------------------------------
(* Growing *)

\* The fold over a sequence takes the elements of a set of positions from the last one on.
LEMMA MaxIs ==
  ASSUME NEW M \in Nat, NEW S \in SUBSET (1..M), S # {}
  PROVE  Max(S) \in S /\ (M \in S => Max(S) = M)
  <1> DEFINE T == {M - x : x \in S}
  <1>1. T \subseteq Nat /\ T # {}
    OBVIOUS
  <1>2. PICK t \in T : \A u \in T : t <= u
    <2> HIDE DEF T
    <2> QED BY <1>1, Least
  <1>3. M - t \in S /\ \A y \in S : M - t >= y
    <2>1. PICK x \in S : t = M - x
      OBVIOUS
    <2>2. \A y \in S : M - x <= M - y
      BY <1>2, <2>1
    <2>3. \A y \in S : y \in Nat /\ x \in Nat
      OBVIOUS
    <2>4. M - t = x /\ \A y \in S : x >= y
      BY <2>1, <2>2, <2>3
    <2> QED BY <2>4
  <1>4. Max(S) \in S /\ \A y \in S : Max(S) >= y
    BY <1>3, Zenon DEF Max
  <1>5. ASSUME M \in S PROVE Max(S) = M
    BY <1>4, <1>5
  <1> QED BY <1>4, <1>5

\* One slot more in the new table
Rehashed(new, slot) ==
  IF IsVacant(slot) THEN new ELSE [new EXCEPT ![FindVacantSlot(new, slot.hash)] = slot]

IsGrowth(g, M, table) ==
  g = [S \in SUBSET (1..M) |->
         IF S = {} THEN EmptyTable(2 * Slots(table))
         ELSE Rehashed(g[S \ {Max(S)}], table[Max(S) - 1])]

LEMMA GrowthStep ==
  ASSUME NEW table, NEW M \in Nat, NEW g, IsGrowth(g, M, table)
  PROVE  \E k : IsGrowth(k, M + 1, table)
  <1> DEFINE k == [S \in SUBSET (1..M + 1) |->
                     IF M + 1 \in S THEN Rehashed(g[S \ {M + 1}], table[M]) ELSE g[S]]
             e == [S \in SUBSET (1..M + 1) |->
                     IF S = {} THEN EmptyTable(2 * Slots(table))
                     ELSE Rehashed(k[S \ {Max(S)}], table[Max(S) - 1])]
  <1>1. ASSUME NEW S \in SUBSET (1..M + 1) PROVE k[S] = e[S]
    <2>1. CASE M + 1 \in S
      <3>1. Max(S) = M + 1 /\ S # {}
        BY <2>1, MaxIs
      <3>2. S \ {M + 1} \in SUBSET (1..M) /\ S \ {M + 1} \in SUBSET (1..M + 1)
        OBVIOUS
      <3>3. k[S \ {M + 1}] = g[S \ {M + 1}]
        BY <3>2
      <3>4. k[S] = Rehashed(g[S \ {M + 1}], table[M])
        BY <2>1
      <3>5. e[S] = Rehashed(k[S \ {Max(S)}], table[Max(S) - 1])
        BY <3>1
      <3>6. (M + 1) - 1 = M
        OBVIOUS
      <3> HIDE DEF k, e
      <3> QED BY <3>1, <3>3, <3>4, <3>5, <3>6
    <2>2. CASE M + 1 \notin S
      <3>1. S \in SUBSET (1..M)
        BY <2>2
      <3>2. k[S] = g[S]
        BY <2>2
      <3>3. g[S] = IF S = {} THEN EmptyTable(2 * Slots(table))
                   ELSE Rehashed(g[S \ {Max(S)}], table[Max(S) - 1])
        BY <3>1 DEF IsGrowth
      <3>4. S \ {Max(S)} \in SUBSET (1..M + 1) /\ M + 1 \notin S \ {Max(S)}
        BY <2>2
      <3>5. k[S \ {Max(S)}] = g[S \ {Max(S)}]
        BY <3>4
      <3>6. e[S] = IF S = {} THEN EmptyTable(2 * Slots(table))
                   ELSE Rehashed(k[S \ {Max(S)}], table[Max(S) - 1])
        OBVIOUS
      <3> HIDE DEF k, e
      <3> QED BY <3>2, <3>3, <3>5, <3>6
    <2> QED BY <2>1, <2>2
  <1>2. k = e
    <2>1. k = [S \in SUBSET (1..M + 1) |-> k[S]] /\ e = [S \in SUBSET (1..M + 1) |-> e[S]]
      OBVIOUS
    <2> HIDE DEF k, e
    <2> QED BY <1>1, <2>1
  <1> QED BY <1>2 DEF IsGrowth

LEMMA GrowthExists ==
  ASSUME NEW table, NEW N \in Nat
  PROVE  \E g : IsGrowth(g, N, table)
  <1> DEFINE S == {M \in Nat : \E g : IsGrowth(g, M, table)}
  <1>1. 0 \in S
    <2> DEFINE g == [T \in SUBSET (1..0) |-> EmptyTable(2 * Slots(table))]
    <2>1. \A T \in SUBSET (1..0) : T = {}
      OBVIOUS
    <2>2. IsGrowth(g, 0, table)
      BY <2>1, Zenon DEF IsGrowth
    <2> QED BY <2>2
  <1>2. \A M \in 0..N - 1 : M \in S => M + 1 \in S
    BY GrowthStep
  <1> HIDE DEF S
  <1>3. 0..N \subseteq S
    BY <1>1, <1>2, UpTo
  <1> QED BY <1>3 DEF S

\* The new table, one slot of the old one after the other
LEMMA GrownSteps ==
  ASSUME NEW table, Slots(table) \in Nat
  PROVE  \E h : /\ h[0] = EmptyTable(2 * Slots(table))
                /\ \A n \in 0..Slots(table) - 1 : h[n + 1] = Rehashed(h[n], table[n])
                /\ Grown(table) = h[Slots(table)]
  <1> DEFINE N == Slots(table)
             slots == [i \in 1..N |-> table[i - 1]]
             Folds(g) == g = [S \in SUBSET DOMAIN slots |->
                                IF S = {} THEN EmptyTable(2 * N)
                                ELSE Rehashed(g[S \ {Max(S)}], slots[Max(S)])]
             g == CHOOSE g : Folds(g)
  <1>1. Grown(table) = g[DOMAIN slots]
    BY DEF Grown, FoldLeft, MapThenFoldSet, Rehashed
  <1>2. DOMAIN slots = 1..N
    OBVIOUS
  <1>3. ASSUME NEW f PROVE Folds(f) <=> IsGrowth(f, N, table)
    <2> DEFINE e == [S \in SUBSET DOMAIN slots |->
                                IF S = {} THEN EmptyTable(2 * N)
                                ELSE Rehashed(f[S \ {Max(S)}], slots[Max(S)])]
               k == [S \in SUBSET (1..N) |->
                                IF S = {} THEN EmptyTable(2 * N)
                                ELSE Rehashed(f[S \ {Max(S)}], table[Max(S) - 1])]
    <2>1. \A S \in SUBSET (1..N) : S # {} => slots[Max(S)] = table[Max(S) - 1]
      BY MaxIs
    <2>2. e = k
      <3>1. ASSUME NEW S \in SUBSET (1..N) PROVE e[S] = k[S]
        <4> HIDE DEF slots
        <4>1. e[S] = IF S = {} THEN EmptyTable(2 * N) ELSE Rehashed(f[S \ {Max(S)}], slots[Max(S)])
          BY <1>2
        <4>2. k[S] = IF S = {} THEN EmptyTable(2 * N) ELSE Rehashed(f[S \ {Max(S)}], table[Max(S) - 1])
          OBVIOUS
        <4> HIDE DEF e, k
        <4> QED BY <2>1, <4>1, <4>2
      <3>2. DOMAIN e = SUBSET (1..N) /\ DOMAIN k = SUBSET (1..N)
        BY <1>2
      <3>3. e = [S \in SUBSET (1..N) |-> e[S]] /\ k = [S \in SUBSET (1..N) |-> k[S]]
        BY <1>2
      <3> HIDE DEF e, k
      <3> QED BY <3>1, <3>3
    <2>3. Folds(f) <=> f = e
      OBVIOUS
    <2>4. IsGrowth(f, N, table) <=> f = k
      BY DEF IsGrowth
    <2> HIDE DEF e, k, Folds
    <2> QED BY <2>2, <2>3, <2>4
  <1>4. Folds(g)
    <2>1. \E f : Folds(f)
      <3> HIDE DEF Folds
      <3> QED BY <1>3, GrowthExists
    <2> HIDE DEF Folds
    <2> QED BY <2>1, Zenon
  <1>5. IsGrowth(g, N, table)
    <2> HIDE DEF Folds, g
    <2> QED BY <1>3, <1>4
  <1> HIDE DEF g
  <1> DEFINE h == [n \in 0..N |-> g[1..n]]
  <1>6. h[0] = EmptyTable(2 * N)
    <2>1. 1..0 = {} /\ {} \in SUBSET (1..N)
      OBVIOUS
    <2> QED BY <1>5, <2>1 DEF IsGrowth
  <1>7. ASSUME NEW n \in 0..N - 1 PROVE h[n + 1] = Rehashed(h[n], table[n])
    <2>1. 1..n + 1 \in SUBSET (1..N) /\ 1..n + 1 # {} /\ n + 1 \in 1..n + 1
      OBVIOUS
    <2>2. Max(1..n + 1) = n + 1
      BY <2>1, MaxIs
    <2>3. (1..n + 1) \ {n + 1} = 1..n /\ (n + 1) - 1 = n
      OBVIOUS
    <2>4. g[1..n + 1] = Rehashed(g[(1..n + 1) \ {Max(1..n + 1)}], table[Max(1..n + 1) - 1])
      BY <1>5, <2>1 DEF IsGrowth
    <2>5. h[n + 1] = g[1..n + 1] /\ h[n] = g[1..n]
      OBVIOUS
    <2> HIDE DEF h
    <2> QED BY <2>2, <2>3, <2>4, <2>5
  <1>8. Grown(table) = h[N]
    BY <1>1, <1>2
  <1> HIDE DEF h
  <1> QED BY <1>6, <1>7, <1>8

\* A table that has grown holds the slots it held, each where a probe finds it.
LEMMA GrownIs ==
  ASSUME NEW table, WellPlaced(table)
  PROVE  /\ WellPlaced(Grown(table)) /\ Slots(Grown(table)) = 2 * Slots(table)
         /\ SlotsOf(Grown(table)) = SlotsOf(table)
  <1> DEFINE N == Slots(table)
             Before(n) == {table[i] : i \in {j \in Positions(table) : j < n}}
  <1>1. N \in Nat \ {0} /\ table \in [0..N - 1 -> Slot] /\ Positions(table) \subseteq 0..N - 1
    BY DEF WellPlaced, IsTable, Positions
  <1>2. PICK h : /\ h[0] = EmptyTable(2 * N)
                 /\ \A n \in 0..N - 1 : h[n + 1] = Rehashed(h[n], table[n])
                 /\ Grown(table) = h[N]
    BY <1>1, GrownSteps
  <1> DEFINE Ok(n) == WellPlaced(h[n]) /\ Slots(h[n]) = 2 * N /\ SlotsOf(h[n]) = Before(n)
             S == {n \in 0..N : Ok(n)}
  <1>3. 0 \in S
    <2>1. Before(0) = {}
      BY <1>1
    <2>2. 2 * N \in Nat \ {0}
      BY <1>1
    <2>3. Ok(0)
      BY <1>2, <2>1, <2>2, EmptyIsWellPlaced
    <2> QED BY <1>1, <2>3
  <1>4. ASSUME NEW n \in 0..N - 1, Ok(n) PROVE Ok(n + 1)
    <2> DEFINE slot == table[n]
    <2>1. slot \in Slot /\ h[n + 1] = Rehashed(h[n], slot)
      BY <1>1, <1>2
    <2>2. CASE IsVacant(slot)
      <3>1. h[n + 1] = h[n]
        BY <2>1, <2>2 DEF Rehashed
      <3>2. Before(n + 1) = Before(n)
        BY <1>1, <2>2 DEF Positions
      <3> QED BY <1>4, <3>1, <3>2
    <2>3. CASE ~IsVacant(slot)
      <3>1. Before(n + 1) = Before(n) \cup {slot}
        <4>1. n \in Positions(table)
          BY <1>1, <2>3 DEF Positions
        <4>2. \A j \in Positions(table) : j < n + 1 <=> j < n \/ j = n
          BY <1>1
        <4> QED BY <4>1, <4>2
      <3>2. slot \notin Before(n)
        BY <1>1, <2>3 DEF WellPlaced, Distinct, Positions
      <3>3. Cardinality(SlotsOf(h[n])) < 2 * N
        <4>1. Before(n) \subseteq SlotsOf(table)
          BY DEF SlotsOf
        <4>2. Cardinality(SlotsOf(table)) \in 0..N /\ IsFiniteSet(SlotsOf(table))
          BY SlotsCount
        <4>3. Cardinality(SlotsOf(h[n])) \in Nat
          <5> HIDE DEF Before
          <5> QED BY <1>1, <1>4, SlotsCount
        <4>4. Cardinality(Before(n)) <= Cardinality(SlotsOf(table))
          BY <4>1, <4>2, FS_Subset
        <4> QED BY <1>1, <1>4, <4>2, <4>3, <4>4
      <3>4. PICK i \in DOMAIN h[n] : IsVacant(h[n][i])
        BY <1>4, <3>3, SlotsCount
      <3>5. h[n + 1] = [h[n] EXCEPT ![FindVacantSlot(h[n], slot.hash)] = slot]
        BY <2>1, <2>3 DEF Rehashed
      <3> HIDE DEF slot, Before
      <3>6. WellPlaced(h[n + 1]) /\ Slots(h[n + 1]) = Slots(h[n])
            /\ SlotsOf(h[n + 1]) = SlotsOf(h[n]) \cup {slot}
        BY <1>4, <2>1, <2>3, <3>2, <3>4, <3>5, Put
      <3> QED BY <1>4, <3>1, <3>6
    <2> QED BY <2>2, <2>3
  <1>5. \A n \in 0..N - 1 : n \in S => n + 1 \in S
    <2> HIDE DEF Ok
    <2> QED BY <1>1, <1>4
  <1>6. Ok(N)
    <2> HIDE DEF Ok
    <2>1. S \subseteq 0..N /\ \A n \in S : Ok(n)
      OBVIOUS
    <2> HIDE DEF S
    <2>2. 0..N \subseteq S
      BY <1>1, <1>3, <1>5, UpTo
    <2> QED BY <1>1, <2>1, <2>2
  <1>7. Before(N) = SlotsOf(table)
    BY <1>1 DEF SlotsOf
  <1> QED BY <1>2, <1>6, <1>7

-----------------------------------------------------------------------------
(***************************************************************************)
(* The inductive invariant: the file of keys.  Whatever the cursor and the *)
(* buffer are, the keys are those of the file followed by the buffer; a    *)
(* slot's key is one of the identifiers and no other slot has it.          *)
(***************************************************************************)
Bytes(d) == d.file \o d.buffer
Key(bytes, slot) == ReadAt(bytes, slot.key_offset, slot.encoded_len - 1)

IsDisk(d) ==
  d \in [table : {d.table}, seed : Seeds, file : Seq(Nat), buffer : Seq(Nat), cursor : Nat,
         key_cursor_displaced : BOOLEAN, key_bytes : Nat, len : Nat, poisoned : BOOLEAN]

FileOk(d) ==
  /\ d.key_bytes = Len(d.file) + Len(d.buffer)
  /\ d.cursor <= Len(d.file)
  /\ d.key_cursor_displaced => d.buffer = <<>>
  /\ ~d.key_cursor_displaced => d.cursor = Len(d.file)

InFile(bytes, seed, slot) ==
  /\ slot.key_offset + slot.encoded_len - 1 <= Len(bytes)
  /\ Key(bytes, slot) \in Ids
  /\ slot.hash = Hash(seed, Key(bytes, slot))

KeysOk(S, bytes, seed) ==
  /\ \A slot \in S : InFile(bytes, seed, slot)
  /\ \A slot, other \in S : Key(bytes, slot) = Key(bytes, other) => slot = other

DiskOk(d) ==
  /\ IsDisk(d) /\ FileOk(d) /\ WellPlaced(d.table)
  /\ KeysOk(SlotsOf(d.table), Bytes(d), d.seed)
  /\ d.len = Cardinality(SlotsOf(d.table))
  /\ ~ExceedsLoad(d.len, Slots(d.table))

\* The entries of a set of slots
MapOf(S, bytes) ==
  [id \in {Key(bytes, slot) : slot \in S} |-> (CHOOSE slot \in S : Key(bytes, slot) = id).stored]
MapIn(d) == MapOf(SlotsOf(d.table), Bytes(d))

LEMMA ReadAtIs ==
  ASSUME NEW bytes \in Seq(Nat), NEW offset \in Nat, NEW length \in Nat
  PROVE  /\ ReadAt(bytes, offset, length) \in Seq(Nat) /\ Len(ReadAt(bytes, offset, length)) = length
         /\ \A i \in 1..length : ReadAt(bytes, offset, length)[i] = IF offset + i <= Len(bytes) THEN bytes[offset + i] ELSE 0
  BY DEF ReadAt

LEMMA OverwriteNothing ==
  ASSUME NEW bytes \in Seq(Nat), NEW c \in Nat, c <= Len(bytes)
  PROVE  Overwrite(bytes, c, <<>>) = bytes
  <1> DEFINE first == ReadAt(bytes, 0, c)
             rest == SubSeq(bytes, c + 1, Len(bytes))
  <1>1. first \in Seq(Nat) /\ Len(first) = c /\ \A i \in 1..c : first[i] = bytes[i]
    <2>1. \A i \in 1..c : 0 + i = i /\ i <= Len(bytes)
      OBVIOUS
    <2>2. /\ first \in Seq(Nat) /\ Len(first) = c
          /\ \A i \in 1..c : first[i] = IF 0 + i <= Len(bytes) THEN bytes[0 + i] ELSE 0
      BY ReadAtIs, 0 \in Nat
    <2> HIDE DEF first
    <2> QED BY <2>1, <2>2
  <1>2. rest \in Seq(Nat) /\ Len(rest) = Len(bytes) - c /\ \A i \in 1..Len(bytes) - c : rest[i] = bytes[c + i]
    <2> DEFINE m == c + 1
               n == Len(bytes)
    <2>1. m \in 1..n + 1 /\ n \in Nat /\ n - m + 1 = n - c /\ \A i \in 1..n - c : m + i - 1 = c + i
      OBVIOUS
    <2> HIDE DEF m, n
    <2>2. /\ SubSeq(bytes, m, n) \in Seq(Nat)
          /\ Len(SubSeq(bytes, m, n)) = IF m <= n THEN n - m + 1 ELSE 0
          /\ \A i \in 1..n - m + 1 : SubSeq(bytes, m, n)[i] = bytes[m + i - 1]
      BY <2>1, SubSeqProperties, SMT DEF n
    <2>3. rest = SubSeq(bytes, m, n)
      BY DEF m, n
    <2> QED BY <2>1, <2>2, <2>3 DEF n
  <1>3. Overwrite(bytes, c, <<>>) = first \o rest
    <2> HIDE DEF first
    <2>1. first \o <<>> = first
      BY <1>1, ConcatEmptySeq
    <2>2. c + Len(<<>>) + 1 = c + 1
      OBVIOUS
    <2> QED BY <2>1, <2>2 DEF Overwrite, first
  <1> HIDE DEF first, rest
  <1>4. /\ first \o rest \in Seq(Nat) /\ Len(first \o rest) = Len(bytes)
        /\ \A i \in 1..Len(bytes) : (first \o rest)[i] = IF i <= c THEN first[i] ELSE rest[i - c]
    BY <1>1, <1>2, ConcatProperties
  <1>5. \A i \in 1..Len(bytes) : (first \o rest)[i] = bytes[i]
    <2> TAKE i \in 1..Len(bytes)
    <2>0. i <= c \/ i > c
      OBVIOUS
    <2>1. CASE i <= c
      BY <2>1, <1>1, <1>4
    <2>2. CASE i > c
      <3>1. i - c \in 1..Len(bytes) - c /\ c + (i - c) = i
        BY <2>2
      <3> QED BY <3>1, <2>2, <1>2, <1>4
    <2> QED BY <2>0, <2>1, <2>2
  <1>6. first \o rest = bytes
    <2> DEFINE s == first \o rest
    <2>1. s \in Seq(Nat) /\ Len(s) = Len(bytes) /\ \A i \in 1..Len(s) : s[i] = bytes[i]
      BY <1>4, <1>5
    <2> HIDE DEF s
    <2>2. s = bytes
      BY <2>1, SeqEqual
    <2> QED BY <2>2 DEF s
  <1> QED BY <1>3, <1>6

LEMMA OverwriteAtEnd ==
  ASSUME NEW bytes \in Seq(Nat), NEW new \in Seq(Nat)
  PROVE  Overwrite(bytes, Len(bytes), new) = bytes \o new
  <1> DEFINE c == Len(bytes)
             first == ReadAt(bytes, 0, c)
             rest == SubSeq(bytes, c + Len(new) + 1, c)
  <1>1. c \in Nat /\ Len(new) \in Nat
    OBVIOUS
  <1>2. first \in Seq(Nat) /\ Len(first) = c /\ \A i \in 1..c : first[i] = bytes[i]
    <2>1. \A i \in 1..c : 0 + i = i /\ i <= c
      OBVIOUS
    <2> QED BY <1>1, <2>1, ReadAtIs
  <1>3. first = bytes
    <2> HIDE DEF first
    <2> QED BY <1>2, SeqEqual
  <1>4. rest = <<>>
    BY <1>1, SubSeqEmpty
  <1>5. Overwrite(bytes, c, new) = (first \o new) \o rest
    BY DEF Overwrite
  <1>6. bytes \o new \in Seq(Nat)
    BY ConcatProperties
  <1> HIDE DEF first, rest
  <1> QED BY <1>3, <1>4, <1>5, <1>6, ConcatEmptySeq

LEMMA DiskFields ==
  ASSUME NEW d, IsDisk(d), FileOk(d)
  PROVE  /\ d.file \in Seq(Nat) /\ d.buffer \in Seq(Nat) /\ Bytes(d) \in Seq(Nat)
         /\ Len(Bytes(d)) = d.key_bytes /\ Len(Bytes(d)) = Len(d.file) + Len(d.buffer)
         /\ d.cursor \in Nat /\ d.key_bytes \in Nat /\ Len(d.buffer) \in Nat /\ Len(d.file) \in Nat
  <1>1. d.file \in Seq(Nat) /\ d.buffer \in Seq(Nat) /\ d.cursor \in Nat /\ d.key_bytes \in Nat
    BY DEF IsDisk
  <1>2. \A s \in Seq(Nat) : Len(s) \in Nat
    OBVIOUS
  <1> QED BY <1>1, <1>2, ConcatProperties DEF Bytes, FileOk

LEMMA FlushIs ==
  ASSUME NEW d, IsDisk(d), FileOk(d)
  PROVE  /\ Flush(d).file = Bytes(d)
         /\ Flush(d) = [d EXCEPT !.file = Bytes(d), !.cursor = d.cursor + Len(d.buffer), !.buffer = <<>>]
  <1>1. Overwrite(d.file, d.cursor, d.buffer) = Bytes(d)
    <2>1. CASE d.key_cursor_displaced
      <3>1. d.buffer = <<>> /\ d.cursor <= Len(d.file)
        BY <2>1 DEF FileOk
      <3>2. Overwrite(d.file, d.cursor, <<>>) = d.file
        BY <3>1, DiskFields, OverwriteNothing
      <3>3. Bytes(d) = d.file
        BY <3>1, DiskFields, ConcatEmptySeq DEF Bytes
      <3> QED BY <3>1, <3>2, <3>3
    <2>2. CASE ~d.key_cursor_displaced
      <3>1. d.cursor = Len(d.file)
        BY <2>2 DEF FileOk
      <3>2. Overwrite(d.file, Len(d.file), d.buffer) = Bytes(d)
        BY DiskFields, OverwriteAtEnd DEF Bytes
      <3> QED BY <3>1, <3>2
    <2> QED BY <2>1, <2>2 DEF IsDisk
  <1> QED BY <1>1 DEF Flush, IsDisk

\* A key that is in the file stays what it is when another is appended.
LEMMA ReadAtAppended ==
  ASSUME NEW bytes \in Seq(Nat), NEW more \in Seq(Nat), NEW offset \in Nat, NEW length \in Nat,
         offset + length <= Len(bytes)
  PROVE  ReadAt(bytes \o more, offset, length) = ReadAt(bytes, offset, length)
  <1> DEFINE all == bytes \o more
             new == ReadAt(all, offset, length)
             old == ReadAt(bytes, offset, length)
  <1>1. all \in Seq(Nat) /\ Len(all) = Len(bytes) + Len(more) /\ \A k \in 1..Len(bytes) : all[k] = bytes[k]
    BY ConcatProperties
  <1> HIDE DEF all
  <1>2. /\ new \in Seq(Nat) /\ Len(new) = length
        /\ \A i \in 1..length : new[i] = IF offset + i <= Len(all) THEN all[offset + i] ELSE 0
    BY <1>1, ReadAtIs
  <1>3. /\ old \in Seq(Nat) /\ Len(old) = length
        /\ \A i \in 1..length : old[i] = IF offset + i <= Len(bytes) THEN bytes[offset + i] ELSE 0
    BY ReadAtIs
  <1> HIDE DEF new, old
  <1>4. Len(bytes) \in Nat /\ Len(more) \in Nat
    OBVIOUS
  <1>5. ASSUME NEW i \in 1..length PROVE new[i] = old[i]
    <2> DEFINE k == offset + i
    <2>1. k \in 1..Len(bytes) /\ k <= Len(bytes) /\ k <= Len(all)
      BY <1>1, <1>4
    <2>2. new[i] = IF k <= Len(all) THEN all[k] ELSE 0
      BY <1>2
    <2>3. old[i] = IF k <= Len(bytes) THEN bytes[k] ELSE 0
      BY <1>3
    <2> HIDE DEF k
    <2> QED BY <1>1, <2>1, <2>2, <2>3
  <1>6. new = old
    BY <1>2, <1>3, <1>5, SeqEqual
  <1> QED BY <1>6 DEF new, old, all

LEMMA KeyAppended ==
  ASSUME NEW bytes \in Seq(Nat), NEW more \in Seq(Nat), NEW slot \in Slot, ~IsVacant(slot),
         slot.key_offset + slot.encoded_len - 1 <= Len(bytes)
  PROVE  Key(bytes \o more, slot) = Key(bytes, slot)
  <1>1. slot.key_offset \in Nat /\ slot.encoded_len - 1 \in Nat
    BY DEF Slot, IsVacant
  <1>2. slot.key_offset + (slot.encoded_len - 1) <= Len(bytes)
    BY <1>1 DEF Slot
  <1> QED BY <1>1, <1>2, ReadAtAppended DEF Key

LEMMA KeyWrittenLast ==
  ASSUME NEW bytes \in Seq(Nat), NEW id \in Seq(Nat), NEW slot,
         slot.key_offset = Len(bytes), slot.encoded_len = Len(id) + 1
  PROVE  Key(bytes \o id, slot) = id
  <1>1. bytes \o id \in Seq(Nat) /\ Len(bytes \o id) = Len(bytes) + Len(id)
    OBVIOUS
  <1>2. slot.encoded_len - 1 = Len(id) /\ Len(id) \in Nat /\ Len(bytes) \in Nat
    OBVIOUS
  <1> DEFINE key == ReadAt(bytes \o id, Len(bytes), Len(id))
  <1>3. Key(bytes \o id, slot) = key
    BY <1>2 DEF Key
  <1>4. /\ key \in Seq(Nat) /\ Len(key) = Len(id)
        /\ \A i \in 1..Len(id) : key[i] = IF Len(bytes) + i <= Len(bytes \o id) THEN (bytes \o id)[Len(bytes) + i] ELSE 0
    BY <1>1, <1>2, ReadAtIs
  <1> HIDE DEF key
  <1>5. \A i \in 1..Len(id) : key[i] = id[i]
    <2> TAKE i \in 1..Len(id)
    <2> DEFINE k == Len(bytes) + i
    <2>1. k \in 1..Len(bytes) + Len(id) /\ k > Len(bytes) /\ k - Len(bytes) = i /\ k <= Len(bytes \o id)
      BY <1>1, <1>2
    <2>2. key[i] = IF k <= Len(bytes \o id) THEN (bytes \o id)[k] ELSE 0
      BY <1>4
    <2> HIDE DEF k
    <2>3. (bytes \o id)[k] = id[k - Len(bytes)]
      BY <2>1, ConcatProperties
    <2> QED BY <2>1, <2>2, <2>3
  <1> QED BY <1>3, <1>4, <1>5, SeqEqual

\* What the entries of a set of slots are, and how they change with it.
KeysDistinct(S, bytes) ==
  \A slot, other \in S : Key(bytes, slot) = Key(bytes, other) => slot = other

Lists(f, S, bytes) ==
  /\ DOMAIN f = {Key(bytes, slot) : slot \in S}
  /\ \A slot \in S : f[Key(bytes, slot)] = slot.stored

LEMMA MapOfIs ==
  ASSUME NEW S, NEW bytes, KeysDistinct(S, bytes)
  PROVE  Lists(MapOf(S, bytes), S, bytes)
  <1>1. DOMAIN MapOf(S, bytes) = {Key(bytes, slot) : slot \in S}
    BY DEF MapOf
  <1>2. ASSUME NEW slot \in S PROVE MapOf(S, bytes)[Key(bytes, slot)] = slot.stored
    <2> DEFINE s == CHOOSE u \in S : Key(bytes, u) = Key(bytes, slot)
    <2>1. s \in S /\ Key(bytes, s) = Key(bytes, slot)
      OBVIOUS
    <2>2. s = slot
      <3> HIDE DEF s
      <3> QED BY <2>1 DEF KeysDistinct
    <2>3. MapOf(S, bytes)[Key(bytes, slot)] = s.stored
      BY DEF MapOf
    <2> HIDE DEF s
    <2> QED BY <2>2, <2>3
  <1> QED BY <1>1, <1>2 DEF Lists

LEMMA WithIs ==
  ASSUME NEW f, NEW g, NEW id, NEW v, f = [x \in DOMAIN f |-> f[x]], DOMAIN f = DOMAIN g \cup {id},
         f[id] = v, \A x \in DOMAIN g : x # id => f[x] = g[x]
  PROVE  f = With(g, id, v)
  <1> DEFINE w == With(g, id, v)
  <1>1. DOMAIN w = DOMAIN f /\ w = [x \in DOMAIN w |-> w[x]]
    BY DEF With
  <1>2. \A x \in DOMAIN f : f[x] = w[x]
    BY DEF With
  <1> HIDE DEF w
  <1>3. f = w
    BY <1>1, <1>2
  <1> QED BY <1>3 DEF w

LEMMA MapOfAdd ==
  ASSUME NEW S, NEW bytes, NEW more, NEW slot, NEW id,
         \A u, other \in S : Key(bytes, u) = Key(bytes, other) => u = other,
         \A u \in S : Key(more, u) = Key(bytes, u),
         Key(more, slot) = id, id \notin DOMAIN MapOf(S, bytes)
  PROVE  /\ MapOf(S \cup {slot}, more) = With(MapOf(S, bytes), id, slot.stored)
         /\ \A u, other \in S \cup {slot} : Key(more, u) = Key(more, other) => u = other
  <1> DEFINE f == MapOf(S \cup {slot}, more)
             g == MapOf(S, bytes)
             T == S \cup {slot}
  <1>0. \A u \in S : Key(bytes, u) # id
    <2>1. KeysDistinct(S, bytes)
      BY DEF KeysDistinct
    <2>2. Lists(MapOf(S, bytes), S, bytes)
      BY <2>1, MapOfIs
    <2>3. DOMAIN MapOf(S, bytes) = {Key(bytes, u) : u \in S}
      BY <2>2 DEF Lists
    <2> QED BY <2>3
  <1>1. \A u, other \in T : Key(more, u) = Key(more, other) => u = other
    BY <1>0
  <1>2. /\ DOMAIN f = {Key(more, u) : u \in T}
        /\ \A u \in T : f[Key(more, u)] = u.stored
    <2>1. f = MapOf(T, more)
      OBVIOUS
    <2> HIDE DEF T, f
    <2>2. KeysDistinct(T, more)
      BY <1>1 DEF KeysDistinct
    <2>3. Lists(f, T, more)
      BY <2>1, <2>2, MapOfIs
    <2> QED BY <2>3 DEF Lists
  <1>3. /\ DOMAIN g = {Key(bytes, u) : u \in S}
        /\ \A u \in S : g[Key(bytes, u)] = u.stored
    <2>1. KeysDistinct(S, bytes)
      BY DEF KeysDistinct
    <2>2. Lists(MapOf(S, bytes), S, bytes)
      BY <2>1, MapOfIs
    <2> QED BY <2>2 DEF Lists
  <1>4. f = [x \in DOMAIN f |-> f[x]]
    BY DEF MapOf
  <1> HIDE DEF f, g
  <1>5. DOMAIN f = DOMAIN g \cup {id}
    BY <1>2, <1>3
  <1>6. f[id] = slot.stored
    BY <1>2
  <1>7. \A x \in DOMAIN g : f[x] = g[x]
    BY <1>2, <1>3
  <1>8. f = With(g, id, slot.stored)
    BY <1>4, <1>5, <1>6, <1>7, WithIs
  <1> QED BY <1>1, <1>8 DEF f, g

LEMMA MapOfChange ==
  ASSUME NEW S, NEW bytes, NEW old \in S, NEW slot,
         \A u, other \in S : Key(bytes, u) = Key(bytes, other) => u = other,
         Key(bytes, slot) = Key(bytes, old), NEW T, T = (S \ {old}) \cup {slot}
  PROVE  /\ MapOf(T, bytes) = [MapOf(S, bytes) EXCEPT ![Key(bytes, old)] = slot.stored]
         /\ \A u, other \in T : Key(bytes, u) = Key(bytes, other) => u = other
  <1> DEFINE f == MapOf(T, bytes)
             g == MapOf(S, bytes)
             e == [g EXCEPT ![Key(bytes, old)] = slot.stored]
  <1>1. \A u, other \in T : Key(bytes, u) = Key(bytes, other) => u = other
    OBVIOUS
  <1>2. DOMAIN f = {Key(bytes, u) : u \in T} /\ \A u \in T : f[Key(bytes, u)] = u.stored
    <2>1. KeysDistinct(T, bytes)
      BY <1>1 DEF KeysDistinct
    <2>2. Lists(MapOf(T, bytes), T, bytes)
      BY <2>1, MapOfIs
    <2> QED BY <2>2 DEF Lists
  <1>3. DOMAIN g = {Key(bytes, u) : u \in S} /\ \A u \in S : g[Key(bytes, u)] = u.stored
    <2>1. KeysDistinct(S, bytes)
      BY DEF KeysDistinct
    <2>2. Lists(MapOf(S, bytes), S, bytes)
      BY <2>1, MapOfIs
    <2> QED BY <2>2 DEF Lists
  <1>4. f = [x \in DOMAIN f |-> f[x]] /\ g = [x \in DOMAIN g |-> g[x]]
    BY DEF MapOf
  <1> HIDE DEF f, g
  <1>5. DOMAIN f = DOMAIN g
    BY <1>2, <1>3
  <1>6. DOMAIN e = DOMAIN g /\ e = [x \in DOMAIN e |-> e[x]]
    OBVIOUS
  <1>7. \A x \in DOMAIN g : f[x] = e[x]
    <2> TAKE x \in DOMAIN g
    <2>1. PICK u \in S : x = Key(bytes, u)
      BY <1>3
    <2>2. CASE u = old
      BY <1>2, <2>1, <2>2
    <2>3. CASE u # old
      BY <1>2, <1>3, <2>1, <2>3
    <2> QED BY <2>2, <2>3
  <1>8. f = e
    <2> HIDE DEF e
    <2> QED BY <1>4, <1>5, <1>6, <1>7
  <1> QED BY <1>1, <1>8 DEF f, g

LEMMA SlotKey ==
  ASSUME NEW d, IsDisk(d), FileOk(d), NEW slot \in Slot, ~IsVacant(slot)
  PROVE  /\ slot.encoded_len - 1 \in Nat
         /\ Key(Bytes(d), slot) \in Seq(Nat) /\ Len(Key(Bytes(d), slot)) = slot.encoded_len - 1
  <1>1. slot.encoded_len - 1 \in Nat /\ slot.key_offset \in Nat
    BY DEF Slot, IsVacant
  <1> QED BY <1>1, DiskFields, ReadAtIs DEF Key

LEMMA IdType ==
  ASSUME NEW id \in Ids
  PROVE  id \in Seq(Nat) /\ Len(id) \in Nat /\ \A seed \in Seeds : Hash(seed, id) \in Nat
  <1>1. id \in Seq(Nat \ {0})
    BY IdsAssumption
  <1> QED BY <1>1, HashAssumption

\* A slot that a search compares with success is the one of the identifier.
LEMMA ComparedIs ==
  ASSUME NEW d, DiskOk(d), NEW id \in Ids, NEW slot \in SlotsOf(d.table)
  PROVE  IsCompared(d, id, slot) /\ KeyEquals(Flush(d).file, slot, id) <=> Key(Bytes(d), slot) = id
  <1>1. IsDisk(d) /\ FileOk(d) /\ InFile(Bytes(d), d.seed, slot)
    BY DEF DiskOk, KeysOk
  <1>2. slot \in Slot /\ ~IsVacant(slot)
    BY DEF DiskOk, WellPlaced, IsTable, SlotsOf, Positions
  <1>3. /\ slot.encoded_len - 1 \in Nat /\ slot.encoded_len \in Nat
        /\ Key(Bytes(d), slot) \in Seq(Nat) /\ Len(Key(Bytes(d), slot)) = slot.encoded_len - 1
    BY <1>1, <1>2, SlotKey DEF Slot
  <1>4. Flush(d).file = Bytes(d)
    BY <1>1, FlushIs
  <1>5. Len(id) \in Nat
    BY IdType
  <1>6. ASSUME Key(Bytes(d), slot) = id PROVE IsCompared(d, id, slot) /\ KeyEquals(Bytes(d), slot, id)
    <2>1. slot.encoded_len = Len(id) + 1 /\ slot.encoded_len - 1 = Len(id)
      BY <1>3, <1>5, <1>6
    <2>2. slot.hash = Hash(d.seed, id)
      BY <1>1, <1>6 DEF InFile
    <2>3. KeyEquals(Bytes(d), slot, id)
      BY <1>6, <2>1 DEF KeyEquals, Key
    <2> QED BY <2>1, <2>2, <2>3 DEF IsCompared
  <1>7. ASSUME IsCompared(d, id, slot), KeyEquals(Bytes(d), slot, id) PROVE Key(Bytes(d), slot) = id
    <2>1. slot.encoded_len - 1 = Len(id)
      BY <1>3, <1>5, <1>7 DEF IsCompared
    <2> QED BY <1>7, <2>1 DEF KeyEquals, Key
  <1> QED BY <1>4, <1>6, <1>7

\* There is a vacant slot in a table within its load.
LEMMA HasVacancy ==
  ASSUME NEW d, DiskOk(d)
  PROVE  /\ d.len \in Nat /\ Slots(d.table) \in Nat \ {0} /\ d.len < Slots(d.table)
         /\ IsFiniteSet(SlotsOf(d.table)) /\ d.len = Cardinality(SlotsOf(d.table))
         /\ \E i \in DOMAIN d.table : IsVacant(d.table[i])
  <1>1. WellPlaced(d.table) /\ Slots(d.table) \in Nat \ {0} /\ d.len \in Nat
    BY DEF DiskOk, WellPlaced, IsTable, IsDisk
  <1>2. d.len < Slots(d.table)
    <2> DEFINE n == d.len
               N == Slots(d.table)
    <2>1. n \in Nat /\ N \in Nat \ {0} /\ ~(n > (N * 7) \div 10)
      BY <1>1 DEF DiskOk, ExceedsLoad
    <2> HIDE DEF n, N
    <2>2. n < N
      BY <2>1
    <2> QED BY <2>2 DEF n, N
  <1>3. d.len = Cardinality(SlotsOf(d.table))
    BY DEF DiskOk
  <1> QED BY <1>1, <1>2, <1>3, SlotsCount

\* A search comes to the slot that holds the identifier, if one does, and else to the
\* slot that is to take it.
LEMMA Lookup ==
  ASSUME NEW d, DiskOk(d), NEW id \in Ids
  PROVE  /\ ProbeEnds(d, id) # {} /\ ProbeEnd(d, id) \in Offsets(d.table)
         /\ IsKnown(d, id) <=> id \in DOMAIN MapIn(d)
         /\ IsKnown(d, id) => /\ FoundIndex(d, id) \in Positions(d.table)
                              /\ FoundSlot(d, id) \in SlotsOf(d.table)
                              /\ Key(Bytes(d), FoundSlot(d, id)) = id
                              /\ FoundSlot(d, id).stored = MapIn(d)[id]
         /\ ~IsKnown(d, id) => FoundIndex(d, id) = FindVacantSlot(d.table, Hash(d.seed, id))
  <1> DEFINE table == d.table
             hash == Hash(d.seed, id)
             b == Bytes(d)
             S == SlotsOf(table)
             E == ProbeEnds(d, id)
             V == VacantOffsets(table, hash)
             At(o) == table[Place(table, hash, o)]
             IsEnd(o) == IsVacant(At(o)) \/ Key(b, At(o)) = id
  <1>1. /\ IsTable(table) /\ WellPlaced(table) /\ KeysOk(S, b, d.seed) /\ hash \in Nat
        /\ Offsets(table) \subseteq Nat
    BY IdType DEF DiskOk, WellPlaced, IsDisk, Offsets
  <1>2. \A o \in Offsets(table) : /\ Place(table, hash, o) \in DOMAIN table
                                  /\ ~IsVacant(At(o)) => At(o) \in S /\ Place(table, hash, o) \in Positions(table)
    BY <1>1, PlaceType DEF SlotsOf, Positions
  <1>3. \A o \in Offsets(table) : o \in E <=> IsEnd(o)
    <2> TAKE o \in Offsets(table)
    <2>1. o \in E <=> IsVacant(At(o)) \/ (IsCompared(d, id, At(o)) /\ KeyEquals(Flush(d).file, At(o), id))
      BY DEF ProbeEnds, SlotAt
    <2>2. ~IsVacant(At(o)) => (IsCompared(d, id, At(o)) /\ KeyEquals(Flush(d).file, At(o), id) <=> Key(b, At(o)) = id)
      <3> HIDE DEF At, b
      <3>1. At(o) \in S => (IsCompared(d, id, At(o)) /\ KeyEquals(Flush(d).file, At(o), id) <=> Key(Bytes(d), At(o)) = id)
        BY ComparedIs
      <3> QED BY <1>2, <3>1 DEF b
    <2> HIDE DEF At, b, E
    <2> QED BY <2>1, <2>2
  <1>4. E \subseteq Offsets(table) /\ V \subseteq Offsets(table) /\ \A o \in Offsets(table) : o \in V <=> IsVacant(At(o))
    BY DEF ProbeEnds, VacantOffsets
  <1>5. PICK v \in Offsets(table) : v \in V
    <2>1. PICK i \in DOMAIN table : IsVacant(table[i])
      BY HasVacancy
    <2> QED BY <1>1, <2>1, PlaceSurjective DEF VacantOffsets
  <1>6. ProbeEnd(d, id) = First(E) /\ FoundIndex(d, id) = Place(table, hash, First(E)) /\ FoundSlot(d, id) = At(First(E))
    BY DEF ProbeEnd, FoundIndex, FoundSlot
  <1> DEFINE end == First(E)
  <1> HIDE DEF E, V
  <1>7. E # {} /\ end \in E /\ \A o \in E : end <= o
    <2>1. E # {} /\ E \subseteq Nat
      BY <1>1, <1>3, <1>4, <1>5
    <2> QED BY <2>1, FirstIs
  <1>8. end \in Offsets(table) /\ IsEnd(end)
    BY <1>3, <1>4, <1>7
  <1>9. DOMAIN MapIn(d) = {Key(b, u) : u \in S} /\ \A u \in S : MapIn(d)[Key(b, u)] = u.stored
    <2>1. KeysDistinct(S, b)
      BY <1>1 DEF KeysOk, KeysDistinct
    <2>2. Lists(MapOf(S, b), S, b)
      <3> HIDE DEF S, b
      <3> QED BY <2>1, MapOfIs
    <2> QED BY <2>2 DEF MapIn, Lists
  <1> HIDE DEF end, b, S
  <1>10. ASSUME ~IsVacant(At(end))
         PROVE  At(end) \in S /\ Key(b, At(end)) = id /\ Place(table, hash, end) \in Positions(table)
    BY <1>2, <1>8, <1>10
  <1>11. ASSUME IsVacant(At(end)), NEW s \in S, Key(b, s) = id PROVE FALSE
    <2>1. PICK i \in Positions(table) : s = table[i]
      BY <1>11 DEF S, SlotsOf
    <2>2. i \in DOMAIN table /\ s.hash = hash
      BY <2>1, <1>1, <1>11 DEF Positions, KeysOk, InFile
    <2>3. PICK o \in Offsets(table) : Place(table, hash, o) = i
      BY <1>1, <2>2, PlaceSurjective
    <2>4. At(o) = s /\ o \in E
      BY <1>3, <1>11, <2>1, <2>3
    <2>5. end <= o /\ end \in Nat /\ o \in Nat
      BY <1>1, <1>7, <1>8, <2>4
    <2>6. CASE end = o
      BY <2>1, <2>4, <2>6, <1>11 DEF Positions
    <2>7. CASE end < o
      <3>1. Reached(table, hash, o)
        BY <1>1, <2>1, <2>2, <2>3 DEF WellPlaced, Chained
      <3> QED BY <3>1, <2>5, <2>7, <1>11 DEF Reached
    <2> QED BY <2>5, <2>6, <2>7
  <1>12. ASSUME IsVacant(At(end)) PROVE end = First(V)
    <2>1. id \notin {Key(b, u) : u \in S}
      BY <1>11, <1>12
    <2>2. \A o \in Offsets(table) : o \in E <=> o \in V
      BY <1>2, <1>3, <1>4, <2>1
    <2>3. E = V
      BY <1>4, <2>2
    <2> QED BY <2>3 DEF end
  <1>13. IsKnown(d, id) <=> ~IsVacant(At(end))
    BY <1>6 DEF IsKnown, end
  <1>14. ~IsVacant(At(end)) => MapIn(d)[id] = At(end).stored /\ id \in DOMAIN MapIn(d)
    BY <1>9, <1>10
  <1>15. IsVacant(At(end)) => id \notin DOMAIN MapIn(d)
    BY <1>9, <1>11
  <1>16. IsVacant(At(end)) => FoundIndex(d, id) = FindVacantSlot(table, hash)
    BY <1>6, <1>12 DEF FindVacantSlot, V, end
  <1>17. FoundIndex(d, id) = Place(table, hash, end) /\ FoundSlot(d, id) = At(end) /\ ProbeEnd(d, id) = end /\ ProbeEnds(d, id) # {}
    BY <1>6, <1>7 DEF end, E
  <1> HIDE DEF At
  <1> QED BY <1>8, <1>10, <1>13, <1>14, <1>15, <1>16, <1>17 DEF b, S

\* A search leaves the entries as they are: it moves the cursor, and writes what was buffered.
SameButCursor(e, d) ==
  /\ e.table = d.table /\ e.seed = d.seed /\ e.len = d.len /\ e.key_bytes = d.key_bytes
  /\ e.poisoned = d.poisoned /\ Bytes(e) = Bytes(d)

LEMMA CursorMoved ==
  ASSUME NEW d, IsDisk(d), FileOk(d), NEW c \in Nat, c <= Len(Bytes(d))
  PROVE  LET e == [Flush(d) EXCEPT !.cursor = c, !.key_cursor_displaced = TRUE]
         IN IsDisk(e) /\ FileOk(e) /\ SameButCursor(e, d)
  <1> DEFINE f == Flush(d)
             e == [f EXCEPT !.cursor = c, !.key_cursor_displaced = TRUE]
             b == Bytes(d)
             moved == d.cursor + Len(d.buffer)
  <1>1. b \in Seq(Nat) /\ Len(b) = d.key_bytes /\ moved \in Nat /\ <<>> \in Seq(Nat) /\ Len(b) \in Nat
    <2>1. d.cursor \in Nat /\ Len(d.buffer) \in Nat /\ b \in Seq(Nat) /\ Len(b) = d.key_bytes /\ d.key_bytes \in Nat
      BY DiskFields
    <2>2. moved \in Nat
      BY <2>1
    <2> QED BY <2>1, <2>2
  <1>2. f = [d EXCEPT !.file = b, !.cursor = moved, !.buffer = <<>>]
    BY FlushIs
  <1> HIDE DEF f, b, moved
  <1>3. /\ f.file = b /\ f.buffer = <<>> /\ f.table = d.table /\ f.seed = d.seed /\ f.len = d.len
        /\ f.key_bytes = d.key_bytes /\ f.poisoned = d.poisoned
    BY <1>2 DEF IsDisk
  <1>4. IsDisk(f)
    BY <1>1, <1>2 DEF IsDisk
  <1>5. /\ e.file = f.file /\ e.buffer = f.buffer /\ e.table = f.table /\ e.seed = f.seed /\ e.len = f.len
        /\ e.key_bytes = f.key_bytes /\ e.poisoned = f.poisoned /\ e.cursor = c /\ e.key_cursor_displaced = TRUE
    BY <1>4 DEF IsDisk
  <1>6. IsDisk(e)
    BY <1>4 DEF IsDisk
  <1> HIDE DEF e
  <1>7. Len(<<>>) = 0 /\ Len(b) + 0 = Len(b)
    BY <1>1
  <1>8. FileOk(e)
    BY <1>1, <1>3, <1>5, <1>7 DEF FileOk, b
  <1>9. Bytes(e) = b
    BY <1>1, <1>3, <1>5, ConcatEmptySeq DEF Bytes
  <1> QED BY <1>3, <1>5, <1>6, <1>8, <1>9 DEF SameButCursor, e, f, b

LEMMA SearchedIs ==
  ASSUME NEW d, DiskOk(d), NEW id \in Ids
  PROVE  DiskOk(Searched(d, id)) /\ SameButCursor(Searched(d, id), d)
  <1> DEFINE compared == Compared(d, id)
             last == CHOOSE o \in compared : \A other \in compared : other <= o
             slot == SlotAt(d, id, last)
             e == [Flush(d) EXCEPT !.cursor = slot.key_offset + Len(id), !.key_cursor_displaced = TRUE]
  <1>1. CASE compared = {}
    <2>1. Searched(d, id) = d
      BY <1>1 DEF Searched
    <2> QED BY <2>1 DEF SameButCursor
  <1>2. CASE compared # {}
    <2>1. Searched(d, id) = e
      BY <1>2 DEF Searched
    <2>2. last \in compared /\ compared \subseteq Offsets(d.table)
      <3>1. ProbeEnd(d, id) \in Offsets(d.table) /\ Slots(d.table) \in Nat
        BY Lookup, HasVacancy
      <3>2. compared \subseteq 0..ProbeEnd(d, id) /\ ProbeEnd(d, id) \in Nat
        BY <3>1 DEF Compared, Offsets
      <3>3. \E o \in compared : \A other \in compared : other <= o
        <4> DEFINE m == ProbeEnd(d, id)
                   T == {m - o : o \in compared}
        <4>0. m \in Nat /\ compared \subseteq 0..m /\ compared # {}
          BY <3>2, <1>2
        <4> HIDE DEF m, compared
        <4>1. T \subseteq Nat /\ T # {}
          <5>1. \A o \in compared : m - o \in Nat
            BY <4>0
          <5> QED BY <4>0, <5>1
        <4>2. PICK t \in T : \A u \in T : t <= u
          BY <4>1, Least
        <4>3. PICK o \in compared : t = m - o
          OBVIOUS
        <4>4. \A other \in compared : m - o <= m - other
          BY <4>2, <4>3
        <4>5. \A other \in compared : other \in Nat /\ o \in Nat /\ m \in Nat
          BY <3>2 DEF m
        <4>6. \A other \in compared : other <= o
          BY <4>4, <4>5
        <4> QED BY <4>6
      <3>4. last \in compared
        <4> HIDE DEF compared
        <4> QED BY <3>3
      <3>5. compared \subseteq Offsets(d.table)
        BY <3>1, <3>2 DEF Offsets
      <3> QED BY <3>4, <3>5
    <2>3. IsCompared(d, id, slot)
      BY <2>2 DEF Compared
    <2>4. slot \in SlotsOf(d.table) /\ slot \in Slot
      <3> HIDE DEF last, compared
      <3>1. last \in Offsets(d.table) /\ last \in Nat /\ Hash(d.seed, id) \in Nat /\ IsTable(d.table)
        BY <2>2, IdType DEF Offsets, DiskOk, IsDisk, WellPlaced
      <3>2. Place(d.table, Hash(d.seed, id), last) \in DOMAIN d.table
        BY <3>1, PlaceType
      <3>3. slot.encoded_len # 0
        BY <2>3, IdType DEF IsCompared
      <3> QED BY <3>1, <3>2, <3>3 DEF SlotAt, SlotsOf, Positions, IsVacant, IsTable
    <2> HIDE DEF slot, last, compared
    <2>5. slot.key_offset \in Nat /\ Len(id) \in Nat /\ slot.key_offset + Len(id) \in Nat
      BY <2>4, IdType DEF Slot
    <2>6. slot.key_offset + Len(id) <= Len(Bytes(d))
      <3>1. slot.key_offset + slot.encoded_len - 1 <= Len(Bytes(d)) /\ slot.encoded_len = Len(id) + 1
        BY <2>3, <2>4 DEF DiskOk, KeysOk, InFile, IsCompared
      <3> QED BY <3>1, <2>5, DiskFields DEF DiskOk
    <2> DEFINE c == slot.key_offset + Len(id)
      <2>7. IsDisk(d) /\ FileOk(d) /\ c \in Nat /\ c <= Len(Bytes(d))
      BY <2>5, <2>6 DEF DiskOk
    <2> HIDE DEF c
    <2>8. IsDisk(e) /\ FileOk(e) /\ SameButCursor(e, d)
      BY <2>7, CursorMoved DEF c
    <2> HIDE DEF e
    <2> QED BY <2>1, <2>8 DEF DiskOk, SameButCursor
  <1> QED BY <1>1, <1>2

LEMMA SameEntries ==
  ASSUME NEW d, NEW e, SameButCursor(e, d)
  PROVE  MapIn(e) = MapIn(d)
  BY DEF MapIn, SameButCursor

\* Where a table is filled up to its load there is room in one that is twice as long.
LEMMA LoadGrows ==
  ASSUME NEW n \in Nat, NEW N \in Nat \ {0}, ~ExceedsLoad(n, N)
  PROVE  ~ExceedsLoad(n + 1, 2 * N) /\ ~ExceedsLoad(n, 2 * N)
  BY DEF ExceedsLoad

LEMMA GrowIs ==
  ASSUME NEW d, DiskOk(d)
  PROVE  /\ DiskOk(Grow(d)) /\ MapIn(Grow(d)) = MapIn(d)
         /\ ~ExceedsLoad(Grow(d).len + 1, Slots(Grow(d).table))
         /\ Grow(d).seed = d.seed /\ Grow(d).poisoned = d.poisoned /\ Grow(d).len = d.len
  <1> DEFINE e == Grow(d)
             g == Grown(d.table)
  <1>1. IsDisk(d) /\ WellPlaced(d.table)
    BY DEF DiskOk
  <1>2. /\ e.table = g /\ e.seed = d.seed /\ e.file = d.file /\ e.buffer = d.buffer /\ e.cursor = d.cursor
        /\ e.key_cursor_displaced = d.key_cursor_displaced /\ e.key_bytes = d.key_bytes /\ e.len = d.len
        /\ e.poisoned = d.poisoned /\ IsDisk(e)
    BY <1>1 DEF IsDisk, Grow
  <1>3. WellPlaced(g) /\ Slots(g) = 2 * Slots(d.table) /\ SlotsOf(g) = SlotsOf(d.table)
    BY <1>1, GrownIs
  <1>4. ~ExceedsLoad(d.len + 1, Slots(g)) /\ ~ExceedsLoad(d.len, Slots(g))
    BY <1>3, HasVacancy, LoadGrows DEF DiskOk
  <1> HIDE DEF e, g
  <1>5. Bytes(e) = Bytes(d) /\ FileOk(e)
    BY <1>2 DEF Bytes, FileOk, DiskOk
  <1>6. DiskOk(e) /\ MapIn(e) = MapIn(d)
    BY <1>2, <1>3, <1>4, <1>5 DEF DiskOk, MapIn
  <1> QED BY <1>2, <1>4, <1>6 DEF e

\* insert_at appends the key where the keys end, wherever the cursor was left.
LEMMA KeyWrittenIs ==
  ASSUME NEW d, IsDisk(d), FileOk(d), NEW id \in Seq(Nat)
  PROVE  LET k == KeyWritten(d, id) IN
         /\ k.file = d.file /\ k.buffer = d.buffer \o id /\ k.cursor = Len(d.file)
         /\ k.key_cursor_displaced = FALSE /\ k.table = d.table /\ k.seed = d.seed /\ k.len = d.len
         /\ k.key_bytes = d.key_bytes /\ k.poisoned = d.poisoned /\ IsDisk(k)
  <1> DEFINE placed == IF d.key_cursor_displaced
                       THEN [d EXCEPT !.cursor = d.key_bytes, !.key_cursor_displaced = FALSE]
                       ELSE d
             k == [placed EXCEPT !.buffer = @ \o id]
  <1>1. /\ d.file \in Seq(Nat) /\ d.buffer \in Seq(Nat) /\ d.key_bytes \in Nat /\ Len(d.file) \in Nat
        /\ d.key_cursor_displaced \in BOOLEAN
    BY DiskFields DEF IsDisk
  <1>2. /\ placed.file = d.file /\ placed.buffer = d.buffer /\ placed.table = d.table /\ placed.seed = d.seed
        /\ placed.len = d.len /\ placed.key_bytes = d.key_bytes /\ placed.poisoned = d.poisoned
        /\ placed.key_cursor_displaced = FALSE /\ IsDisk(placed)
    BY <1>1 DEF IsDisk
  <1>3. placed.cursor = Len(d.file)
    <2>1. CASE d.key_cursor_displaced
      <3>1. d.key_bytes = Len(d.file) + Len(d.buffer) /\ d.buffer = <<>>
        BY <2>1 DEF FileOk
      <3>2. Len(<<>>) = 0 /\ Len(d.file) + 0 = Len(d.file)
        BY <1>1
      <3>3. placed.cursor = d.key_bytes
        BY <2>1 DEF IsDisk
      <3> QED BY <3>1, <3>2, <3>3
    <2>2. CASE ~d.key_cursor_displaced
      BY <2>2 DEF FileOk
    <2> QED BY <2>1, <2>2
  <1>4. KeyWritten(d, id) = k
    BY DEF KeyWritten
  <1>5. d.buffer \o id \in Seq(Nat)
    BY <1>1, ConcatProperties
  <1> HIDE DEF placed
  <1>6. /\ k.file = placed.file /\ k.buffer = placed.buffer \o id /\ k.cursor = placed.cursor
        /\ k.key_cursor_displaced = placed.key_cursor_displaced /\ k.table = placed.table
        /\ k.seed = placed.seed /\ k.len = placed.len /\ k.key_bytes = placed.key_bytes
        /\ k.poisoned = placed.poisoned
    BY <1>2 DEF IsDisk
  <1>7. IsDisk(k)
    BY <1>2, <1>5 DEF IsDisk
  <1> HIDE DEF k
  <1> QED BY <1>2, <1>3, <1>4, <1>6, <1>7

NewSlot(d, id, value) ==
  [hash |-> Hash(d.seed, id), key_offset |-> d.key_bytes, encoded_len |-> Len(id) + 1, stored |-> value]

LEMMA InsertSlotFields ==
  ASSUME NEW d, IsDisk(d), FileOk(d), NEW id \in Seq(Nat), NEW index, NEW value,
         d.table = [i \in DOMAIN d.table |-> d.table[i]]
  PROVE  LET e == InsertSlot(d, index, id, value) IN
         /\ e.table = [d.table EXCEPT ![index] = NewSlot(d, id, value)]
         /\ e.seed = d.seed /\ e.len = d.len + 1 /\ e.poisoned = d.poisoned
         /\ e.key_bytes = d.key_bytes + Len(id) /\ Bytes(e) = Bytes(d) \o id
         /\ IsDisk(e) /\ FileOk(e)
  <1> DEFINE k == KeyWritten(d, id)
             slot == NewSlot(d, id, value)
             w == [k EXCEPT !.table[index] = slot]
             bytes == w.key_bytes + Len(id)
             count == w.len + 1
             e == [w EXCEPT !.key_bytes = bytes, !.len = count]
  <1>1. /\ k.file = d.file /\ k.buffer = d.buffer \o id /\ k.cursor = Len(d.file)
        /\ k.key_cursor_displaced = FALSE /\ k.table = d.table /\ k.seed = d.seed /\ k.len = d.len
        /\ k.key_bytes = d.key_bytes /\ k.poisoned = d.poisoned /\ IsDisk(k)
    BY KeyWrittenIs
  <1>2. InsertSlot(d, index, id, value) = e
    BY DEF InsertSlot, SlotWritten, NewSlot
  <1> HIDE DEF k, slot
  <1>3. /\ w.table = [d.table EXCEPT ![index] = slot]
        /\ w.file = k.file /\ w.buffer = k.buffer /\ w.cursor = k.cursor
        /\ w.key_cursor_displaced = k.key_cursor_displaced /\ w.seed = k.seed /\ w.len = k.len
        /\ w.key_bytes = k.key_bytes /\ w.poisoned = k.poisoned
    BY <1>1 DEF IsDisk
  <1>4. IsDisk(w)
    BY <1>1 DEF IsDisk
  <1> HIDE DEF w
  <1>5. Len(id) \in Nat /\ d.key_bytes \in Nat /\ d.len \in Nat
    BY DEF IsDisk
  <1>6. /\ e.table = w.table /\ e.file = w.file /\ e.buffer = w.buffer /\ e.cursor = w.cursor
        /\ e.key_cursor_displaced = w.key_cursor_displaced /\ e.seed = w.seed /\ e.len = w.len + 1
        /\ e.key_bytes = w.key_bytes + Len(id) /\ e.poisoned = w.poisoned
    BY <1>4 DEF IsDisk
  <1>7. IsDisk(e)
    <2>1. w.key_bytes \in Nat /\ w.len \in Nat
      BY <1>4 DEF IsDisk
    <2>2. bytes \in Nat /\ count \in Nat
      BY <2>1, <1>5
    <2> HIDE DEF bytes, count
    <2> QED BY <1>4, <2>2 DEF IsDisk
  <1> HIDE DEF e
  <1>8. /\ d.file \in Seq(Nat) /\ d.buffer \in Seq(Nat) /\ Len(d.file) \in Nat /\ Len(d.buffer) \in Nat
        /\ d.key_bytes = Len(d.file) + Len(d.buffer)
    BY DiskFields DEF FileOk
  <1>9. Len(d.buffer \o id) = Len(d.buffer) + Len(id)
    BY <1>8, ConcatProperties
  <1>10. FileOk(e)
    <2>1. /\ e.file = d.file /\ e.buffer = d.buffer \o id /\ e.cursor = Len(d.file)
          /\ e.key_cursor_displaced = FALSE /\ e.key_bytes = d.key_bytes + Len(id)
      BY <1>1, <1>3, <1>6
    <2> DEFINE x == Len(d.file)
               y == Len(d.buffer)
               z == Len(id)
               sum == Len(d.buffer \o id)
    <2>2. x \in Nat /\ y \in Nat /\ z \in Nat /\ d.key_bytes = x + y /\ sum = y + z
          /\ Len(e.file) = x /\ e.cursor = x /\ Len(e.buffer) = sum /\ e.key_bytes = d.key_bytes + z
      BY <2>1, <1>5, <1>8, <1>9, Zenon
    <2> HIDE DEF x, y, z, sum
    <2>3. e.key_bytes = Len(e.file) + Len(e.buffer) /\ e.cursor = Len(e.file) /\ e.cursor <= Len(e.file)
      BY <2>2
    <2> QED BY <2>1, <2>3, Zenon DEF FileOk
  <1>11. Bytes(e) = Bytes(d) \o id
    <2>1. Bytes(e) = d.file \o (d.buffer \o id)
      BY <1>1, <1>3, <1>6 DEF Bytes
    <2>2. \A f, b \in Seq(Nat) : (f \o b) \o id = f \o (b \o id)
      BY ConcatAssociative
    <2>3. (d.file \o d.buffer) \o id = d.file \o (d.buffer \o id)
      BY <1>8, <2>2
    <2> QED BY <2>1, <2>3 DEF Bytes
  <1> QED BY <1>1, <1>2, <1>3, <1>6, <1>7, <1>10, <1>11 DEF slot

\* Filling a slot, the one where the probe for its hash ends, adds an entry.
LEMMA InsertSlotIs ==
  ASSUME NEW d, DiskOk(d), NEW id \in Ids, id \notin DOMAIN MapIn(d), NEW value \in Nat,
         ~ExceedsLoad(d.len + 1, Slots(d.table))
  PROVE  LET e == InsertSlot(d, FindVacantSlot(d.table, Hash(d.seed, id)), id, value) IN
         /\ DiskOk(e) /\ MapIn(e) = With(MapIn(d), id, value)
         /\ e.seed = d.seed /\ e.poisoned = d.poisoned /\ e.len = d.len + 1
  <1> DEFINE index == FindVacantSlot(d.table, Hash(d.seed, id))
             e == InsertSlot(d, index, id, value)
             slot == NewSlot(d, id, value)
             S == SlotsOf(d.table)
             b == Bytes(d)
             more == b \o id
             new == [d.table EXCEPT ![index] = slot]
  <1>1. /\ IsDisk(d) /\ FileOk(d) /\ WellPlaced(d.table) /\ KeysOk(S, b, d.seed) /\ d.seed \in Seeds
        /\ id \in Seq(Nat) /\ Len(id) \in Nat /\ Hash(d.seed, id) \in Nat
    BY IdType DEF DiskOk, IsDisk
  <1>2. d.table = [i \in DOMAIN d.table |-> d.table[i]]
    BY <1>1 DEF WellPlaced, IsTable
  <1>3. /\ e.table = new
        /\ e.seed = d.seed /\ e.len = d.len + 1 /\ e.poisoned = d.poisoned
        /\ e.key_bytes = d.key_bytes + Len(id) /\ Bytes(e) = more
        /\ IsDisk(e) /\ FileOk(e)
    BY <1>1, <1>2, InsertSlotFields
  <1>4. b \in Seq(Nat) /\ Len(b) = d.key_bytes /\ d.key_bytes \in Nat
    BY <1>1, DiskFields
  <1>5. /\ slot \in Slot /\ ~IsVacant(slot) /\ slot.hash = Hash(d.seed, id) /\ slot.key_offset = Len(b)
        /\ slot.encoded_len = Len(id) + 1 /\ slot.stored = value
    BY <1>1, <1>4 DEF NewSlot, Slot, IsVacant
  <1>6. DOMAIN MapIn(d) = {Key(b, u) : u \in S} /\ \A u, other \in S : Key(b, u) = Key(b, other) => u = other
    <2>1. \A u, other \in S : Key(b, u) = Key(b, other) => u = other
      BY <1>1 DEF KeysOk
    <2> HIDE DEF S, b
    <2>2. KeysDistinct(S, b)
      BY <2>1 DEF KeysDistinct
    <2>3. Lists(MapOf(S, b), S, b)
      BY <2>2, MapOfIs
    <2>4. DOMAIN MapOf(S, b) = {Key(b, u) : u \in S}
      BY <2>3 DEF Lists
    <2> QED BY <2>1, <2>4 DEF MapIn, S, b
  <1>7. \A u \in S : u \in Slot /\ ~IsVacant(u) /\ u.key_offset + u.encoded_len - 1 <= Len(b)
    <2> SUFFICES ASSUME NEW u \in S
                 PROVE  u \in Slot /\ ~IsVacant(u) /\ u.key_offset + u.encoded_len - 1 <= Len(b)
      OBVIOUS
    <2>1. PICK i \in DOMAIN d.table : u = d.table[i] /\ ~IsVacant(d.table[i])
      BY DEF SlotsOf, Positions
    <2>2. d.table \in [DOMAIN d.table -> Slot]
      BY <1>1 DEF WellPlaced, IsTable
    <2>3. u \in Slot /\ ~IsVacant(u)
      BY <2>1, <2>2
    <2> HIDE DEF S, b
    <2>4. InFile(b, d.seed, u)
      BY <1>1 DEF KeysOk
    <2> QED BY <2>3, <2>4 DEF InFile
  <1> HIDE DEF e, slot, S, b, more, new, index
  <1>8. slot \notin S
    <2> SUFFICES ASSUME slot \in S PROVE FALSE
      OBVIOUS
    <2>1. slot.key_offset + slot.encoded_len - 1 <= Len(b)
      BY <1>7
    <2>2. Len(id) = 0 /\ slot.encoded_len - 1 = 0
      BY <2>1, <1>1, <1>4, <1>5
    <2>3. id = <<>>
      BY <2>2, <1>1, EmptySeq
    <2>4. Key(b, slot) \in Seq(Nat) /\ Len(Key(b, slot)) = 0
      BY <2>2, <1>1, <1>5, SlotKey DEF b
    <2>5. Key(b, slot) = id
      BY <2>3, <2>4, EmptySeq
    <2> QED BY <2>5, <1>6
  <1>9. /\ WellPlaced(new) /\ Slots(new) = Slots(d.table) /\ SlotsOf(new) = S \cup {slot}
    <2>1. PICK i \in DOMAIN d.table : IsVacant(d.table[i])
      BY HasVacancy
    <2>2. index = FindVacantSlot(d.table, slot.hash)
      BY <1>5 DEF index
    <2>3. slot \notin SlotsOf(d.table)
      BY <1>8 DEF S
    <2> DEFINE t == d.table
    <2>4. WellPlaced(t) /\ i \in DOMAIN t /\ IsVacant(t[i]) /\ slot \notin SlotsOf(t)
      BY <2>1, <2>3, <1>1
    <2> HIDE DEF t
    <2>5. LET v == FindVacantSlot(t, slot.hash)
              u == [t EXCEPT ![v] = slot]
          IN WellPlaced(u) /\ Slots(u) = Slots(t) /\ SlotsOf(u) = SlotsOf(t) \cup {slot}
      BY <2>4, <1>5, Put
    <2> QED BY <2>2, <2>5 DEF t, new, S
  <1>10. \A u \in S : Key(more, u) = Key(b, u)
    BY <1>1, <1>4, <1>7, KeyAppended DEF more
  <1>11. Key(more, slot) = id
    BY <1>1, <1>4, <1>5, KeyWrittenLast DEF more
  <1>12. id \notin DOMAIN MapOf(S, b)
    BY DEF MapIn, S, b
  <1>13. /\ MapOf(S \cup {slot}, more) = With(MapOf(S, b), id, slot.stored)
         /\ \A u, other \in S \cup {slot} : Key(more, u) = Key(more, other) => u = other
    BY <1>6, <1>10, <1>11, <1>12, MapOfAdd
  <1>14. more \in Seq(Nat) /\ Len(more) = Len(b) + Len(id)
    BY <1>1, <1>4, ConcatProperties DEF more
  <1>15. ASSUME NEW u \in S \cup {slot} PROVE InFile(more, d.seed, u)
    <2>1. CASE u \in S
      <3>1. InFile(b, d.seed, u) /\ Key(more, u) = Key(b, u)
        BY <2>1, <1>1, <1>10 DEF KeysOk
      <3>2. u.key_offset + u.encoded_len - 1 <= Len(more)
        <4>1. u.key_offset \in Nat /\ u.encoded_len \in Nat /\ u.key_offset + u.encoded_len - 1 <= Len(b)
          BY <2>1, <1>7 DEF Slot
        <4> QED BY <4>1, <1>1, <1>4, <1>14
      <3> QED BY <3>1, <3>2 DEF InFile
    <2>2. CASE u = slot
      <3>1. slot.key_offset + slot.encoded_len - 1 <= Len(more)
        BY <1>1, <1>4, <1>5, <1>14
      <3> QED BY <2>2, <3>1, <1>5, <1>11 DEF InFile
    <2> QED BY <2>1, <2>2
  <1>16. KeysOk(S \cup {slot}, more, d.seed)
    BY <1>13, <1>15 DEF KeysOk
  <1>17. d.len + 1 = Cardinality(S \cup {slot})
    <2>1. IsFiniteSet(S) /\ d.len = Cardinality(S)
      BY HasVacancy DEF S
    <2> QED BY <2>1, <1>8, FS_AddElement
  <1>18. DiskOk(e)
    BY <1>3, <1>9, <1>16, <1>17 DEF DiskOk
  <1>19. MapIn(e) = With(MapIn(d), id, value)
    BY <1>3, <1>5, <1>9, <1>13 DEF MapIn, S, b
  <1> QED BY <1>3, <1>18, <1>19 DEF e, index

LEMMA InsertKnownAbsentIs ==
  ASSUME NEW d, DiskOk(d), NEW id \in Ids, id \notin DOMAIN MapIn(d), NEW value \in Nat
  PROVE  LET e == InsertKnownAbsent(d, id, value) IN
         /\ DiskOk(e) /\ MapIn(e) = With(MapIn(d), id, value)
         /\ e.seed = d.seed /\ e.poisoned = d.poisoned /\ e.len = d.len + 1
  <1> DEFINE sized == IF ExceedsLoad(d.len + 1, Slots(d.table)) THEN Grow(d) ELSE d
  <1>1. /\ DiskOk(sized) /\ MapIn(sized) = MapIn(d) /\ ~ExceedsLoad(sized.len + 1, Slots(sized.table))
        /\ sized.seed = d.seed /\ sized.poisoned = d.poisoned /\ sized.len = d.len
    BY GrowIs
  <1>2. InsertKnownAbsent(d, id, value) = InsertSlot(sized, FindVacantSlot(sized.table, Hash(sized.seed, id)), id, value)
    <2>1. InsertKnownAbsent(d, id, value) = InsertSlot(sized, FindVacantSlot(sized.table, Hash(d.seed, id)), id, value)
      BY DEF InsertKnownAbsent
    <2> HIDE DEF sized
    <2> QED BY <1>1, <2>1
  <1> HIDE DEF sized
  <1>3. id \notin DOMAIN MapIn(sized)
    BY <1>1
  <1> DEFINE e == InsertSlot(sized, FindVacantSlot(sized.table, Hash(sized.seed, id)), id, value)
  <1>4. /\ DiskOk(e) /\ MapIn(e) = With(MapIn(sized), id, value)
        /\ e.seed = sized.seed /\ e.poisoned = sized.poisoned /\ e.len = sized.len + 1
    BY <1>1, <1>3, InsertSlotIs
  <1> HIDE DEF e
  <1> QED BY <1>1, <1>2, <1>4 DEF e

\* get_or_insert on the disk table adds the entry that a search has not found.
LEMMA InsertedIs ==
  ASSUME NEW d, DiskOk(d), NEW id \in Ids, ~IsKnown(d, id), NEW value \in Nat
  PROVE  LET e == Inserted(d, id, value) IN
         /\ DiskOk(e) /\ MapIn(e) = With(MapIn(d), id, value) /\ id \notin DOMAIN MapIn(d)
         /\ e.seed = d.seed /\ e.poisoned = d.poisoned /\ e.len = d.len + 1
  <1> DEFINE f == Searched(d, id)
             room == MadeRoom(d, id)
             index == NewIndex(d, id)
             v == FindVacantSlot(room.table, Hash(room.seed, id))
             e == InsertSlot(room, v, id, value)
  <1>1. id \notin DOMAIN MapIn(d) /\ FoundIndex(d, id) = FindVacantSlot(d.table, Hash(d.seed, id))
    BY Lookup
  <1>2. DiskOk(f) /\ MapIn(f) = MapIn(d) /\ SameButCursor(f, d)
    BY SearchedIs, SameEntries
  <1>3. /\ DiskOk(room) /\ MapIn(room) = MapIn(d) /\ ~ExceedsLoad(room.len + 1, Slots(room.table))
        /\ room.seed = d.seed /\ room.poisoned = d.poisoned /\ room.len = d.len /\ index = v
    <2>1. CASE ExceedsLoad(d.len + 1, Slots(d.table))
      <3>1. room = Grow(f)
        BY <2>1 DEF MadeRoom
      <3>2. index = FindVacantSlot(room.table, Hash(d.seed, id))
        BY <2>1 DEF NewIndex
      <3> HIDE DEF room, index, f
      <3>3. /\ DiskOk(Grow(f)) /\ MapIn(Grow(f)) = MapIn(f)
            /\ ~ExceedsLoad(Grow(f).len + 1, Slots(Grow(f).table))
            /\ Grow(f).seed = f.seed /\ Grow(f).poisoned = f.poisoned /\ Grow(f).len = f.len
        BY <1>2, GrowIs
      <3> QED BY <1>2, <3>1, <3>2, <3>3 DEF SameButCursor
    <2>2. CASE ~ExceedsLoad(d.len + 1, Slots(d.table))
      <3>1. room = f
        BY <2>2 DEF MadeRoom
      <3>2. index = FindVacantSlot(d.table, Hash(d.seed, id))
        BY <2>2, <1>1 DEF NewIndex
      <3> HIDE DEF room, index, f
      <3> QED BY <1>2, <2>2, <3>1, <3>2 DEF SameButCursor
    <2> QED BY <2>1, <2>2
  <1>4. Inserted(d, id, value) = InsertSlot(room, index, id, value)
    BY DEF Inserted
  <1> HIDE DEF room, index
  <1>5. /\ DiskOk(e) /\ MapIn(e) = With(MapIn(room), id, value)
        /\ e.seed = room.seed /\ e.poisoned = room.poisoned /\ e.len = room.len + 1
    <2>1. id \notin DOMAIN MapIn(room)
      BY <1>1, <1>3
    <2> QED BY <1>3, <2>1, InsertSlotIs
  <1> HIDE DEF e
  <1>6. Inserted(d, id, value) = e
    BY <1>3, <1>4 DEF e
  <1> QED BY <1>1, <1>3, <1>5, <1>6

\* next_suffix on the disk table changes the one counter.
LEMMA IncrementedIs ==
  ASSUME NEW d, DiskOk(d), NEW id \in Ids, IsKnown(d, id)
  PROVE  LET e == Incremented(d, id) IN
         /\ DiskOk(e) /\ MapIn(e) = [MapIn(d) EXCEPT ![id] = @ + 1]
         /\ e.seed = d.seed /\ e.poisoned = d.poisoned /\ e.len = d.len
  <1> DEFINE f == Searched(d, id)
             index == FoundIndex(d, id)
             old == FoundSlot(d, id)
             slot == [old EXCEPT !.stored = @ + 1]
             e == Incremented(d, id)
             new == [d.table EXCEPT ![index] = slot]
             S == SlotsOf(d.table)
             b == Bytes(d)
             T == (S \ {old}) \cup {slot}
  <1>1. DiskOk(f) /\ SameButCursor(f, d) /\ IsDisk(f) /\ FileOk(f)
    BY SearchedIs DEF DiskOk
  <1>2. index \in Positions(d.table) /\ old \in S /\ Key(b, old) = id /\ old.stored = MapIn(d)[id]
        /\ old = d.table[index]
    BY Lookup DEF FoundSlot
  <1>3. WellPlaced(d.table) /\ KeysOk(S, b, d.seed) /\ IsTable(d.table) /\ index \in DOMAIN d.table
    BY <1>2 DEF DiskOk, WellPlaced, Positions
  <1>4. old \in Slot /\ ~IsVacant(old)
    BY <1>2, <1>3 DEF SlotsOf, IsTable, Positions
  <1>5. /\ slot \in Slot /\ ~IsVacant(slot) /\ slot.hash = old.hash /\ slot.key_offset = old.key_offset
        /\ slot.encoded_len = old.encoded_len /\ slot.stored = old.stored + 1
    BY <1>4 DEF Slot, IsVacant
  <1>6. e = [f EXCEPT !.table = [f.table EXCEPT ![index] = [f.table[index] EXCEPT !.stored = @ + 1]]]
    BY DEF Incremented
  <1>7. f.table = d.table
    BY <1>1 DEF SameButCursor
  <1>8. e = [f EXCEPT !.table = new]
    <2> HIDE DEF e, f, index
    <2> QED BY <1>2, <1>6, <1>7
  <1> HIDE DEF f, e, slot, old, S, b, new, index, T
  <1>9. /\ e.table = new /\ e.seed = f.seed /\ e.len = f.len /\ e.key_bytes = f.key_bytes
        /\ e.poisoned = f.poisoned /\ e.file = f.file /\ e.buffer = f.buffer /\ e.cursor = f.cursor
        /\ e.key_cursor_displaced = f.key_cursor_displaced
    BY <1>1, <1>8 DEF IsDisk
  <1>10. IsDisk(e)
    BY <1>1, <1>8 DEF IsDisk
  <1>11. FileOk(e) /\ Bytes(e) = b
    BY <1>1, <1>9 DEF FileOk, Bytes, SameButCursor, b
  <1>12. Key(b, slot) = Key(b, old)
    BY <1>5 DEF Key
  <1>13. \A u, other \in S : Key(b, u) = Key(b, other) => u = other
    BY <1>3 DEF KeysOk
  <1>14. slot \notin S \ {old}
    BY <1>2, <1>12, <1>13
  <1>15. WellPlaced(new) /\ Slots(new) = Slots(d.table) /\ SlotsOf(new) = T
    <2> DEFINE t == d.table
    <2>1. /\ WellPlaced(t) /\ index \in Positions(t) /\ slot.hash = t[index].hash
          /\ slot \notin SlotsOf(t) \ {t[index]} /\ old = t[index] /\ S = SlotsOf(t)
      BY <1>2, <1>3, <1>5, <1>14 DEF S
    <2> HIDE DEF t
    <2>2. new = [t EXCEPT ![index] = slot]
      BY DEF t, new
    <2>3. slot \in Slot /\ ~IsVacant(slot)
      BY <1>5
    <2>4. WellPlaced(t) /\ index \in Positions(t) /\ slot.hash = t[index].hash /\ slot \notin SlotsOf(t) \ {t[index]}
      BY <2>1
    <2>5. IsRewritten(new, t, t[index], slot)
      BY <2>2, <2>3, <2>4, Rewritten
    <2> QED BY <2>1, <2>5 DEF t, T, IsRewritten
  <1>16. MapOf(T, b) = [MapOf(S, b) EXCEPT ![Key(b, old)] = slot.stored]
         /\ \A u, other \in T : Key(b, u) = Key(b, other) => u = other
    <2>1. old \in S
      BY <1>2
    <2>2. T = (S \ {old}) \cup {slot}
      BY DEF T
    <2> QED BY <2>1, <2>2, <1>12, <1>13, MapOfChange
  <1>17. MapIn(e) = [MapIn(d) EXCEPT ![id] = @ + 1]
    BY <1>2, <1>5, <1>9, <1>11, <1>15, <1>16 DEF MapIn, S, b
  <1>18. \A u \in T : InFile(b, d.seed, u)
    BY <1>2, <1>3, <1>5, <1>12 DEF T, KeysOk, InFile
  <1>19. Cardinality(T) = d.len
    <2>1. IsFiniteSet(S) /\ d.len = Cardinality(S) /\ d.len \in Nat
      BY HasVacancy DEF S
    <2>2. IsFiniteSet(S \ {old}) /\ Cardinality(S \ {old}) = d.len - 1
      BY <1>2, <2>1, FS_RemoveElement
    <2>3. Cardinality(T) = (d.len - 1) + 1
      BY <1>14, <2>2, FS_AddElement DEF T
    <2> QED BY <2>1, <2>3
  <1>20. DiskOk(e)
    <2>1. ~ExceedsLoad(d.len, Slots(d.table))
      BY DEF DiskOk
    <2> QED BY <1>1, <1>9, <1>10, <1>11, <1>15, <1>16, <1>18, <1>19, <2>1
            DEF DiskOk, KeysOk, SameButCursor, b
  <1> QED BY <1>1, <1>9, <1>17, <1>20 DEF SameButCursor, e

-----------------------------------------------------------------------------
(***************************************************************************)
(* A new table, and the spill of the resident entries into it.             *)
(***************************************************************************)
LEMMA TableSlotsType ==
  ASSUME NEW expected \in Nat
  PROVE  TableSlotsFor(expected) \in Nat \ {0}
  <1> DEFINE planned == IF expected >= HeadroomThreshold THEN expected * HeadroomFactor ELSE expected
             sizes == {MinDiskSlots * 2^k : k \in 0..planned}
             Fits(n) == ~ExceedsLoad(planned, n) /\ \A m \in sizes : m < n => ExceedsLoad(planned, m)
             T == {n \in sizes : ~ExceedsLoad(planned, n)}
  <1>1. planned \in Nat
    BY LimitsAssumption
  <1>2. MinDiskSlots \in Nat \ {0}
    BY SlotsAssumption, PowerOfTwo
  <1> HIDE DEF planned
  <1>3. \A k \in 0..planned : MinDiskSlots * 2^k \in Nat \ {0}
    <2> TAKE k \in 0..planned
    <2> DEFINE x == 2^k
    <2>1. k \in Nat
      BY <1>1
    <2>2. x \in Nat \ {0}
      BY <2>1, PowerOfTwo
    <2> HIDE DEF x
    <2>3. MinDiskSlots * x \in Nat \ {0}
      BY <1>2, <2>2, SMT
    <2> QED BY <2>3 DEF x
  <1>4. sizes \subseteq Nat \ {0}
    BY <1>3
  <1>5. T # {}
    <2> DEFINE x == 2^planned
               n == MinDiskSlots * x
    <2>1. x \in Nat \ {0} /\ x >= 2 * planned
      BY <1>1, PowerOfTwo
    <2>2. n \in sizes
      BY <1>1
    <2> HIDE DEF x
    <2>3. n \in Nat /\ n >= x
      BY <1>2, <2>1, SMT
    <2> HIDE DEF n
    <2>4. n >= 2 * planned
      BY <1>1, <2>1, <2>3
    <2>5. ~ExceedsLoad(planned, n)
      BY <1>1, <2>3, <2>4 DEF ExceedsLoad
    <2> QED BY <2>2, <2>5
  <1>6. PICK n \in T : \A m \in T : n <= m
    <2>1. T \subseteq Nat
      BY <1>4
    <2> HIDE DEF T
    <2> QED BY <1>5, <2>1, Least
  <1>7. n \in sizes /\ Fits(n)
    <2>1. \A m \in sizes : m < n => m \notin T
      <3>1. \A m \in sizes : m \in Nat /\ n \in Nat
        BY <1>4
      <3> QED BY <1>6, <3>1
    <2> QED BY <1>6, <2>1
  <1>8. TableSlotsFor(expected) = CHOOSE k \in sizes : Fits(k)
    BY DEF TableSlotsFor, planned
  <1> HIDE DEF sizes, Fits
  <1>9. TableSlotsFor(expected) \in sizes
    BY <1>7, <1>8
  <1> QED BY <1>4, <1>9

LEMMA NewDiskIs ==
  ASSUME NEW expected \in Nat, NEW seed \in Seeds
  PROVE  LET d == NewDisk(expected, seed) IN
         DiskOk(d) /\ MapIn(d) = Nothing /\ d.seed = seed /\ d.poisoned = FALSE
  <1> DEFINE d == NewDisk(expected, seed)
             n == TableSlotsFor(expected)
             table == EmptyTable(n)
  <1>1. n \in Nat \ {0}
    BY TableSlotsType
  <1>2. WellPlaced(table) /\ Slots(table) = n /\ SlotsOf(table) = {}
    BY <1>1, EmptyIsWellPlaced
  <1>3. /\ d.table = table /\ d.seed = seed /\ d.file = <<>> /\ d.buffer = <<>> /\ d.cursor = 0
        /\ d.key_cursor_displaced = FALSE /\ d.key_bytes = 0 /\ d.len = 0 /\ d.poisoned = FALSE
    BY DEF NewDisk
  <1>4. IsDisk(d)
    BY DEF NewDisk, IsDisk
  <1> HIDE DEF d, n, table
  <1>5. FileOk(d)
    <2>1. Len(<<>>) = 0
      OBVIOUS
    <2> QED BY <1>3, <2>1 DEF FileOk
  <1>6. KeysOk({}, Bytes(d), seed)
    BY DEF KeysOk
  <1>7. ~ExceedsLoad(0, n)
    BY <1>1 DEF ExceedsLoad
  <1>8. DiskOk(d)
    BY <1>2, <1>3, <1>4, <1>5, <1>6, <1>7, FS_EmptySet DEF DiskOk
  <1>9. MapIn(d) = Nothing
    <2>1. MapOf({}, Bytes(d)) = Nothing
      BY DEF MapOf, Nothing
    <2> QED BY <1>2, <1>3, <2>1 DEF MapIn
  <1> QED BY <1>3, <1>8, <1>9 DEF d

\* One entry more in the new table
Taken(d, key) == InsertKnownAbsent(d, key, entries[key])

IsMove(g, M, base, order) ==
  g = [S \in SUBSET (1..M) |->
         IF S = {} THEN base ELSE Taken(g[S \ {Max(S)}], order[Max(S)])]

LEMMA MoveStep ==
  ASSUME NEW base, NEW order, NEW M \in Nat, NEW g, IsMove(g, M, base, order)
  PROVE  \E k : IsMove(k, M + 1, base, order)
  <1> DEFINE k == [S \in SUBSET (1..M + 1) |->
                     IF M + 1 \in S THEN Taken(g[S \ {M + 1}], order[M + 1]) ELSE g[S]]
             e == [S \in SUBSET (1..M + 1) |->
                     IF S = {} THEN base ELSE Taken(k[S \ {Max(S)}], order[Max(S)])]
  <1>1. ASSUME NEW S \in SUBSET (1..M + 1) PROVE k[S] = e[S]
    <2>1. CASE M + 1 \in S
      <3>1. Max(S) = M + 1 /\ S # {}
        BY <2>1, MaxIs
      <3>2. S \ {M + 1} \in SUBSET (1..M) /\ S \ {M + 1} \in SUBSET (1..M + 1)
        OBVIOUS
      <3>3. k[S \ {M + 1}] = g[S \ {M + 1}]
        BY <3>2
      <3>4. k[S] = Taken(g[S \ {M + 1}], order[M + 1])
        BY <2>1
      <3>5. e[S] = Taken(k[S \ {Max(S)}], order[Max(S)])
        BY <3>1
      <3> HIDE DEF k, e
      <3> QED BY <3>1, <3>3, <3>4, <3>5
    <2>2. CASE M + 1 \notin S
      <3>1. S \in SUBSET (1..M)
        BY <2>2
      <3>2. k[S] = g[S]
        BY <2>2
      <3>3. g[S] = IF S = {} THEN base ELSE Taken(g[S \ {Max(S)}], order[Max(S)])
        BY <3>1 DEF IsMove
      <3>4. S \ {Max(S)} \in SUBSET (1..M + 1) /\ M + 1 \notin S \ {Max(S)}
        BY <2>2
      <3>5. k[S \ {Max(S)}] = g[S \ {Max(S)}]
        BY <3>4
      <3>6. e[S] = IF S = {} THEN base ELSE Taken(k[S \ {Max(S)}], order[Max(S)])
        OBVIOUS
      <3> HIDE DEF k, e
      <3> QED BY <3>2, <3>3, <3>5, <3>6
    <2> QED BY <2>1, <2>2
  <1>2. k = e
    <2>1. k = [S \in SUBSET (1..M + 1) |-> k[S]] /\ e = [S \in SUBSET (1..M + 1) |-> e[S]]
      OBVIOUS
    <2> HIDE DEF k, e
    <2> QED BY <1>1, <2>1
  <1> QED BY <1>2 DEF IsMove

LEMMA MoveExists ==
  ASSUME NEW base, NEW order, NEW N \in Nat
  PROVE  \E g : IsMove(g, N, base, order)
  <1> DEFINE S == {M \in Nat : \E g : IsMove(g, M, base, order)}
  <1>1. 0 \in S
    <2> DEFINE g == [T \in SUBSET (1..0) |-> base]
    <2>1. \A T \in SUBSET (1..0) : T = {}
      OBVIOUS
    <2>2. IsMove(g, 0, base, order)
      BY <2>1, Zenon DEF IsMove
    <2> QED BY <2>2
  <1>2. \A M \in 0..N - 1 : M \in S => M + 1 \in S
    BY MoveStep
  <1> HIDE DEF S
  <1>3. 0..N \subseteq S
    BY <1>1, <1>2, UpTo
  <1> QED BY <1>3 DEF S

\* The new table, one entry after the other
AreMoves(h, N, seed, order) ==
  /\ h[0] = NewDisk(Cardinality(DOMAIN entries) + 1, seed)
  /\ \A n \in 0..N - 1 : h[n + 1] = Taken(h[n], order[n + 1])
  /\ Moved(seed, order) = h[N]

LEMMA MovedSteps ==
  ASSUME NEW seed, NEW N \in Nat, NEW order, DOMAIN order = 1..N
  PROVE  \E h : AreMoves(h, N, seed, order)
  <1> DEFINE base == NewDisk(Cardinality(DOMAIN entries) + 1, seed)
             Folds(g) == g = [S \in SUBSET DOMAIN order |->
                                IF S = {} THEN base ELSE Taken(g[S \ {Max(S)}], order[Max(S)])]
             g == CHOOSE g : Folds(g)
  <1>1. Moved(seed, order) = g[DOMAIN order]
    BY DEF Moved, FoldLeft, MapThenFoldSet, Taken
  <1>2. ASSUME NEW f PROVE Folds(f) <=> IsMove(f, N, base, order)
    BY DEF IsMove
  <1> HIDE DEF base
  <1>3. Folds(g)
    <2>1. \E f : Folds(f)
      <3> HIDE DEF Folds
      <3> QED BY <1>2, MoveExists
    <2> HIDE DEF Folds
    <2> QED BY <2>1, Zenon
  <1>4. IsMove(g, N, base, order)
    <2> HIDE DEF Folds, g
    <2> QED BY <1>2, <1>3
  <1> HIDE DEF g
  <1> DEFINE h == [n \in 0..N |-> g[1..n]]
  <1>5. h[0] = base
    <2>1. 1..0 = {} /\ {} \in SUBSET (1..N)
      OBVIOUS
    <2> QED BY <1>4, <2>1 DEF IsMove
  <1>6. ASSUME NEW n \in 0..N - 1 PROVE h[n + 1] = Taken(h[n], order[n + 1])
    <2>1. 1..n + 1 \in SUBSET (1..N) /\ 1..n + 1 # {} /\ n + 1 \in 1..n + 1
      OBVIOUS
    <2>2. Max(1..n + 1) = n + 1
      BY <2>1, MaxIs
    <2>3. (1..n + 1) \ {n + 1} = 1..n
      OBVIOUS
    <2>4. g[1..n + 1] = Taken(g[(1..n + 1) \ {Max(1..n + 1)}], order[Max(1..n + 1)])
      BY <1>4, <2>1 DEF IsMove
    <2>5. h[n + 1] = g[1..n + 1] /\ h[n] = g[1..n]
      OBVIOUS
    <2> HIDE DEF h
    <2> QED BY <2>2, <2>3, <2>4, <2>5
  <1>7. Moved(seed, order) = h[N]
    BY <1>1
  <1> HIDE DEF h
  <1>8. AreMoves(h, N, seed, order)
    BY <1>5, <1>6, <1>7 DEF base, AreMoves
  <1> QED BY <1>8

\* A spill moves the entries, in whatever order it takes them.
LEMMA MovedIs ==
  ASSUME NEW seed \in Seeds, NEW order \in SetToSeqs(DOMAIN entries),
         IsFiniteSet(DOMAIN entries), DOMAIN entries \subseteq Ids,
         entries \in [DOMAIN entries -> Nat]
  PROVE  LET d == Moved(seed, order) IN
         DiskOk(d) /\ MapIn(d) = entries /\ d.seed = seed /\ d.poisoned = FALSE
  <1> DEFINE D == DOMAIN entries
             N == Cardinality(D)
  <1>1. N \in Nat
    BY FS_CardinalityType
  <1>2. order \in [1..N -> D] /\ \A i, j \in 1..N : i # j => order[i] # order[j]
    BY DEF SetToSeqs
  <1>3. \A id \in D : \E i \in 1..N : order[i] = id
    <2> DEFINE I == 1..N
    <2>1. IsFiniteSet(I) /\ Cardinality(I) = N
      BY <1>1, FS_Interval
    <2> HIDE DEF I, N, D
    <2>2. order \in Injection(I, D)
      BY <1>2 DEF Injection, IsInjective, I
    <2>3. order \in Surjection(I, D)
      BY <2>1, <2>2, FS_Injection DEF N, D
    <2> QED BY <2>3 DEF Surjection, I
  <1>4. PICK h : /\ h[0] = NewDisk(N + 1, seed)
                 /\ \A n \in 0..N - 1 : h[n + 1] = Taken(h[n], order[n + 1])
                 /\ Moved(seed, order) = h[N]
    <2>1. DOMAIN order = 1..N
      BY <1>2
    <2>2. PICK h : AreMoves(h, N, seed, order)
      <3> HIDE DEF N
      <3> QED BY <1>1, <2>1, MovedSteps
    <2>3. /\ h[0] = NewDisk(N + 1, seed)
          /\ \A n \in 0..N - 1 : h[n + 1] = Taken(h[n], order[n + 1])
          /\ Moved(seed, order) = h[N]
      BY <2>2 DEF AreMoves
    <2> HIDE DEF N
    <2> QED BY <2>3
  <1> DEFINE Of(n) == [id \in {order[i] : i \in 1..n} |-> entries[id]]
             Ok(n) == /\ DiskOk(h[n]) /\ MapIn(h[n]) = Of(n)
                      /\ h[n].seed = seed /\ h[n].poisoned = FALSE
             S == {n \in 0..N : Ok(n)}
  <1> HIDE DEF N
  <1>5. 0 \in S
    <2>1. Of(0) = Nothing
      <3>1. {order[i] : i \in 1..0} = {}
        OBVIOUS
      <3> QED BY <3>1 DEF Nothing
    <2>2. N + 1 \in Nat
      BY <1>1
    <2> HIDE DEF Of
    <2> DEFINE d == NewDisk(N + 1, seed)
    <2>3. DiskOk(d) /\ MapIn(d) = Nothing /\ d.seed = seed /\ d.poisoned = FALSE
      BY <2>2, NewDiskIs
    <2>4. h[0] = d
      BY <1>4
    <2> HIDE DEF d
    <2>5. Ok(0)
      BY <2>1, <2>3, <2>4
    <2> QED BY <1>1, <2>5
  <1>6. ASSUME NEW n \in 0..N - 1, Ok(n) PROVE Ok(n + 1)
    <2> DEFINE id == order[n + 1]
               d == h[n]
    <2>1. n + 1 \in 1..N /\ n \in Nat /\ 1..n \subseteq 1..N /\ n + 1 \notin 1..n /\ 1..n + 1 = (1..n) \cup {n + 1}
      BY <1>1
    <2>2. id \in D /\ id \in Ids /\ entries[id] \in Nat
      BY <1>2, <2>1
    <2>3. DOMAIN Of(n) = {order[i] : i \in 1..n} /\ id \notin DOMAIN Of(n)
      BY <1>2, <2>1
    <2>4. Of(n + 1) = With(Of(n), id, entries[id])
      <3> DEFINE f == Of(n + 1)
                 g == Of(n)
      <3>1. f = [x \in DOMAIN f |-> f[x]] /\ DOMAIN f = DOMAIN g \cup {id}
        BY <2>1
      <3>2. f[id] = entries[id] /\ \A x \in DOMAIN g : f[x] = g[x]
        BY <2>1
      <3> HIDE DEF f, g
      <3>3. f = With(g, id, entries[id])
        BY <3>1, <3>2, WithIs
      <3> QED BY <3>3 DEF f, g
    <2> HIDE DEF Of
    <2>5. h[n + 1] = InsertKnownAbsent(d, id, entries[id])
      BY <1>4 DEF Taken
    <2>6. DiskOk(d) /\ MapIn(d) = Of(n) /\ d.seed = seed /\ d.poisoned = FALSE /\ id \notin DOMAIN MapIn(d)
      BY <1>6, <2>3
    <2> HIDE DEF d, id
    <2> DEFINE v == entries[id]
               e == InsertKnownAbsent(d, id, v)
    <2>7. v \in Nat
      BY <2>2
    <2> HIDE DEF v
    <2>8. DiskOk(e) /\ MapIn(e) = With(MapIn(d), id, v) /\ e.seed = d.seed /\ e.poisoned = d.poisoned
      BY <2>2, <2>6, <2>7, InsertKnownAbsentIs
    <2> HIDE DEF e
    <2>9. h[n + 1] = e
      BY <2>5 DEF e, v
    <2> QED BY <2>4, <2>6, <2>8, <2>9 DEF v
  <1>7. \A n \in 0..N - 1 : n \in S => n + 1 \in S
    <2> HIDE DEF Ok
    <2> QED BY <1>1, <1>6
  <1>8. Ok(N)
    <2> HIDE DEF Ok
    <2>1. S \subseteq 0..N /\ \A n \in S : Ok(n)
      OBVIOUS
    <2> HIDE DEF S
    <2>2. 0..N \subseteq S
      BY <1>1, <1>5, <1>7, UpTo
    <2> QED BY <1>1, <2>1, <2>2
  <1>9. Of(N) = entries
    <2>1. ASSUME NEW id PROVE id \in {order[i] : i \in 1..N} <=> id \in D
      BY <1>2, <1>3
    <2>2. {order[i] : i \in 1..N} = D
      BY <2>1
    <2> QED BY <2>2
  <1> QED BY <1>4, <1>8, <1>9

-----------------------------------------------------------------------------
(***************************************************************************)
(* The inductive invariant of the registry, and what it holds by it.       *)
(***************************************************************************)
Counters(m) == IsFiniteSet(DOMAIN m) /\ DOMAIN m \subseteq Ids /\ m \in [DOMAIN m -> 0..MaxSuffix]

RegistryOk(resident, key_bytes, d, failed) ==
  /\ Counters(resident) /\ Cardinality(DOMAIN resident) <= MaxResidentEntries
  /\ key_bytes \in 0..MaxResidentKeyBytes
  /\ failed \in BOOLEAN /\ (failed => d = Absent)
  /\ d # Absent => /\ resident = Nothing /\ IsDisk(d)
                   /\ ~d.poisoned => DiskOk(d) /\ Counters(MapIn(d))

\* What the registry holds, by its parts
Held(resident, d, failed) ==
  IF failed \/ (d # Absent /\ d.poisoned) THEN Nothing ELSE IF d = Absent THEN resident ELSE MapIn(d)

RegistryInv == RegistryOk(entries, resident_key_bytes, disk, poisoned)

\* None is not a table on disk.
AbsentIsNoDisk == \A d : IsDisk(d) => d # Absent

LEMMA ContentsOfDisk ==
  ASSUME NEW d, DiskOk(d)
  PROVE  LET keyOf(slot) == ReadAt(Flush(d).file, slot.key_offset, slot.encoded_len - 1)
             occupied == {slot \in {d.table[i] : i \in DOMAIN d.table} : ~IsVacant(slot)}
         IN /\ [id \in {keyOf(slot) : slot \in occupied} |->
                  (CHOOSE slot \in occupied : keyOf(slot) = id).stored] = MapIn(d)
            /\ occupied = SlotsOf(d.table)
            /\ \A slot : keyOf(slot) = Key(Bytes(d), slot)
  <1>1. Flush(d).file = Bytes(d)
    BY FlushIs DEF DiskOk
  <1>2. {slot \in {d.table[i] : i \in DOMAIN d.table} : ~IsVacant(slot)} = SlotsOf(d.table)
    BY DEF SlotsOf, Positions
  <1> DEFINE occupied == {slot \in {d.table[i] : i \in DOMAIN d.table} : ~IsVacant(slot)}
             Image(f, S) == [id \in {ReadAt(f, slot.key_offset, slot.encoded_len - 1) : slot \in S} |->
                               (CHOOSE slot \in S :
                                  ReadAt(f, slot.key_offset, slot.encoded_len - 1) = id).stored]
  <1>3. MapIn(d) = Image(Bytes(d), SlotsOf(d.table))
    BY DEF MapIn, MapOf, Key
  <1>4. Image(Flush(d).file, occupied) = MapIn(d)
    <2> HIDE DEF Image
    <2> QED BY <1>1, <1>2, <1>3
  <1>5. \A slot : ReadAt(Flush(d).file, slot.key_offset, slot.encoded_len - 1) = Key(Bytes(d), slot)
    BY <1>1 DEF Key
  <1> QED BY <1>2, <1>4, <1>5, Zenon

LEMMA ContentsIs ==
  /\ RegistryInv => Contents = Held(entries, disk, poisoned)
  /\ RegistryInv' => Contents' = Held(entries', disk', poisoned')
  <1>1. RegistryInv => Contents = Held(entries, disk, poisoned)
    <2> SUFFICES ASSUME RegistryInv PROVE Contents = Held(entries, disk, poisoned)
      OBVIOUS
    <2>1. CASE Broken \/ ~IsSpilled
      BY <2>1 DEF Contents, Held, Broken, IsSpilled
    <2>2. CASE ~Broken /\ IsSpilled
      <3>1. DiskOk(disk)
        BY <2>2 DEF RegistryInv, RegistryOk, Broken, IsSpilled
      <3>2. Contents = MapIn(disk)
        BY <2>2, <3>1, ContentsOfDisk DEF Contents, KeyOf, Occupied
      <3> QED BY <2>2, <3>2 DEF Held, Broken, IsSpilled
    <2> QED BY <2>1, <2>2
  <1>2. RegistryInv' => Contents' = Held(entries', disk', poisoned')
    <2> SUFFICES ASSUME RegistryInv' PROVE Contents' = Held(entries', disk', poisoned')
      OBVIOUS
    <2>1. CASE (Broken \/ ~IsSpilled)'
      BY <2>1 DEF Contents, Held, Broken, IsSpilled
    <2>2. CASE ~(Broken') /\ IsSpilled'
      <3>1. DiskOk(disk')
        BY <2>2 DEF RegistryInv, RegistryOk, Broken, IsSpilled
      <3>2. Contents' = MapIn(disk')
        BY <2>2, <3>1, ContentsOfDisk DEF Contents, KeyOf, Occupied
      <3> QED BY <2>2, <3>2 DEF Held, Broken, IsSpilled
    <2> QED BY <2>1, <2>2
  <1> QED BY <1>1, <1>2

LEMMA CountersWith ==
  ASSUME NEW m, Counters(m), NEW id \in Ids, NEW v \in 0..MaxSuffix
  PROVE  /\ Counters(With(m, id, v)) /\ Cardinality(DOMAIN m) \in Nat
         /\ id \notin DOMAIN m => Cardinality(DOMAIN With(m, id, v)) = Cardinality(DOMAIN m) + 1
  <1>1. DOMAIN With(m, id, v) = DOMAIN m \cup {id}
    BY DEF With
  <1>2. /\ IsFiniteSet(DOMAIN m \cup {id}) /\ Cardinality(DOMAIN m) \in Nat
        /\ id \notin DOMAIN m => Cardinality(DOMAIN m \cup {id}) = Cardinality(DOMAIN m) + 1
    BY FS_AddElement, FS_CardinalityType DEF Counters
  <1>3. With(m, id, v) \in [DOMAIN m \cup {id} -> 0..MaxSuffix]
    BY DEF With, Counters
  <1> QED BY <1>1, <1>2, <1>3 DEF Counters

LEMMA CountersNothing ==
  Counters(Nothing) /\ Cardinality(DOMAIN Nothing) = 0 /\ DOMAIN Nothing = {}
  <1>1. DOMAIN Nothing = {} /\ Nothing \in [{} -> 0..MaxSuffix]
    BY DEF Nothing
  <1> QED BY <1>1, FS_EmptySet DEF Counters

-----------------------------------------------------------------------------
(***************************************************************************)
(* Every call keeps the invariant, and is one of the exact map.            *)
(***************************************************************************)
LEMMA RefuseStep ==
  ASSUME RegistryInv, NEW op, NEW id, Refuse(op, id)
  PROVE  RegistryInv' /\ Map!Fail(op, id)
  <1>1. RegistryInv'
    BY DEF Refuse, RegistryInv, Broken
  <1>2. Broken' /\ Contents' = Nothing
    BY DEF Refuse, Broken, IsSpilled, Contents
  <1> QED BY <1>1, <1>2 DEF Refuse, Answers, Map!Fail, Map!Nothing, Nothing

LEMMA ResidentIs ==
  ASSUME RegistryInv, IsResident
  PROVE  Contents = entries /\ Broken = FALSE /\ disk = Absent /\ ~poisoned
  BY DEF IsResident, Contents, Broken, IsSpilled

LEMMA SpilledIs ==
  ASSUME RegistryInv, IsSpilled, ~Broken
  PROVE  /\ DiskOk(disk) /\ Contents = MapIn(disk) /\ disk.poisoned = FALSE /\ Broken = FALSE
         /\ Counters(MapIn(disk)) /\ entries = Nothing /\ poisoned = FALSE
  <1>1. IsDisk(disk) /\ ~disk.poisoned /\ DiskOk(disk) /\ Counters(MapIn(disk)) /\ entries = Nothing /\ ~poisoned
        /\ poisoned \in BOOLEAN
    BY DEF RegistryInv, RegistryOk, IsSpilled, Broken
  <1>2. disk.poisoned = FALSE
    BY <1>1 DEF IsDisk
  <1>3. Contents = MapIn(disk)
    BY <1>1, ContentsIs DEF Held, IsSpilled
  <1>4. Broken = FALSE
    BY DEF Broken
  <1> QED BY <1>1, <1>2, <1>3, <1>4

\* The registry is on disk from now on.
LEMMA DiskStep ==
  ASSUME RegistryInv, AbsentIsNoDisk, NEW d, DiskOk(d), d.poisoned = FALSE, Counters(MapIn(d)),
         disk' = d, entries' = Nothing, resident_key_bytes' \in {0, resident_key_bytes},
         ~poisoned, UNCHANGED poisoned
  PROVE  RegistryInv' /\ Contents' = MapIn(d) /\ Broken' = FALSE
  <1>1. IsDisk(d) /\ d # Absent
    BY DEF DiskOk, AbsentIsNoDisk
  <1>2. MaxResidentEntries \in Nat /\ MaxResidentKeyBytes \in Nat
    BY LimitsAssumption
  <1>3. RegistryOk(entries', resident_key_bytes', disk', poisoned')
    BY <1>1, <1>2, CountersNothing DEF RegistryInv, RegistryOk
  <1>4. RegistryInv'
    BY <1>3 DEF RegistryInv
  <1>5. Contents' = MapIn(d)
    BY <1>1, <1>4, ContentsIs DEF Held
  <1>6. Broken' = FALSE
    BY DEF Broken
  <1> QED BY <1>4, <1>5, <1>6

\* It has failed on disk.
LEMMA DiskFailsStep ==
  ASSUME RegistryInv, AbsentIsNoDisk, NEW op, NEW id, NEW left, IsDisk(left),
         disk' = [left EXCEPT !.poisoned = TRUE], Answers(op, id, Error),
         entries' = Nothing, resident_key_bytes' \in {0, resident_key_bytes},
         ~poisoned, UNCHANGED poisoned
  PROVE  RegistryInv' /\ Map!Fail(op, id)
  <1>1. IsDisk(disk') /\ disk'.poisoned = TRUE
    BY DEF IsDisk
  <1>2. disk' # Absent
    BY <1>1 DEF AbsentIsNoDisk
  <1>3. MaxResidentEntries \in Nat /\ MaxResidentKeyBytes \in Nat
    BY LimitsAssumption
  <1>4. RegistryOk(entries', resident_key_bytes', disk', poisoned')
    BY <1>1, <1>2, <1>3, CountersNothing DEF RegistryInv, RegistryOk
  <1>5. RegistryInv'
    BY <1>4 DEF RegistryInv
  <1>6. Broken' = TRUE /\ Contents' = Nothing
    BY <1>1, <1>2 DEF Broken, IsSpilled, Contents
  <1> QED BY <1>5, <1>6 DEF Answers, Map!Fail, Map!Nothing, Nothing

LEMMA ResidentInsertStep ==
  ASSUME RegistryInv, NEW id \in Ids, NEW initial \in 0..MaxSuffix, ResidentInsert(id, initial)
  PROVE  RegistryInv' /\ Map!GetOrInsert(id, initial)
  <1>1. Contents = entries /\ Broken = FALSE /\ disk = Absent /\ ~poisoned
    BY ResidentIs DEF ResidentInsert
  <1>2. disk' = Absent /\ ~poisoned' /\ poisoned' = poisoned /\ Broken' = FALSE /\ Contents' = entries'
    BY <1>1 DEF ResidentInsert, Broken, Contents, IsSpilled
  <1>3. /\ Counters(entries) /\ Cardinality(DOMAIN entries) <= MaxResidentEntries
        /\ resident_key_bytes \in 0..MaxResidentKeyBytes /\ poisoned \in BOOLEAN
    BY DEF RegistryInv, RegistryOk
  <1>4. CASE id \in DOMAIN entries
    <2>1. entries' = entries /\ resident_key_bytes' = resident_key_bytes /\ Answers("insert", id, entries[id])
      BY <1>4 DEF ResidentInsert
    <2>2. RegistryInv'
      BY <1>2, <1>3, <2>1 DEF RegistryInv, RegistryOk
    <2>3. Map!GetOrInsert(id, initial)
      BY <1>1, <1>2, <1>4, <2>1 DEF Map!GetOrInsert, Answers
    <2> QED BY <2>2, <2>3
  <1>5. CASE id \notin DOMAIN entries
    <2>1. /\ ~WouldExceedResidentLimits(id) /\ Answers("insert", id, Absent)
          /\ entries' = With(entries, id, initial) /\ resident_key_bytes' = resident_key_bytes + Len(id)
      BY <1>5 DEF ResidentInsert
    <2>2. Counters(entries') /\ Cardinality(DOMAIN entries') = Cardinality(DOMAIN entries) + 1
          /\ Cardinality(DOMAIN entries) \in Nat
      BY <1>3, <1>5, <2>1, CountersWith
    <2>3. MaxResidentEntries \in Nat /\ MaxResidentKeyBytes \in Nat /\ Len(id) \in Nat
      BY LimitsAssumption, IdType
    <2>4. Cardinality(DOMAIN entries') <= MaxResidentEntries /\ resident_key_bytes' \in 0..MaxResidentKeyBytes
      <3> DEFINE c == Cardinality(DOMAIN entries)
      <3>1. c < MaxResidentEntries /\ Len(id) + resident_key_bytes <= MaxResidentKeyBytes
        BY <1>3, <2>1, <2>2, <2>3 DEF WouldExceedResidentLimits
      <3>2. c \in Nat /\ Cardinality(DOMAIN entries') = c + 1
        BY <2>2
      <3> HIDE DEF c
      <3> QED BY <1>3, <2>1, <2>3, <3>1, <3>2
    <2>5. RegistryInv'
      BY <1>2, <1>3, <2>2, <2>4 DEF RegistryInv, RegistryOk
    <2>6. Map!GetOrInsert(id, initial)
      BY <1>1, <1>2, <1>5, <2>1 DEF Map!GetOrInsert, Map!With, With, Answers
    <2> QED BY <2>5, <2>6
  <1> QED BY <1>4, <1>5

\* Where a new identifier is to go there is room.
LEMMA MadeRoomIs ==
  ASSUME NEW d, DiskOk(d), NEW id \in Ids
  PROVE  DiskOk(MadeRoom(d, id))
  <1>1. DiskOk(Searched(d, id))
    BY SearchedIs
  <1>2. DiskOk(Grow(Searched(d, id)))
    BY <1>1, GrowIs
  <1> QED BY <1>1, <1>2 DEF MadeRoom

LEMMA WrittenIsDisk ==
  ASSUME NEW d, DiskOk(d), NEW id \in Ids, NEW index, NEW value
  PROVE  IsDisk(KeyWritten(d, id)) /\ IsDisk(SlotWritten(d, index, id, value))
  <1>1. IsDisk(KeyWritten(d, id))
    BY KeyWrittenIs, IdType DEF DiskOk
  <1>2. IsDisk(SlotWritten(d, index, id, value))
    BY <1>1 DEF IsDisk, SlotWritten
  <1> QED BY <1>1, <1>2

\* A resident registry that spills
LEMMA SpillBegins ==
  ASSUME RegistryInv, NEW id \in Ids, Spills(id), NEW seed \in Seeds, NEW order \in SetToSeqs(DOMAIN entries)
  PROVE  /\ Contents = entries /\ Broken = FALSE /\ ~poisoned /\ id \notin DOMAIN entries
         /\ Counters(entries) /\ resident_key_bytes \in 0..MaxResidentKeyBytes
         /\ DiskOk(Moved(seed, order)) /\ MapIn(Moved(seed, order)) = entries
         /\ Moved(seed, order).poisoned = FALSE
  <1>1. Contents = entries /\ Broken = FALSE /\ ~poisoned /\ id \notin DOMAIN entries
    BY ResidentIs DEF Spills
  <1>2. Counters(entries) /\ resident_key_bytes \in 0..MaxResidentKeyBytes
    BY DEF RegistryInv, RegistryOk
  <1>3. IsFiniteSet(DOMAIN entries) /\ DOMAIN entries \subseteq Ids /\ entries \in [DOMAIN entries -> Nat]
    <2>1. 0..MaxSuffix \subseteq Nat
      BY LimitsAssumption
    <2> QED BY <1>2, <2>1 DEF Counters
  <1>4. /\ DiskOk(Moved(seed, order)) /\ MapIn(Moved(seed, order)) = entries
        /\ Moved(seed, order).poisoned = FALSE
    BY <1>3, MovedIs
  <1> QED BY <1>1, <1>2, <1>4

LEMMA SpillAndInsertStep ==
  ASSUME RegistryInv, AbsentIsNoDisk, NEW id \in Ids, NEW initial \in 0..MaxSuffix, SpillAndInsert(id, initial)
  PROVE  RegistryInv' /\ Map!GetOrInsert(id, initial)
  <1>1. PICK seed \in Seeds, order \in SetToSeqs(DOMAIN entries) :
          disk' = Inserted(Moved(seed, order), id, initial) /\ Answers("insert", id, Absent)
    BY DEF SpillAndInsert
  <1> DEFINE m == Moved(seed, order)
             d == Inserted(m, id, initial)
  <1>2. /\ Contents = entries /\ Broken = FALSE /\ ~poisoned /\ id \notin DOMAIN entries /\ Counters(entries)
        /\ DiskOk(m) /\ MapIn(m) = entries /\ m.poisoned = FALSE
    BY SpillBegins DEF SpillAndInsert
  <1> HIDE DEF m
  <1>3. initial \in Nat
    BY LimitsAssumption
  <1>4. ~IsKnown(m, id)
    BY <1>2, Lookup
  <1>5. DiskOk(d) /\ MapIn(d) = With(entries, id, initial) /\ d.poisoned = FALSE
    BY <1>2, <1>3, <1>4, InsertedIs
  <1>6. Counters(MapIn(d))
    BY <1>2, <1>5, CountersWith
  <1>7. disk' = d
    BY <1>1 DEF m
  <1> HIDE DEF d
  <1>8. RegistryInv' /\ Contents' = MapIn(d) /\ Broken' = FALSE
    <2>1. entries' = Nothing /\ resident_key_bytes' \in {0, resident_key_bytes} /\ UNCHANGED poisoned
      BY DEF SpillAndInsert
    <2> QED BY <1>2, <1>5, <1>6, <1>7, <2>1, DiskStep
  <1>9. Map!GetOrInsert(id, initial)
    BY <1>1, <1>2, <1>5, <1>8 DEF Map!GetOrInsert, Map!With, With, Answers
  <1> QED BY <1>8, <1>9

LEMMA SpillFailsStep ==
  ASSUME RegistryInv, NEW id, SpillFails(id)
  PROVE  RegistryInv' /\ Map!Fail("insert", id)
  <1>1. disk = Absent /\ disk' = Absent /\ poisoned' = TRUE
    BY ResidentIs DEF SpillFails, Spills
  <1>2. MaxResidentEntries \in Nat /\ MaxResidentKeyBytes \in Nat
    BY LimitsAssumption
  <1>3. /\ Counters(entries) /\ Cardinality(DOMAIN entries) <= MaxResidentEntries
        /\ resident_key_bytes \in 0..MaxResidentKeyBytes
    BY DEF RegistryInv, RegistryOk
  <1>4. RegistryOk(entries', resident_key_bytes', disk', poisoned')
    <2>1. CASE UNCHANGED <<entries, resident_key_bytes>>
      BY <1>1, <1>3, <2>1 DEF RegistryOk
    <2>2. CASE entries' = Nothing /\ resident_key_bytes' = 0
      BY <1>1, <1>2, <2>2, CountersNothing DEF RegistryOk
    <2> QED BY <2>1, <2>2 DEF SpillFails
  <1>5. RegistryInv'
    BY <1>4 DEF RegistryInv
  <1>6. Broken' = TRUE /\ Contents' = Nothing
    BY <1>1 DEF Broken, Contents
  <1> QED BY <1>5, <1>6 DEF SpillFails, Answers, Map!Fail, Map!Nothing, Nothing

LEMMA SpillThenFailsStep ==
  ASSUME RegistryInv, AbsentIsNoDisk, NEW id \in Ids, NEW initial, SpillThenFails(id, initial)
  PROVE  RegistryInv' /\ Map!Fail("insert", id)
  <1>1. PICK seed \in Seeds, order \in SetToSeqs(DOMAIN entries) :
          \E left \in {Moved(seed, order), MadeRoom(Moved(seed, order), id),
                       KeyWritten(MadeRoom(Moved(seed, order), id), id)} :
            disk' = [left EXCEPT !.poisoned = TRUE]
    BY DEF SpillThenFails
  <1> DEFINE m == Moved(seed, order)
  <1>2. ~poisoned /\ DiskOk(m)
    BY SpillBegins DEF SpillThenFails
  <1>3. PICK left \in {m, MadeRoom(m, id), KeyWritten(MadeRoom(m, id), id)} : disk' = [left EXCEPT !.poisoned = TRUE]
    BY <1>1
  <1> HIDE DEF m
  <1>4. IsDisk(left)
    <2>1. DiskOk(MadeRoom(m, id)) /\ IsDisk(m)
      BY <1>2, MadeRoomIs DEF DiskOk
    <2>2. IsDisk(MadeRoom(m, id)) /\ IsDisk(KeyWritten(MadeRoom(m, id), id))
      BY <2>1, WrittenIsDisk DEF DiskOk
    <2> QED BY <2>1, <2>2
  <1>5. /\ entries' = Nothing /\ resident_key_bytes' \in {0, resident_key_bytes} /\ UNCHANGED poisoned
        /\ Answers("insert", id, Error)
    BY DEF SpillThenFails
  <1> QED BY <1>2, <1>3, <1>4, <1>5, DiskFailsStep

\* A call on the disk table that goes well
LEMMA DiskAnswersStep ==
  ASSUME RegistryInv, AbsentIsNoDisk, IsSpilled, ~Broken, NEW op, NEW id, NEW value,
         NEW d, DiskOk(d), d.poisoned = FALSE, Counters(MapIn(d)), DiskAnswers(op, id, d, value)
  PROVE  /\ RegistryInv' /\ Contents' = MapIn(d) /\ Broken' = FALSE
         /\ call' = <<op, id>> /\ answer' = value
  <1>1. entries = Nothing /\ poisoned = FALSE
    BY SpilledIs
  <1>2. /\ disk' = d /\ entries' = Nothing /\ resident_key_bytes' \in {0, resident_key_bytes}
        /\ ~poisoned /\ UNCHANGED poisoned
    BY <1>1 DEF DiskAnswers
  <1> QED BY <1>2, DiskStep DEF DiskAnswers, Answers

LEMMA DiskCallFails ==
  ASSUME RegistryInv, AbsentIsNoDisk, IsSpilled, ~Broken, NEW op, NEW id,
         NEW left, IsDisk(left), DiskFails(op, id, left)
  PROVE  RegistryInv' /\ Map!Fail(op, id)
  <1>1. entries = Nothing /\ poisoned = FALSE
    BY SpilledIs
  <1>2. /\ disk' = [left EXCEPT !.poisoned = TRUE] /\ Answers(op, id, Error) /\ entries' = Nothing
        /\ resident_key_bytes' \in {0, resident_key_bytes} /\ ~poisoned /\ UNCHANGED poisoned
    BY <1>1 DEF DiskFails, DiskAnswers
  <1> QED BY <1>2, DiskFailsStep

\* A search that finds, or does not, leaves the registry on disk as it is.
LEMMA SearchedHealthy ==
  ASSUME RegistryInv, IsSpilled, ~Broken, NEW id \in Ids
  PROVE  LET d == Searched(disk, id) IN
         /\ DiskOk(d) /\ IsDisk(d) /\ d.poisoned = FALSE /\ MapIn(d) = Contents /\ Counters(MapIn(d))
         /\ IsDisk(disk) /\ DiskOk(disk) /\ Contents = MapIn(disk) /\ Counters(Contents) /\ Broken = FALSE
         /\ disk.poisoned = FALSE
         /\ IsKnown(disk, id) <=> id \in DOMAIN Contents
         /\ IsKnown(disk, id) => FoundSlot(disk, id).stored = Contents[id]
  <1>1. DiskOk(disk) /\ Contents = MapIn(disk) /\ disk.poisoned = FALSE /\ Counters(MapIn(disk)) /\ Broken = FALSE
    BY SpilledIs
  <1>2. DiskOk(Searched(disk, id)) /\ SameButCursor(Searched(disk, id), disk)
    BY <1>1, SearchedIs
  <1>3. MapIn(Searched(disk, id)) = MapIn(disk) /\ Searched(disk, id).poisoned = FALSE
    BY <1>1, <1>2, SameEntries DEF SameButCursor
  <1>4. /\ IsKnown(disk, id) <=> id \in DOMAIN MapIn(disk)
        /\ IsKnown(disk, id) => FoundSlot(disk, id).stored = MapIn(disk)[id]
    BY <1>1, Lookup
  <1> QED BY <1>1, <1>2, <1>3, <1>4 DEF DiskOk

LEMMA DiskInsertStep ==
  ASSUME RegistryInv, AbsentIsNoDisk, NEW id \in Ids, NEW initial \in 0..MaxSuffix, DiskInsert(id, initial)
  PROVE  RegistryInv' /\ Map!GetOrInsert(id, initial)
  <1> DEFINE f == Searched(disk, id)
             e == Inserted(disk, id, initial)
  <1>1. IsSpilled /\ ~Broken
    BY DEF DiskInsert
  <1>2. /\ DiskOk(f) /\ f.poisoned = FALSE /\ MapIn(f) = Contents /\ Counters(MapIn(f))
        /\ DiskOk(disk) /\ Contents = MapIn(disk) /\ Counters(Contents) /\ Broken = FALSE
        /\ disk.poisoned = FALSE
        /\ IsKnown(disk, id) <=> id \in DOMAIN Contents
        /\ IsKnown(disk, id) => FoundSlot(disk, id).stored = Contents[id]
    BY <1>1, SearchedHealthy
  <1>3. CASE IsKnown(disk, id)
    <2>1. DiskAnswers("insert", id, f, FoundSlot(disk, id).stored)
      BY <1>3 DEF DiskInsert
    <2> HIDE DEF f
    <2>2. /\ RegistryInv' /\ Contents' = MapIn(f) /\ Broken' = FALSE
          /\ call' = <<"insert", id>> /\ answer' = FoundSlot(disk, id).stored
      BY <1>1, <1>2, <2>1, DiskAnswersStep
    <2>3. Map!GetOrInsert(id, initial)
      BY <1>2, <1>3, <2>2 DEF Map!GetOrInsert
    <2> QED BY <2>2, <2>3
  <1>4. CASE ~IsKnown(disk, id)
    <2>1. DiskAnswers("insert", id, e, Absent)
      BY <1>4 DEF DiskInsert
    <2>2. initial \in Nat
      BY LimitsAssumption
    <2>3. DiskOk(e) /\ MapIn(e) = With(Contents, id, initial) /\ e.poisoned = FALSE
      BY <1>2, <1>4, <2>2, InsertedIs
    <2>4. Counters(MapIn(e))
      BY <1>2, <2>3, CountersWith
    <2> HIDE DEF e
    <2>5. /\ RegistryInv' /\ Contents' = MapIn(e) /\ Broken' = FALSE
          /\ call' = <<"insert", id>> /\ answer' = Absent
      BY <1>1, <2>1, <2>3, <2>4, DiskAnswersStep
    <2>6. Map!GetOrInsert(id, initial)
      BY <1>2, <1>4, <2>3, <2>5 DEF Map!GetOrInsert, Map!With, With
    <2> QED BY <2>5, <2>6
  <1> QED BY <1>3, <1>4

LEMMA DiskInsertFailsStep ==
  ASSUME RegistryInv, AbsentIsNoDisk, NEW id \in Ids, NEW initial, DiskInsertFails(id, initial)
  PROVE  RegistryInv' /\ Map!Fail("insert", id)
  <1> DEFINE room == MadeRoom(disk, id)
  <1>1. IsSpilled /\ ~Broken
    BY DEF DiskInsertFails
  <1>2. DiskOk(disk) /\ IsDisk(disk) /\ IsDisk(Searched(disk, id))
    BY <1>1, SearchedHealthy
  <1>3. DiskOk(room) /\ IsDisk(room)
    BY <1>2, MadeRoomIs DEF DiskOk
  <1>4. IsDisk(KeyWritten(room, id)) /\ IsDisk(SlotWritten(room, NewIndex(disk, id), id, initial))
    BY <1>3, WrittenIsDisk
  <1>5. PICK left \in {disk, Searched(disk, id), room, KeyWritten(room, id),
                       SlotWritten(room, NewIndex(disk, id), id, initial)} : DiskFails("insert", id, left)
    <2> HIDE DEF DiskFails, DiskAnswers
    <2> QED BY DEF DiskInsertFails
  <1>6. IsDisk(left)
    BY <1>2, <1>3, <1>4
  <1> QED BY <1>1, <1>5, <1>6, DiskCallFails

\* get_or_insert is one step of the exact map.
LEMMA GetOrInsertStep ==
  ASSUME RegistryInv, AbsentIsNoDisk, NEW id \in Ids, NEW initial \in 0..MaxSuffix, GetOrInsert(id, initial)
  PROVE  RegistryInv' /\ (Map!GetOrInsert(id, initial) \/ Map!Fail("insert", id))
  <1>1. CASE Refuse("insert", id)
    BY <1>1, RefuseStep
  <1>2. CASE ResidentInsert(id, initial)
    BY <1>2, ResidentInsertStep
  <1>3. CASE SpillAndInsert(id, initial)
    BY <1>3, SpillAndInsertStep
  <1>4. CASE SpillFails(id)
    BY <1>4, SpillFailsStep
  <1>5. CASE SpillThenFails(id, initial)
    BY <1>5, SpillThenFailsStep
  <1>6. CASE DiskInsert(id, initial)
    BY <1>6, DiskInsertStep
  <1>7. CASE DiskInsertFails(id, initial)
    BY <1>7, DiskInsertFailsStep
  <1> QED BY <1>1, <1>2, <1>3, <1>4, <1>5, <1>6, <1>7 DEF GetOrInsert

LEMMA ResidentSuffixStep ==
  ASSUME RegistryInv, NEW id \in Ids, ResidentSuffix(id)
  PROVE  RegistryInv' /\ Map!NextSuffix(id)
  <1>1. Contents = entries /\ Broken = FALSE /\ disk = Absent /\ ~poisoned
    BY ResidentIs DEF ResidentSuffix
  <1>2. disk' = Absent /\ ~poisoned' /\ poisoned' = poisoned /\ Broken' = FALSE /\ Contents' = entries'
        /\ resident_key_bytes' = resident_key_bytes
    BY <1>1 DEF ResidentSuffix, Broken, Contents, IsSpilled
  <1>3. /\ Counters(entries) /\ Cardinality(DOMAIN entries) <= MaxResidentEntries
        /\ resident_key_bytes \in 0..MaxResidentKeyBytes /\ poisoned \in BOOLEAN
    BY DEF RegistryInv, RegistryOk
  <1>4. CASE id \in DOMAIN entries /\ CanIncrement(entries[id])
    <2>1. Answers("suffix", id, entries[id]) /\ entries' = [entries EXCEPT ![id] = @ + 1]
      BY <1>4 DEF ResidentSuffix
    <2>2. entries[id] \in 0..MaxSuffix /\ entries[id] + 1 <= MaxSuffix /\ MaxSuffix \in Nat
      BY <1>3, <1>4, LimitsAssumption DEF Counters, CanIncrement
    <2>3. entries[id] + 1 \in 0..MaxSuffix /\ entries[id] < MaxSuffix
      BY <2>2
    <2>4. Counters(entries') /\ DOMAIN entries' = DOMAIN entries
      BY <1>3, <2>1, <2>3 DEF Counters
    <2>5. RegistryInv'
      BY <1>2, <1>3, <2>4 DEF RegistryInv, RegistryOk
    <2>6. Map!NextSuffix(id)
      BY <1>1, <1>2, <1>4, <2>1, <2>3 DEF Map!NextSuffix, Answers
    <2> QED BY <2>5, <2>6
  <1>5. CASE ~(id \in DOMAIN entries /\ CanIncrement(entries[id]))
    <2>1. Answers("suffix", id, Error) /\ entries' = entries
      BY <1>5 DEF ResidentSuffix
    <2>2. ~(id \in DOMAIN entries /\ entries[id] < MaxSuffix)
      <3> SUFFICES ASSUME id \in DOMAIN entries, entries[id] < MaxSuffix PROVE FALSE
        OBVIOUS
      <3>1. entries[id] \in Nat /\ MaxSuffix \in Nat
        BY <1>3, LimitsAssumption DEF Counters
      <3> QED BY <1>5, <3>1 DEF CanIncrement
    <2>3. RegistryInv'
      BY <1>2, <1>3, <2>1 DEF RegistryInv, RegistryOk
    <2>4. Map!NextSuffix(id)
      BY <1>1, <1>2, <2>1, <2>2 DEF Map!NextSuffix, Answers
    <2> QED BY <2>3, <2>4
  <1> QED BY <1>4, <1>5

LEMMA DiskSuffixStep ==
  ASSUME RegistryInv, AbsentIsNoDisk, NEW id \in Ids, DiskSuffix(id)
  PROVE  RegistryInv' /\ Map!NextSuffix(id)
  <1> DEFINE f == Searched(disk, id)
             e == Incremented(disk, id)
             old == FoundSlot(disk, id).stored
  <1>1. IsSpilled /\ ~Broken
    BY DEF DiskSuffix
  <1>2. /\ DiskOk(f) /\ f.poisoned = FALSE /\ MapIn(f) = Contents /\ Counters(MapIn(f))
        /\ DiskOk(disk) /\ Contents = MapIn(disk) /\ Counters(Contents) /\ Broken = FALSE
        /\ disk.poisoned = FALSE
        /\ IsKnown(disk, id) <=> id \in DOMAIN Contents
        /\ IsKnown(disk, id) => old = Contents[id]
    BY <1>1, SearchedHealthy
  <1>3. IsKnown(disk, id) => old \in 0..MaxSuffix /\ MaxSuffix \in Nat /\ (CanIncrement(old) <=> old < MaxSuffix)
    <2> SUFFICES ASSUME IsKnown(disk, id)
                 PROVE  old \in 0..MaxSuffix /\ MaxSuffix \in Nat /\ (CanIncrement(old) <=> old < MaxSuffix)
      OBVIOUS
    <2>1. old \in 0..MaxSuffix /\ MaxSuffix \in Nat
      BY <1>2, LimitsAssumption DEF Counters
    <2> HIDE DEF old
    <2> QED BY <2>1 DEF CanIncrement
  <1>4. CASE IsKnown(disk, id) /\ CanIncrement(old)
    <2>1. DiskAnswers("suffix", id, e, old)
      BY <1>4 DEF DiskSuffix
    <2>2. DiskOk(e) /\ MapIn(e) = [Contents EXCEPT ![id] = @ + 1] /\ e.poisoned = FALSE
      BY <1>2, <1>4, IncrementedIs
    <2> HIDE DEF e, old, f
    <2>3. old + 1 \in 0..MaxSuffix /\ old = Contents[id] /\ old < MaxSuffix /\ id \in DOMAIN Contents
      BY <1>2, <1>3, <1>4
    <2>4. Counters(MapIn(e))
      BY <1>2, <2>2, <2>3 DEF Counters
    <2>5. /\ RegistryInv' /\ Contents' = MapIn(e) /\ Broken' = FALSE
          /\ call' = <<"suffix", id>> /\ answer' = old
      BY <1>1, <2>1, <2>2, <2>4, DiskAnswersStep
    <2>6. Map!NextSuffix(id)
      BY <1>2, <2>2, <2>3, <2>5 DEF Map!NextSuffix
    <2> QED BY <2>5, <2>6
  <1>5. CASE ~(IsKnown(disk, id) /\ CanIncrement(old))
    <2>1. DiskAnswers("suffix", id, f, Error)
      BY <1>5 DEF DiskSuffix
    <2> HIDE DEF f, old
    <2>2. /\ RegistryInv' /\ Contents' = MapIn(f) /\ Broken' = FALSE
          /\ call' = <<"suffix", id>> /\ answer' = Error
      BY <1>1, <1>2, <2>1, DiskAnswersStep
    <2>3. ~(id \in DOMAIN Contents /\ Contents[id] < MaxSuffix)
      BY <1>2, <1>3, <1>5
    <2>4. Map!NextSuffix(id)
      BY <1>2, <2>2, <2>3 DEF Map!NextSuffix
    <2> QED BY <2>2, <2>4
  <1> QED BY <1>4, <1>5

LEMMA DiskSuffixFailsStep ==
  ASSUME RegistryInv, AbsentIsNoDisk, NEW id \in Ids, DiskSuffixFails(id)
  PROVE  RegistryInv' /\ Map!Fail("suffix", id)
  <1>1. IsSpilled /\ ~Broken
    BY DEF DiskSuffixFails
  <1>2. DiskOk(disk) /\ IsDisk(disk) /\ IsDisk(Searched(disk, id))
    BY <1>1, SearchedHealthy
  <1>3. IsKnown(disk, id) => IsDisk(Incremented(disk, id))
    BY <1>2, IncrementedIs DEF DiskOk
  <1>4. \E left : IsDisk(left) /\ DiskFails("suffix", id, left)
    <2> HIDE DEF DiskFails
    <2> QED BY <1>2, <1>3 DEF DiskSuffixFails
  <1> QED BY <1>1, <1>4, DiskCallFails

\* next_suffix is one step of the exact map.
LEMMA NextSuffixStep ==
  ASSUME RegistryInv, AbsentIsNoDisk, NEW id \in Ids, NextSuffix(id)
  PROVE  RegistryInv' /\ (Map!NextSuffix(id) \/ Map!Fail("suffix", id))
  <1>1. CASE Refuse("suffix", id)
    BY <1>1, RefuseStep
  <1>2. CASE ResidentSuffix(id)
    BY <1>2, ResidentSuffixStep
  <1>3. CASE DiskSuffix(id)
    BY <1>3, DiskSuffixStep
  <1>4. CASE DiskSuffixFails(id)
    BY <1>4, DiskSuffixFailsStep
  <1> QED BY <1>1, <1>2, <1>3, <1>4 DEF NextSuffix

\* get is one step of the exact map.
LEMMA GetStep ==
  ASSUME RegistryInv, AbsentIsNoDisk, NEW id \in Ids, Get(id)
  PROVE  RegistryInv' /\ (Map!Get(id) \/ Map!Fail("get", id))
  <1>1. CASE Refuse("get", id)
    BY <1>1, RefuseStep
  <1>2. CASE ResidentGet(id)
    <2>1. Contents = entries /\ Broken = FALSE
      BY <1>2, ResidentIs DEF ResidentGet
    <2>2. RegistryInv' /\ Contents' = Contents /\ Broken' = Broken
      BY <1>2 DEF ResidentGet, RegistryInv, Contents, Broken, IsSpilled, Occupied, KeyOf
    <2> QED BY <1>2, <2>1, <2>2 DEF ResidentGet, Answers, Map!Get
  <1>3. CASE DiskGet(id)
    <2> DEFINE f == Searched(disk, id)
               value == IF IsKnown(disk, id) THEN FoundSlot(disk, id).stored ELSE Absent
    <2>1. IsSpilled /\ ~Broken /\ DiskAnswers("get", id, f, value)
      BY <1>3 DEF DiskGet
    <2>2. /\ DiskOk(f) /\ f.poisoned = FALSE /\ MapIn(f) = Contents /\ Counters(MapIn(f)) /\ Broken = FALSE
          /\ value = IF id \in DOMAIN Contents THEN Contents[id] ELSE Absent
      BY <2>1, SearchedHealthy
    <2> HIDE DEF f, value
    <2>3. /\ RegistryInv' /\ Contents' = MapIn(f) /\ Broken' = FALSE
          /\ call' = <<"get", id>> /\ answer' = value
      <3>1. DiskOk(f) /\ f.poisoned = FALSE /\ Counters(MapIn(f))
        BY <2>2
      <3> QED BY <2>1, <3>1, DiskAnswersStep
    <2> QED BY <2>2, <2>3 DEF Map!Get
  <1>4. CASE DiskGetFails(id)
    <2>1. IsSpilled /\ ~Broken
      BY <1>4 DEF DiskGetFails
    <2>2. IsDisk(disk) /\ IsDisk(Searched(disk, id))
      BY <2>1, SearchedHealthy
    <2>3. \E left : IsDisk(left) /\ DiskFails("get", id, left)
      <3> HIDE DEF DiskFails
      <3> QED BY <1>4, <2>2 DEF DiskGetFails
    <2> QED BY <2>1, <2>3, DiskCallFails
  <1> QED BY <1>1, <1>2, <1>3, <1>4 DEF Get

-----------------------------------------------------------------------------
(***************************************************************************)
(* The users.  What a call has under way is an identifier, and while the   *)
(* registry is healthy it knows every identifier that was given.           *)
(***************************************************************************)
Asked == Raw \cup {Prefixed(r, raw) : r \in Resources, raw \in Raw} \cup {AutoId(n) : n \in 0..MaxCalls}

UserInv ==
  /\ user \in {"identity", "index"}
  /\ calls \in 0..MaxCalls /\ generated \in 0..calls
  /\ pc \in {"idle", "whole", "first", "suffix", "candidate"}
  /\ pc # "idle" => user = "identity" /\ candidate \in Ids
  /\ pc = "whole" => preferred \in Raw /\ resource \in Resources
  /\ pc \in {"first", "suffix", "candidate"} => preferred \in Asked

Knows == /\ \A n \in DOMAIN given : given[n] \in DOMAIN Contents
         /\ \A id \in DOMAIN Contents : Contents[id] >= InitialNextSuffix

GivenInv ==
  /\ given \in Seq(Ids) /\ UnitIdsAreUnique
  /\ user = "identity" /\ ~Broken => Knows

IInv == RegistryInv /\ UserInv /\ GivenInv

LEMMA AskedIs ==
  /\ Raw \subseteq Asked /\ Asked \subseteq Ids
  /\ \A r \in Resources, raw \in Raw : Prefixed(r, raw) \in Asked
  /\ \A n \in 0..MaxCalls : AutoId(n) \in Asked
  /\ \A id \in Asked, n \in InitialNextSuffix..MaxSuffix : Suffixed(id, n) \in Ids
  /\ InitialNextSuffix \in 0..MaxSuffix
  <1>1. /\ InitialNextSuffix <= MaxSuffix /\ Asked \subseteq Ids
        /\ \A id \in Asked, n \in InitialNextSuffix..MaxSuffix : Suffixed(id, n) \in Ids
    BY IdsCoverAssumption DEF Asked
  <1>2. InitialNextSuffix \in 0..MaxSuffix
    BY <1>1, LimitsAssumption DEF InitialNextSuffix
  <1> QED BY <1>1, <1>2 DEF Asked

LEMMA ContentsCounters ==
  ASSUME RegistryInv
  PROVE  Counters(Contents)
  <1>1. Contents = Held(entries, disk, poisoned)
    BY ContentsIs
  <1> QED BY <1>1, CountersNothing DEF Held, RegistryInv, RegistryOk

\* What the answer to a call says of the registry
LEMMA InsertEffect ==
  ASSUME RegistryInv, NEW id \in Ids, NEW initial, Map!GetOrInsert(id, initial) \/ Map!Fail("insert", id)
  PROVE  /\ answer' = Absent => /\ ~Broken /\ ~Broken' /\ id \notin DOMAIN Contents
                                /\ Contents' = With(Contents, id, initial)
         /\ answer' \in Nat => ~Broken /\ Contents' = Contents
         /\ answer' \notin {Absent} \cup Nat => Broken'
  <1>1. CASE Map!Fail("insert", id)
    BY <1>1, AnswersAssumption DEF Map!Fail
  <1>2. CASE Map!GetOrInsert(id, initial)
    <2>1. id \in DOMAIN Contents => Contents[id] \in Nat
      BY ContentsCounters, LimitsAssumption DEF Counters
    <2>2. CASE id \in DOMAIN Contents
      BY <1>2, <2>1, <2>2, AnswersAssumption DEF Map!GetOrInsert
    <2>3. CASE id \notin DOMAIN Contents
      BY <1>2, <2>3, AnswersAssumption DEF Map!GetOrInsert, Map!With, With
    <2> QED BY <2>2, <2>3
  <1> QED BY <1>1, <1>2

LEMMA SuffixEffect ==
  ASSUME RegistryInv, NEW id \in Ids, Map!NextSuffix(id) \/ Map!Fail("suffix", id)
  PROVE  /\ answer' \in Nat => /\ ~Broken /\ id \in DOMAIN Contents /\ answer' = Contents[id] /\ Contents[id] < MaxSuffix
                               /\ Contents' = [Contents EXCEPT ![id] = @ + 1]
         /\ answer' \notin Nat => Broken' \/ (~Broken /\ Contents' = Contents)
  <1>1. CASE Map!Fail("suffix", id)
    BY <1>1, AnswersAssumption DEF Map!Fail
  <1>2. CASE Map!NextSuffix(id)
    <2>1. id \in DOMAIN Contents => Contents[id] \in Nat
      BY ContentsCounters, LimitsAssumption DEF Counters
    <2> QED BY <1>2, <2>1, AnswersAssumption DEF Map!NextSuffix
  <1> QED BY <1>1, <1>2

\* A registry that only comes to know more keeps what was given.
LEMMA GivenKept ==
  ASSUME GivenInv, UNCHANGED <<given, user>>,
         \/ Broken' \/ user = "index"
         \/ /\ ~Broken /\ DOMAIN Contents \subseteq DOMAIN Contents'
            /\ Knows => \A id \in DOMAIN Contents' : Contents'[id] >= InitialNextSuffix
  PROVE  GivenInv'
  <1>1. given' \in Seq(Ids) /\ UnitIdsAreUnique'
    BY DEF GivenInv, UnitIdsAreUnique
  <1>2. ASSUME user' = "identity", ~Broken' PROVE Knows'
    BY <1>2 DEF GivenInv, Knows
  <1> QED BY <1>1, <1>2 DEF GivenInv

LEMMA GivenReturned ==
  ASSUME IInv, user = "identity", user' = user, candidate \in Ids, given' = Append(given, candidate),
         ~Broken, candidate \notin DOMAIN Contents, Contents' = With(Contents, candidate, InitialNextSuffix)
  PROVE  GivenInv'
  <1>1. given \in Seq(Ids) /\ UnitIdsAreUnique /\ Knows
    BY DEF IInv, GivenInv
  <1>2. DOMAIN given = 1..Len(given) /\ Len(given) \in Nat
    BY <1>1
  <1>3. /\ given' \in Seq(Ids) /\ DOMAIN given' = 1..Len(given) + 1
        /\ given'[Len(given) + 1] = candidate /\ \A n \in 1..Len(given) : given'[n] = given[n]
    BY <1>1
  <1>4. \A n \in DOMAIN given' : n \in DOMAIN given \/ n = Len(given) + 1
    BY <1>2, <1>3
  <1>5. \A n \in DOMAIN given : given[n] # candidate
    BY <1>1 DEF Knows
  <1>6. UnitIdsAreUnique'
    BY <1>1, <1>2, <1>3, <1>4, <1>5 DEF UnitIdsAreUnique
  <1>7. DOMAIN Contents' = DOMAIN Contents \cup {candidate}
    BY DEF With
  <1>8. \A n \in DOMAIN given' : given'[n] \in DOMAIN Contents'
    BY <1>1, <1>2, <1>3, <1>4, <1>7 DEF Knows
  <1>9. \A id \in DOMAIN Contents' : Contents'[id] >= InitialNextSuffix
    <2>1. InitialNextSuffix >= InitialNextSuffix
      BY DEF InitialNextSuffix
    <2> QED BY <1>1, <1>7, <2>1 DEF With, Knows
  <1> QED BY <1>3, <1>6, <1>8, <1>9 DEF GivenInv, Knows

MapVars == <<Contents, Broken, call, answer>>

LEMMA RegistryUnchanged ==
  ASSUME RegistryInv, UNCHANGED registryVars
  PROVE  RegistryInv' /\ UNCHANGED MapVars
  BY DEF registryVars, RegistryInv, MapVars, Contents, Broken, IsSpilled, Occupied, KeyOf

\* The start of a call
LEMMA BeginStep ==
  ASSUME IInv, NEW id \in Ids, NEW place \in {"whole", "first"}, Begin(id, place),
         place = "whole" => id \in Raw /\ resource' \in Resources,
         place = "first" => id \in Asked,
         generated' \in {generated, generated + 1}
  PROVE  IInv' /\ UNCHANGED MapVars
  <1>1. RegistryInv' /\ UNCHANGED MapVars
    BY RegistryUnchanged DEF IInv, Begin
  <1>2. UserInv'
    <2>1. calls' = calls + 1 /\ calls < MaxCalls /\ user = "identity" /\ user' = user
          /\ preferred' = id /\ candidate' = id /\ pc' = place
      BY DEF Begin, Call
    <2>2. calls' \in 0..MaxCalls /\ generated' \in 0..calls'
      BY <2>1, UsersAssumption DEF IInv, UserInv
    <2> QED BY <2>1, <2>2 DEF UserInv
  <1>3. GivenInv'
    <2>1. UNCHANGED <<given, user>> /\ Broken' = Broken /\ Contents' = Contents
      BY <1>1 DEF Begin, MapVars
    <2>2. Broken \/ ~Broken
      OBVIOUS
    <2> QED BY <2>1, <2>2, GivenKept DEF IInv, Knows
  <1> QED BY <1>1, <1>2, <1>3 DEF IInv

\* The calls are steps of the exact map.
LEMMA MapSteps ==
  ASSUME NEW id \in Ids, NEW initial \in 0..MaxSuffix
  PROVE  /\ Map!GetOrInsert(id, initial) \/ Map!Fail("insert", id) => Map!Next
         /\ Map!NextSuffix(id) \/ Map!Fail("suffix", id) => Map!Next
         /\ Map!Get(id) \/ Map!Fail("get", id) => Map!Next
  BY Zenon DEF Map!Next

LEMMA ResolveStep ==
  ASSUME IInv, NEW raw \in Raw, Resolve(raw)
  PROVE  IInv' /\ UNCHANGED MapVars
  <1>1. raw \in Ids /\ raw \in Asked /\ Begin(raw, "first") /\ generated' = generated
    BY AskedIs DEF Resolve
  <1> QED BY <1>1, BeginStep

LEMMA ResolveTmxStep ==
  ASSUME IInv, ResolveTmx
  PROVE  IInv' /\ UNCHANGED MapVars
  <1>1. generated \in 0..MaxCalls
    BY UsersAssumption DEF IInv, UserInv
  <1>2. AutoId(generated) \in Asked /\ AutoId(generated) \in Ids
    BY <1>1, AskedIs
  <1>3. Begin(AutoId(generated), "first") /\ generated' = generated + 1
    BY DEF ResolveTmx
  <1> QED BY <1>2, <1>3, BeginStep

LEMMA ResolveXliffStep ==
  ASSUME IInv, NEW raw \in Raw, NEW r \in Resources, ResolveXliff(raw, r)
  PROVE  IInv' /\ UNCHANGED MapVars
  <1>1. raw \in Ids /\ Begin(raw, "whole") /\ resource' = r /\ generated' = generated
    BY AskedIs DEF ResolveXliff
  <1> QED BY <1>1, BeginStep

\* A candidate is tried: when it is new it is given, and known from then on.
LEMMA TryStep ==
  ASSUME IInv, AbsentIsNoDisk, pc # "idle", GetOrInsert(candidate, InitialNextSuffix),
         UNCHANGED <<user, generated, calls>>,
         \/ answer' = Absent /\ Return
         \/ answer' = Error /\ Raise
         \/ answer' \in Nat /\ UNCHANGED given
  PROVE  /\ RegistryInv' /\ GivenInv' /\ Map!Next
         /\ UserInv /\ candidate \in Ids /\ user' = "identity"
  <1>1. RegistryInv /\ UserInv /\ GivenInv
    BY DEF IInv
  <1>2. candidate \in Ids /\ user = "identity" /\ user' = user
    BY <1>1 DEF UserInv
  <1>3. InitialNextSuffix \in 0..MaxSuffix
    BY AskedIs
  <1>4. RegistryInv' /\ (Map!GetOrInsert(candidate, InitialNextSuffix) \/ Map!Fail("insert", candidate))
    BY <1>1, <1>2, <1>3, GetOrInsertStep
  <1>5. /\ answer' = Absent => /\ ~Broken /\ ~Broken' /\ candidate \notin DOMAIN Contents
                               /\ Contents' = With(Contents, candidate, InitialNextSuffix)
        /\ answer' \in Nat => ~Broken /\ Contents' = Contents
        /\ answer' \notin {Absent} \cup Nat => Broken'
    BY <1>1, <1>2, <1>4, InsertEffect
  <1>6. Map!Next
    BY <1>2, <1>3, <1>4, MapSteps
  <1>7. GivenInv'
    <2>1. CASE answer' = Absent /\ Return
      BY <1>2, <1>5, <2>1, GivenReturned DEF Return
    <2>2. CASE answer' = Error /\ Raise
      <3>1. Broken' /\ given' = given
        BY <1>5, <2>2, AnswersAssumption DEF Raise
      <3> QED BY <1>1, <1>2, <3>1, GivenKept
    <2>3. CASE answer' \in Nat /\ UNCHANGED given
      <3>1. ~Broken /\ Contents' = Contents
        BY <1>5, <2>3
      <3>2. Knows => \A id \in DOMAIN Contents' : Contents'[id] >= InitialNextSuffix
        BY <3>1 DEF Knows
      <3> QED BY <1>1, <1>2, <2>3, <3>1, <3>2, GivenKept
    <2> QED BY <2>1, <2>2, <2>3
  <1> QED BY <1>1, <1>2, <1>4, <1>6, <1>7

LEMMA TryWholeStep ==
  ASSUME IInv, AbsentIsNoDisk, TryWhole
  PROVE  IInv' /\ Map!Next
  <1> DEFINE taken == /\ preferred' = Prefixed(resource, preferred)
                      /\ candidate' = preferred'
                      /\ pc' = "first"
  <1>1. /\ pc = "whole" /\ GetOrInsert(candidate, InitialNextSuffix)
        /\ \/ answer' = Absent /\ Return /\ UNCHANGED <<preferred, candidate>>
           \/ answer' = Error /\ Raise /\ UNCHANGED <<preferred, candidate>>
           \/ answer' \in Nat /\ UNCHANGED given /\ taken
        /\ UNCHANGED <<user, resource, generated, calls>>
    BY DEF TryWhole, Insert, Outcome
  <1> HIDE DEF taken
  <1>2. /\ RegistryInv' /\ GivenInv' /\ Map!Next
        /\ UserInv /\ candidate \in Ids /\ user' = "identity"
    BY <1>1, TryStep
  <1>3. UserInv'
    <2>1. pc' = "idle" \/ taken
      BY <1>1 DEF Return, Raise
    <2>2. CASE pc' = "idle"
      BY <1>1, <1>2, <2>2 DEF UserInv
    <2>3. CASE taken
      <3>1. Prefixed(resource, preferred) \in Asked /\ Prefixed(resource, preferred) \in Ids
        BY <1>1, <1>2, AskedIs DEF UserInv
      <3> QED BY <1>1, <1>2, <2>3, <3>1 DEF UserInv, taken
    <2> QED BY <2>1, <2>2, <2>3
  <1> QED BY <1>2, <1>3 DEF IInv

LEMMA TryAgainStep ==
  ASSUME IInv, AbsentIsNoDisk, TryFirst \/ TryCandidate
  PROVE  IInv' /\ Map!Next
  <1> DEFINE taken == pc' = "suffix" /\ UNCHANGED <<preferred, candidate>>
  <1>1. /\ pc \in {"first", "candidate"} /\ GetOrInsert(candidate, InitialNextSuffix)
        /\ \/ answer' = Absent /\ Return /\ UNCHANGED <<preferred, candidate>>
           \/ answer' = Error /\ Raise /\ UNCHANGED <<preferred, candidate>>
           \/ answer' \in Nat /\ UNCHANGED given /\ taken
        /\ UNCHANGED <<user, resource, generated, calls>>
    BY DEF TryFirst, TryCandidate, Insert, Outcome
  <1> HIDE DEF taken
  <1>2. /\ RegistryInv' /\ GivenInv' /\ Map!Next
        /\ UserInv /\ candidate \in Ids /\ user' = "identity"
    BY <1>1, TryStep
  <1>3. UserInv'
    <2>1. pc' \in {"idle", "suffix"} /\ UNCHANGED <<preferred, candidate>>
      BY <1>1 DEF Return, Raise, taken
    <2> QED BY <1>1, <1>2, <2>1 DEF UserInv
  <1> QED BY <1>2, <1>3 DEF IInv

\* The suffix is taken from the counter of the preferred identifier, which goes up.
LEMMA TakeSuffixStep ==
  ASSUME IInv, AbsentIsNoDisk, TakeSuffix
  PROVE  IInv' /\ Map!Next
  <1>1. RegistryInv /\ UserInv /\ GivenInv
    BY DEF IInv
  <1>2. pc = "suffix" /\ user = "identity" /\ preferred \in Asked /\ preferred \in Ids /\ candidate \in Ids
    BY <1>1, AskedIs DEF UserInv, TakeSuffix
  <1>3. RegistryInv' /\ (Map!NextSuffix(preferred) \/ Map!Fail("suffix", preferred))
    BY <1>1, <1>2, NextSuffixStep DEF TakeSuffix
  <1>4. /\ answer' \in Nat => /\ ~Broken /\ preferred \in DOMAIN Contents /\ answer' = Contents[preferred]
                              /\ Contents[preferred] < MaxSuffix
                              /\ Contents' = [Contents EXCEPT ![preferred] = @ + 1]
        /\ answer' \notin Nat => Broken' \/ (~Broken /\ Contents' = Contents)
    BY <1>1, <1>2, <1>3, SuffixEffect
  <1>5. Map!Next
    BY <1>2, <1>3, AskedIs, MapSteps
  <1>6. UNCHANGED <<user, preferred, resource, generated, calls>> /\ UNCHANGED given
    BY DEF TakeSuffix, Raise
  <1>7. CASE answer' = Error /\ Raise /\ UNCHANGED candidate
    <2>1. UserInv'
      BY <1>1, <1>6, <1>7 DEF UserInv, Raise
    <2>2. Broken' \/ (~Broken /\ Contents' = Contents)
      BY <1>4, <1>7, AnswersAssumption
    <2>3. GivenInv'
      BY <1>1, <1>6, <2>2, GivenKept DEF Knows
    <2> QED BY <1>3, <1>5, <2>1, <2>3 DEF IInv
  <1>8. CASE answer' \in Nat /\ candidate' = Suffixed(preferred, answer') /\ pc' = "candidate"
    <2>1. Knows /\ Counters(Contents)
      BY <1>1, <1>2, <1>4, <1>8, ContentsCounters DEF GivenInv
    <2>2. answer' \in InitialNextSuffix..MaxSuffix
      <3>1. answer' >= InitialNextSuffix /\ answer' < MaxSuffix
        BY <1>4, <1>8, <2>1 DEF Knows
      <3> QED BY <1>8, <3>1, LimitsAssumption DEF InitialNextSuffix
    <2>3. candidate' \in Ids
      BY <1>2, <1>8, <2>2, AskedIs
    <2>4. UserInv'
      BY <1>1, <1>2, <1>6, <1>8, <2>3 DEF UserInv
    <2>5. DOMAIN Contents' = DOMAIN Contents
      BY <1>4, <1>8
    <2>6. ASSUME NEW id \in DOMAIN Contents' PROVE Contents'[id] >= InitialNextSuffix
      <3>1. Contents[id] \in Nat /\ Contents[id] >= InitialNextSuffix
        BY <2>1, <2>5, LimitsAssumption DEF Knows, Counters
      <3>2. Contents'[id] = Contents[id] \/ Contents'[id] = Contents[id] + 1
        BY <1>4, <1>8, <2>5
      <3> QED BY <3>1, <3>2 DEF InitialNextSuffix
    <2>7. GivenInv'
      BY <1>1, <1>4, <1>6, <1>8, <2>5, <2>6, GivenKept
    <2> QED BY <1>3, <1>5, <2>4, <2>7 DEF IInv
  <1> QED BY <1>7, <1>8 DEF TakeSuffix

\* The index registers and looks up values of its own.
LEMMA IndexStep ==
  ASSUME IInv, AbsentIsNoDisk, NEW id \in Raw,
         LookUp(id) \/ \E value \in Values : Register(id, value)
  PROVE  IInv' /\ Map!Next
  <1>1. RegistryInv /\ UserInv /\ GivenInv /\ id \in Ids
    BY AskedIs DEF IInv
  <1>2. user = "index" /\ Call /\ UNCHANGED <<user, generated, callVars>>
    BY DEF LookUp, Register, Index
  <1>3. UserInv'
    <2>1. calls' \in 0..MaxCalls /\ generated' \in 0..calls'
      BY <1>1, <1>2, UsersAssumption DEF UserInv, Call
    <2> QED BY <1>1, <1>2, <2>1 DEF UserInv, callVars
  <1>4. GivenInv'
    BY <1>1, <1>2, GivenKept DEF callVars
  <1>5. CASE LookUp(id)
    <2>1. RegistryInv' /\ (Map!Get(id) \/ Map!Fail("get", id))
      BY <1>1, <1>5, GetStep DEF LookUp, Index
    <2> QED BY <1>1, <1>3, <1>4, <2>1, MapSteps, AskedIs DEF IInv
  <1>6. ASSUME NEW value \in Values, Register(id, value) PROVE IInv' /\ Map!Next
    <2>1. value \in 0..MaxSuffix
      BY UsersAssumption
    <2>2. RegistryInv' /\ (Map!GetOrInsert(id, value) \/ Map!Fail("insert", id))
      BY <1>1, <1>6, <2>1, GetOrInsertStep DEF Register, Index
    <2> QED BY <1>1, <1>3, <1>4, <2>1, <2>2, MapSteps DEF IInv
  <1> QED BY <1>5, <1>6

LEMMA NextStep ==
  ASSUME IInv, AbsentIsNoDisk, [Next]_vars
  PROVE  IInv' /\ [Map!Next]_MapVars
  <1>1. ASSUME NEW raw \in Raw, Resolve(raw) PROVE IInv' /\ [Map!Next]_MapVars
    BY <1>1, ResolveStep
  <1>2. ASSUME NEW raw \in Raw, NEW r \in Resources, ResolveXliff(raw, r) PROVE IInv' /\ [Map!Next]_MapVars
    BY <1>2, ResolveXliffStep
  <1>3. CASE ResolveTmx
    BY <1>3, ResolveTmxStep
  <1>4. CASE Continue
    BY <1>4, TryWholeStep, TryAgainStep, TakeSuffixStep DEF Continue
  <1>5. ASSUME NEW id \in Raw, LookUp(id) \/ \E value \in Values : Register(id, value)
        PROVE  IInv' /\ [Map!Next]_MapVars
    BY <1>5, IndexStep
  <1>6. CASE UNCHANGED vars
    <2>1. UNCHANGED registryVars /\ UNCHANGED <<user, generated, calls, callVars>>
      BY <1>6 DEF vars, registryVars, callVars
    <2>2. RegistryInv' /\ UNCHANGED MapVars
      BY <2>1, RegistryUnchanged DEF IInv
    <2>3. UserInv'
      BY <2>1 DEF IInv, UserInv, callVars
    <2>4. GivenInv'
      BY <2>1, <2>2 DEF IInv, GivenInv, UnitIdsAreUnique, Knows, callVars, MapVars
    <2> QED BY <2>2, <2>3, <2>4 DEF IInv
  <1> QED BY <1>1, <1>2, <1>3, <1>4, <1>5, <1>6 DEF Next

LEMMA InitHolds ==
  Init => IInv /\ Map!Init
  <1> SUFFICES ASSUME Init PROVE IInv /\ Map!Init
    OBVIOUS
  <1>1. /\ entries = Nothing /\ resident_key_bytes = 0 /\ disk = Absent /\ poisoned = FALSE
        /\ call = <<"none", Absent>> /\ answer = Absent
    BY DEF Init, RegistryInit
  <1>2. RegistryInv
    <2>1. Counters(entries) /\ Cardinality(DOMAIN entries) <= MaxResidentEntries
      <3>1. Counters(entries) /\ Cardinality(DOMAIN entries) = 0
        BY <1>1, CountersNothing
      <3> QED BY <3>1, LimitsAssumption
    <2>2. resident_key_bytes \in 0..MaxResidentKeyBytes
      BY <1>1, LimitsAssumption
    <2>3. poisoned = FALSE /\ disk = Absent
      BY <1>1
    <2> QED BY <2>1, <2>2, <2>3, Zenon DEF RegistryInv, RegistryOk
  <1>3. Contents = Nothing /\ Broken = FALSE
    BY <1>1 DEF Contents, Broken, IsSpilled
  <1>4. UserInv
    BY UsersAssumption DEF Init, UserInv
  <1>5. GivenInv
    BY <1>3, CountersNothing DEF Init, GivenInv, Knows, UnitIdsAreUnique
  <1>6. Map!Init
    BY <1>1, <1>3 DEF Map!Init, Map!Nothing, Nothing
  <1> QED BY <1>2, <1>4, <1>5, <1>6 DEF IInv

-----------------------------------------------------------------------------
(***************************************************************************)
(* The theorems.                                                           *)
(***************************************************************************)
\* The inductive invariant: the table is well placed, its slots spell the keys of the
\* file wherever the cursor stands and whatever is buffered, the resident map is within
\* its limits, and a healthy registry knows what was given.
THEOREM InvariantHolds ==
  ASSUME AbsentIsNoDisk
  PROVE  Spec => []IInv
  <1>1. Init => IInv
    BY InitHolds
  <1>2. IInv /\ [Next]_vars => IInv'
    BY NextStep
  <1> QED BY <1>1, <1>2, PTL DEF Spec

\* resolve_id and its kin give every unit of a document an identifier of its own, with any
\* number of units and after any errors of the registry.
THEOREM UniqueIds ==
  ASSUME AbsentIsNoDisk
  PROVE  Spec => []UnitIdsAreUnique
  <1>1. IInv => UnitIdsAreUnique
    BY DEF IInv, GivenInv
  <1> QED BY <1>1, InvariantHolds, PTL

LEMMA InvImpliesTiersAreSound ==
  IInv => TiersAreSound
  <1> SUFFICES ASSUME IInv PROVE TiersAreSound
    OBVIOUS
  <1>1. RegistryOk(entries, resident_key_bytes, disk, poisoned)
    BY DEF IInv, RegistryInv
  <1>2. resident_key_bytes <= MaxResidentKeyBytes
    BY <1>1, LimitsAssumption DEF RegistryOk
  <1>3. ASSUME IsSpilled, ~Broken
        PROVE  /\ ~ExceedsLoad(disk.len, Slots(disk.table))
               /\ Cardinality(Occupied) = disk.len
               /\ \A slot \in Occupied :
                    ProbeEnds(disk, KeyOf(slot)) # {} /\ FoundSlot(disk, KeyOf(slot)) = slot
    <2>1. DiskOk(disk)
      BY <1>1, <1>3 DEF RegistryOk, IsSpilled, Broken
    <2>2. Occupied = SlotsOf(disk.table) /\ \A slot : KeyOf(slot) = Key(Bytes(disk), slot)
      BY <2>1, ContentsOfDisk DEF Occupied, KeyOf
    <2>3. KeysOk(SlotsOf(disk.table), Bytes(disk), disk.seed)
      BY <2>1 DEF DiskOk
    <2>4. ASSUME NEW slot \in Occupied
          PROVE  ProbeEnds(disk, KeyOf(slot)) # {} /\ FoundSlot(disk, KeyOf(slot)) = slot
      <3> DEFINE id == Key(Bytes(disk), slot)
      <3>1. id \in Ids /\ slot \in SlotsOf(disk.table) /\ KeyOf(slot) = id
        BY <2>2, <2>3 DEF KeysOk, InFile
      <3>2. id \in DOMAIN MapIn(disk)
        BY <3>1 DEF MapIn, MapOf
      <3> HIDE DEF id
      <3>3. /\ ProbeEnds(disk, id) # {} /\ FoundSlot(disk, id) \in SlotsOf(disk.table)
            /\ Key(Bytes(disk), FoundSlot(disk, id)) = id
        BY <2>1, <3>1, <3>2, Lookup
      <3>4. FoundSlot(disk, id) = slot
        BY <2>3, <3>1, <3>3 DEF KeysOk, id
      <3> QED BY <3>1, <3>3, <3>4
    <2>5. ~ExceedsLoad(disk.len, Slots(disk.table)) /\ Cardinality(SlotsOf(disk.table)) = disk.len
      BY <2>1 DEF DiskOk
    <2> QED BY <2>2, <2>4, <2>5
  <1>4. IsSpilled => entries = Nothing
    BY <1>1 DEF RegistryOk, IsSpilled
  <1>5. Cardinality(DOMAIN entries) <= MaxResidentEntries
    BY <1>1 DEF RegistryOk
  <1> QED BY <1>2, <1>3, <1>4, <1>5 DEF TiersAreSound

\* The resident tier keeps within its limits and is empty after a spill; on disk the probe
\* for every key ends at its slot, whatever the hashes, the table's order and its growth.
THEOREM Tiers ==
  ASSUME AbsentIsNoDisk
  PROVE  Spec => []TiersAreSound
  BY InvImpliesTiersAreSound, InvariantHolds, PTL

\* BoundedIdRegistry answers every call as the exact map of identifiers to counters would,
\* in memory, through the spill and on disk, or fails and never answers again.
THEOREM Refinement ==
  ASSUME AbsentIsNoDisk
  PROVE  Spec => RefinesIdMap
  <1>1. Init => Map!Init
    BY InitHolds
  <1>2. IInv /\ [Next]_vars => [Map!Next]_MapVars
    BY NextStep
  <1>3. IInv /\ [Next]_vars => [Map!Next]_<<Contents, Broken, call, answer>>
    BY <1>2 DEF MapVars
  <1> QED BY <1>1, <1>3, InvariantHolds, PTL DEF Spec, RefinesIdMap, Map!Spec
=============================================================================
